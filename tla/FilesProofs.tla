---------------------------- MODULE FilesProofs ----------------------------
(***************************************************************************)
(* Three results on files, for any number of processes and open files,      *)
(* tables of any size and any volume that is sound at boot. Descriptor      *)
(* tables of two levels implement one map per process: the argument is      *)
(* about who may reach a table of the second level, which is exactly one    *)
(* slot of one process, so that a change through it is invisible to         *)
(* everybody else. The inode objects that open files share agree with the   *)
(* disk: the entries in memory, GoodTree, name every inode once, so there   *)
(* is one object for it, and Coherent says of the volume with these objects *)
(* in the place of the inodes on disk that no block serves two of them. And *)
(* directories may be read lazily: what is in memory is a part of Whole,    *)
(* and a walk through it keeps step with one through all of Whole.          *)
(***************************************************************************)
EXTENDS Files, Ext2Proofs

\* Tables of the second level that are in use have one owner; those that are
\* not have never been written; an entry leads to an open file.
OneOwner == \A p, q \in Procs : \A i, j \in Index :
              top[p][i] # 0 /\ top[p][i] = top[q][j] => p = q /\ i = j
FreshZero == \A t \in 1..MaxTables : t > tables => \A i \in Index : table[t][i] = 0
TablesOK == /\ tables \in 0..MaxTables
            /\ top \in [Procs -> [Index -> 0..tables]]
            /\ table \in [1..MaxTables -> [Index -> 0..Len(desc)]]
            /\ OneOwner /\ FreshZero

\* An open file has the four fields the code gives it.
FileRecord(f) == f = [path |-> f.path, type |-> f.type, num |-> f.num, pos |-> f.pos]
DescOK == /\ Len(desc) \in Nat /\ DOMAIN desc = 1..Len(desc) /\ desc \in Seq(Range(desc))
          /\ \A f \in DOMAIN desc : FileRecord(desc[f])

FdInv == TablesOK /\ DescOK /\ live \subseteq Procs

\* The abstract state: what a process's numbers lead to, and the positions.
Numbered == [p \in Procs |-> [n \in Fds |-> fdm_get(p, n)]]
Positioned == [f \in DOMAIN desc |-> desc[f].pos]

-----------------------------------------------------------------------------
\* A number below FD_ENTRY_COUNT squared has a slot on each level, and the two
\* slots determine it.
LEMMA NumberSlots ==
  ASSUME NEW n \in Fds
  PROVE  /\ n \div FD_ENTRY_COUNT \in Index /\ n % FD_ENTRY_COUNT \in Index
         /\ n = FD_ENTRY_COUNT * (n \div FD_ENTRY_COUNT) + (n % FD_ENTRY_COUNT)
<1> DEFINE C == FD_ENTRY_COUNT
           q == n \div C
           r == n % C
<1>1. C \in Nat \ {0} /\ n \in Nat /\ n <= C * C - 1
  <2>1. C \in Nat \ {0}
    BY FilesAssumption
  <2>2. C * C \in Nat
    BY <2>1
  <2> QED BY <2>1, <2>2 DEF Fds
<1>2. q \in Nat /\ r \in 0..(C - 1) /\ n = C * q + r
  BY <1>1
<1> HIDE DEF q, r, C
<1>3. q <= C - 1
  <2> SUFFICES ASSUME q >= C PROVE FALSE
    BY <1>1, <1>2
  <2>1. C * q >= C * C
    BY <1>1, <1>2
  <2>2. C * q \in Nat /\ C * C \in Nat
    BY <1>1, <1>2
  <2> QED BY <2>1, <2>2, <1>1, <1>2
<1> QED BY <1>1, <1>2, <1>3 DEF Index, q, r, C

LEMMA SameNumber ==
  ASSUME NEW n \in Fds, NEW m \in Fds,
         n \div FD_ENTRY_COUNT = m \div FD_ENTRY_COUNT, n % FD_ENTRY_COUNT = m % FD_ENTRY_COUNT
  PROVE  n = m
<1>1. n = FD_ENTRY_COUNT * (n \div FD_ENTRY_COUNT) + (n % FD_ENTRY_COUNT)
  BY NumberSlots
<1>2. m = FD_ENTRY_COUNT * (m \div FD_ENTRY_COUNT) + (m % FD_ENTRY_COUNT)
  BY NumberSlots
<1> QED BY <1>1, <1>2

LEMMA ZeroIsFd == 0 \in Fds /\ 0 \div FD_ENTRY_COUNT = 0 /\ 0 % FD_ENTRY_COUNT = 0
<1>1. FD_ENTRY_COUNT \in Nat \ {0}
  BY FilesAssumption
<1>2. FD_ENTRY_COUNT * FD_ENTRY_COUNT >= 1 /\ FD_ENTRY_COUNT * FD_ENTRY_COUNT \in Nat
  BY <1>1
<1> QED BY <1>1, <1>2 DEF Fds

\* fdm_get answers 0 or an open file.
LEMMA GetType == ASSUME TablesOK, Len(desc) \in Nat, NEW p \in Procs, NEW n \in Fds
                 PROVE  fdm_get(p, n) \in 0..Len(desc)
<1>1. n \div FD_ENTRY_COUNT \in Index /\ n % FD_ENTRY_COUNT \in Index
  BY NumberSlots
<1> DEFINE i == n \div FD_ENTRY_COUNT
           j == n % FD_ENTRY_COUNT
<1> HIDE DEF i, j
<1>2. top[p][i] \in 0..tables /\ tables <= MaxTables /\ tables \in Nat /\ MaxTables \in Nat
  BY <1>1, FilesAssumption DEF TablesOK, i
<1>3. top[p][i] # 0 => top[p][i] \in 1..MaxTables
  BY <1>2
<1>4. top[p][i] # 0 => table[top[p][i]][j] \in 0..Len(desc)
  BY <1>1, <1>3 DEF TablesOK, j
<1> QED BY <1>4 DEF fdm_get, i, j

-----------------------------------------------------------------------------
\* fdm_set changes one number of one process, and keeps one owner per table.
LEMMA SetOne ==
  ASSUME TablesOK, NEW p \in Procs, NEW n \in Fds, NEW f \in 0..Len(desc'),
         Len(desc) \in Nat, Len(desc') \in Nat, Len(desc') >= Len(desc), fdm_set(p, n, f)
  PROVE  TablesOK' /\ Numbered' = [Numbered EXCEPT ![p][n] = f]
<1> DEFINE C == FD_ENTRY_COUNT
           i == n \div C
           j == n % C
           t == IF top[p][i] = 0 THEN tables + 1 ELSE top[p][i]
<1>1. i \in Index /\ j \in Index
  BY NumberSlots
<1>2. /\ t <= MaxTables
      /\ tables' = IF top[p][i] = 0 THEN t ELSE tables
      /\ top' = [top EXCEPT ![p][i] = t]
      /\ table' = [table EXCEPT ![t][j] = f]
  BY DEF fdm_set
<1> HIDE DEF i, j
<1>3. /\ tables \in Nat /\ MaxTables \in Nat /\ tables <= MaxTables
      /\ top \in [Procs -> [Index -> 0..tables]]
      /\ table \in [1..MaxTables -> [Index -> 0..Len(desc)]]
      /\ OneOwner /\ FreshZero
  BY FilesAssumption DEF TablesOK
<1>4. top[p][i] \in 0..tables
  BY <1>1, <1>3
<1>5. /\ t \in 1..MaxTables /\ tables' \in tables..MaxTables /\ t <= tables'
      /\ top[p][i] = 0 => t > tables
      /\ top[p][i] # 0 => t = top[p][i]
  BY <1>2, <1>3, <1>4
<1> HIDE DEF t
<1>6. \A q \in Procs, k \in Index : top[q][k] \in 0..tables
  BY <1>3
\* No other slot leads to table t.
<1>7. \A q \in Procs, k \in Index : top[q][k] = t => q = p /\ k = i
  <2> SUFFICES ASSUME NEW q \in Procs, NEW k \in Index, top[q][k] = t PROVE q = p /\ k = i
    OBVIOUS
  <2>1. top[q][k] \in 0..tables
    BY <1>6
  <2>2. top[p][i] # 0
    BY <2>1, <1>5, <1>3
  <2>3. top[p][i] = top[q][k]
    BY <2>2, <1>5
  <2> QED BY <2>2, <2>3, <1>1, <1>3 DEF OneOwner
<1>8. \A q \in Procs, k \in Index : top'[q][k] = IF q = p /\ k = i THEN t ELSE top[q][k]
  BY <1>1, <1>2, <1>3
<1>9. \A u \in 1..MaxTables, k \in Index : table'[u][k] = IF u = t /\ k = j THEN f ELSE table[u][k]
  BY <1>1, <1>2, <1>3, <1>5
<1>10. top' \in [Procs -> [Index -> 0..tables']]
  <2>1. \A q \in Procs, k \in Index : top'[q][k] \in 0..tables'
    BY <1>8, <1>6, <1>5, <1>3
  <2>2. DOMAIN top' = Procs /\ top' = [q \in Procs |-> top'[q]]
    BY <1>2, <1>3
  <2>3. \A q \in Procs : DOMAIN top'[q] = Index /\ top'[q] = [k \in Index |-> top'[q][k]]
    BY <1>2, <1>3
  <2> QED BY <2>1, <2>2, <2>3
<1>11. table' \in [1..MaxTables -> [Index -> 0..Len(desc')]]
  <2>1. \A u \in 1..MaxTables, k \in Index : table'[u][k] \in 0..Len(desc')
    <3>1. \A u \in 1..MaxTables, k \in Index : table[u][k] \in 0..Len(desc)
      BY <1>3
    <3> QED BY <3>1, <1>9
  <2>2. table' = [u \in 1..MaxTables |-> table'[u]]
    BY <1>2, <1>3
  <2>3. \A u \in 1..MaxTables : table'[u] = [k \in Index |-> table'[u][k]]
    BY <1>2, <1>3
  <2> QED BY <2>1, <2>2, <2>3
<1>12. OneOwner'
  <2> SUFFICES ASSUME NEW q1 \in Procs, NEW q2 \in Procs, NEW k1 \in Index, NEW k2 \in Index,
                      top'[q1][k1] # 0, top'[q1][k1] = top'[q2][k2]
               PROVE  q1 = q2 /\ k1 = k2
    BY DEF OneOwner
  <2>1. CASE q1 = p /\ k1 = i
    BY <2>1, <1>7, <1>8
  <2>2. CASE ~(q1 = p /\ k1 = i) /\ q2 = p /\ k2 = i
    BY <2>2, <1>7, <1>8
  <2>3. CASE ~(q1 = p /\ k1 = i) /\ ~(q2 = p /\ k2 = i)
    BY <2>3, <1>8, <1>3 DEF OneOwner
  <2> QED BY <2>1, <2>2, <2>3
<1>13. FreshZero'
  <2> SUFFICES ASSUME NEW u \in 1..MaxTables, u > tables', NEW k \in Index PROVE table'[u][k] = 0
    BY DEF FreshZero
  <2>1. u > tables /\ u # t
    BY <1>5, <1>3
  <2> QED BY <2>1, <1>9, <1>3 DEF FreshZero
<1>14. TablesOK'
  <2>1. tables' \in 0..MaxTables
    BY <1>5, <1>3
  <2> QED BY <2>1, <1>10, <1>11, <1>12, <1>13 DEF TablesOK
<1>15. \A q \in Procs, m \in Fds :
         fdm_get(q, m)' = IF q = p /\ m = n THEN f ELSE fdm_get(q, m)
  <2> SUFFICES ASSUME NEW q \in Procs, NEW m \in Fds
               PROVE  fdm_get(q, m)' = IF q = p /\ m = n THEN f ELSE fdm_get(q, m)
    OBVIOUS
  <2> DEFINE a == m \div C
             b == m % C
  <2>1. a \in Index /\ b \in Index
    BY NumberSlots
  <2>2. a = i /\ b = j <=> m = n
    BY SameNumber DEF i, j
  <2>3. /\ fdm_get(q, m) = IF top[q][a] = 0 THEN 0 ELSE table[top[q][a]][b]
        /\ fdm_get(q, m)' = IF top'[q][a] = 0 THEN 0 ELSE table'[top'[q][a]][b]
    BY DEF fdm_get
  <2> HIDE DEF a, b
  <2>4. CASE q = p /\ a = i
    <3>1. top'[q][a] = t /\ t # 0
      BY <2>1, <2>4, <1>8, <1>5
    <3>2. fdm_get(q, m)' = IF b = j THEN f ELSE table[t][b]
      BY <3>1, <2>3, <2>1, <1>9, <1>5
    <3>3. fdm_get(q, m) = table[t][b]
      <4>1. CASE top[p][i] = 0
        BY <4>1, <2>1, <2>3, <2>4, <1>5, <1>3 DEF FreshZero
      <4>2. CASE top[p][i] # 0
        BY <4>2, <2>3, <2>4, <1>5
      <4> QED BY <4>1, <4>2
    <3> QED BY <3>2, <3>3, <2>2, <2>4
  <2>5. CASE ~(q = p /\ a = i)
    <3>1. top'[q][a] = top[q][a] /\ top[q][a] # t
      BY <2>1, <2>5, <1>8, <1>7
    <3>2. top[q][a] # 0 => top[q][a] \in 1..MaxTables
      BY <2>1, <1>6, <1>3
    <3>3. top[q][a] # 0 => table'[top[q][a]][b] = table[top[q][a]][b]
      BY <3>1, <3>2, <2>1, <1>9
    <3> QED BY <3>1, <3>3, <2>2, <2>3, <2>5
  <2> QED BY <2>4, <2>5
<1>16. Numbered' = [Numbered EXCEPT ![p][n] = f]
  <2>1. \A q \in Procs, m \in Fds : Numbered'[q][m] = [Numbered EXCEPT ![p][n] = f][q][m]
    BY <1>15 DEF Numbered
  <2> QED BY <2>1, <1>15 DEF Numbered
<1> QED BY <1>14, <1>16

-----------------------------------------------------------------------------
\* Slots of a finite table, counted from the left: the rank of a slot is between 1
\* and the number of slots, and no two have the same.
Rank(S, i) == Cardinality({j \in S : j <= i})
LEMMA Ranks ==
  ASSUME NEW S \in SUBSET Index
  PROVE  /\ Cardinality(S) \in Nat
         /\ \A i \in S : Rank(S, i) \in 1..Cardinality(S)
         /\ \A i, k \in S : Rank(S, i) = Rank(S, k) => i = k
<1>1. FD_ENTRY_COUNT \in Nat \ {0}
  BY FilesAssumption
<1>2. IsFiniteSet(S) /\ \A T \in SUBSET S : IsFiniteSet(T) /\ Cardinality(T) \in Nat /\ Cardinality(T) <= Cardinality(S)
  <2>1. IsFiniteSet(Index)
    BY <1>1, FS_Interval DEF Index
  <2>2. IsFiniteSet(S)
    BY <2>1, FS_Subset
  <2> QED BY <2>2, FS_Subset, FS_CardinalityType
<1>3. ASSUME NEW i \in S PROVE Rank(S, i) \in 1..Cardinality(S)
  <2> DEFINE T == {j \in S : j <= i}
  <2>1. T \in SUBSET S /\ i \in T
    BY <1>1 DEF Index
  <2> HIDE DEF T
  <2>2. Cardinality(T) # 0
    BY <2>1, <1>2, FS_EmptySet
  <2>3. Cardinality(T) \in 1..Cardinality(S)
    BY <2>1, <2>2, <1>2
  <2> QED BY <2>3 DEF Rank, T
<1>4. ASSUME NEW i \in S, NEW k \in S, i < k PROVE Rank(S, i) # Rank(S, k)
  <2> DEFINE T == {j \in S : j <= i}
             U == {j \in S : j <= k}
  <2>1. T \in SUBSET U /\ T \in SUBSET S /\ U \in SUBSET S /\ k \in U /\ k \notin T
    <3>1. i \in Int /\ k \in Int /\ \A j \in S : j \in Int
      BY <1>1 DEF Index
    <3>2. \A j \in S : j <= i => j <= k
      BY <3>1, <1>4
    <3>3. k <= k /\ ~(k <= i)
      BY <3>1, <1>4
    <3> QED BY <3>2, <3>3
  <2> HIDE DEF T, U
  <2>2. Cardinality(U) = Cardinality(T) => U = T
    BY <2>1, <1>2, FS_Subset
  <2>3. Cardinality(T) # Cardinality(U)
    BY <2>1, <2>2
  <2> QED BY <2>3 DEF Rank, T, U
<1>5. \A i \in S : i \in Int
  BY <1>1 DEF Index
<1> QED BY <1>2, <1>3, <1>4, <1>5

\* fdm_copy gives the new process the numbers of the old one, in tables of its own.
LEMMA CopyAll ==
  ASSUME TablesOK, NEW p \in Procs, NEW q \in Procs, p # q, Len(desc) \in Nat, UNCHANGED desc,
         fdm_copy(p, q)
  PROVE  TablesOK' /\ Numbered' = [Numbered EXCEPT ![q] = Numbered[p]]
<1> DEFINE S == InUseSlots(p)
           new(i) == tables + Rank(S, i)
<1>1. /\ tables + Cardinality(S) <= MaxTables
      /\ tables' = tables + Cardinality(S)
      /\ top' = [top EXCEPT ![q] = [i \in Index |-> IF i \in S THEN new(i) ELSE 0]]
      /\ table' = [t \in DOMAIN table |->
                     IF \E i \in S : new(i) = t
                     THEN table[top[p][CHOOSE i \in S : new(i) = t]] ELSE table[t]]
  BY DEF fdm_copy, Rank
<1>2. S \in SUBSET Index /\ \A i \in Index : i \in S <=> top[p][i] # 0
  BY DEF InUseSlots
<1> HIDE DEF S
<1>3. /\ Cardinality(S) \in Nat
      /\ \A i \in S : Rank(S, i) \in 1..Cardinality(S)
      /\ \A i, k \in S : Rank(S, i) = Rank(S, k) => i = k
  BY <1>2, Ranks
<1>4. /\ tables \in Nat /\ MaxTables \in Nat /\ tables <= MaxTables
      /\ top \in [Procs -> [Index -> 0..tables]]
      /\ table \in [1..MaxTables -> [Index -> 0..Len(desc)]]
      /\ OneOwner /\ FreshZero
  BY FilesAssumption DEF TablesOK
<1>5. /\ tables' \in tables..MaxTables
      /\ \A i \in S : new(i) \in 1..MaxTables /\ new(i) > tables /\ new(i) <= tables'
      /\ \A i, k \in S : new(i) = new(k) => i = k
  BY <1>1, <1>3, <1>4
<1> HIDE DEF new
<1>6. \A r \in Procs, k \in Index : top[r][k] \in 0..tables
  BY <1>4
<1>7. \A r \in Procs, k \in Index :
        top'[r][k] = IF r = q THEN IF k \in S THEN new(k) ELSE 0 ELSE top[r][k]
  BY <1>1, <1>4
<1>8. \A k \in S : table'[new(k)] = table[top[p][k]]
  <2> SUFFICES ASSUME NEW k \in S PROVE table'[new(k)] = table[top[p][k]]
    OBVIOUS
  <2>1. (CHOOSE i \in S : new(i) = new(k)) = k
    BY <1>5
  <2> QED BY <2>1, <1>1, <1>4, <1>5
<1>9. \A t \in 1..MaxTables : t <= tables \/ t > tables' => table'[t] = table[t]
  <2> SUFFICES ASSUME NEW t \in 1..MaxTables, t <= tables \/ t > tables' PROVE table'[t] = table[t]
    OBVIOUS
  <2>1. ~\E i \in S : new(i) = t
    BY <1>4, <1>5
  <2> QED BY <2>1, <1>1, <1>4
<1>10. \A t \in 1..MaxTables : table'[t] \in [Index -> 0..Len(desc)]
  <2> SUFFICES ASSUME NEW t \in 1..MaxTables PROVE table'[t] \in [Index -> 0..Len(desc)]
    OBVIOUS
  <2>1. CASE \E i \in S : new(i) = t
    <3>1. PICK k \in S : new(k) = t
      BY <2>1
    <3>2. top[p][k] \in 1..MaxTables
      BY <1>2, <1>4, <1>6
    <3> QED BY <3>1, <3>2, <1>8, <1>4
  <2>2. CASE ~\E i \in S : new(i) = t
    BY <2>2, <1>1, <1>4
  <2> QED BY <2>1, <2>2
<1>11. top' \in [Procs -> [Index -> 0..tables']]
  <2>1. \A r \in Procs, k \in Index : top'[r][k] \in 0..tables'
    <3> SUFFICES ASSUME NEW r \in Procs, NEW k \in Index PROVE top'[r][k] \in 0..tables'
      OBVIOUS
    <3>1. top[r][k] \in 0..tables' /\ 0 \in 0..tables'
      <4>1. top[r][k] \in 0..tables
        BY <1>6
      <4> QED BY <4>1, <1>4, <1>5
    <3>2. k \in S => new(k) \in 0..tables'
      BY <1>4, <1>5
    <3> QED BY <3>1, <3>2, <1>7
  <2>2. top' = [r \in Procs |-> top'[r]]
    BY <1>1, <1>4
  <2>3. \A r \in Procs : top'[r] = [k \in Index |-> top'[r][k]]
    BY <1>1, <1>4
  <2> QED BY <2>1, <2>2, <2>3
<1>12. OneOwner'
  <2> SUFFICES ASSUME NEW r1 \in Procs, NEW r2 \in Procs, NEW k1 \in Index, NEW k2 \in Index,
                      top'[r1][k1] # 0, top'[r1][k1] = top'[r2][k2]
               PROVE  r1 = r2 /\ k1 = k2
    BY DEF OneOwner
  <2>1. top[r1][k1] \in 0..tables /\ top[r2][k2] \in 0..tables
    BY <1>6
  <2>2. CASE r1 = q /\ r2 = q
    <3>1. k1 \in S /\ top'[r1][k1] = new(k1) /\ k2 \in S /\ top'[r2][k2] = new(k2)
      BY <2>2, <1>7
    <3> QED BY <2>2, <3>1, <1>5
  <2>3. CASE r1 = q /\ r2 # q
    <3>1. k1 \in S /\ top'[r1][k1] = new(k1) /\ top'[r2][k2] = top[r2][k2]
      BY <2>3, <1>7
    <3>2. top[r2][k2] = new(k1) /\ new(k1) > tables /\ new(k1) \in 1..MaxTables
      BY <3>1, <1>5
    <3> QED BY <2>1, <3>2, <1>4
  <2>4. CASE r1 # q /\ r2 = q
    <3>1. k2 \in S /\ top'[r2][k2] = new(k2) /\ top'[r1][k1] = top[r1][k1]
      BY <2>4, <1>7
    <3>2. top[r1][k1] = new(k2) /\ new(k2) > tables /\ new(k2) \in 1..MaxTables
      BY <3>1, <1>5
    <3> QED BY <2>1, <3>2, <1>4
  <2>5. CASE r1 # q /\ r2 # q
    BY <2>5, <1>4, <1>7 DEF OneOwner
  <2> QED BY <2>2, <2>3, <2>4, <2>5
<1>13. FreshZero'
  <2> SUFFICES ASSUME NEW t \in 1..MaxTables, t > tables', NEW k \in Index PROVE table'[t][k] = 0
    BY DEF FreshZero
  <2>1. t > tables
    BY <1>4, <1>5
  <2> QED BY <2>1, <1>9, <1>4 DEF FreshZero
<1>14. TablesOK'
  <2>1. tables' \in 0..MaxTables
    BY <1>4, <1>5
  <2>2. table' \in [1..MaxTables -> [Index -> 0..Len(desc')]]
    BY <1>1, <1>4, <1>10
  <2> QED BY <2>1, <2>2, <1>11, <1>12, <1>13 DEF TablesOK
<1>15. \A r \in Procs, m \in Fds : fdm_get(r, m)' = fdm_get(IF r = q THEN p ELSE r, m)
  <2> SUFFICES ASSUME NEW r \in Procs, NEW m \in Fds
               PROVE  fdm_get(r, m)' = fdm_get(IF r = q THEN p ELSE r, m)
    OBVIOUS
  <2> DEFINE a == m \div FD_ENTRY_COUNT
             b == m % FD_ENTRY_COUNT
  <2>1. a \in Index /\ b \in Index
    BY NumberSlots
  <2>2. /\ \A s \in Procs : fdm_get(s, m) = IF top[s][a] = 0 THEN 0 ELSE table[top[s][a]][b]
        /\ fdm_get(r, m)' = IF top'[r][a] = 0 THEN 0 ELSE table'[top'[r][a]][b]
    BY DEF fdm_get
  <2> HIDE DEF a, b
  <2>3. CASE r = q
    <3>1. CASE a \in S
      BY <3>1, <2>1, <2>2, <2>3, <1>2, <1>5, <1>7, <1>8
    <3>2. CASE a \notin S
      BY <3>2, <2>1, <2>2, <2>3, <1>2, <1>7
    <3> QED BY <3>1, <3>2
  <2>4. CASE r # q
    <3>1. top'[r][a] = top[r][a] /\ top[r][a] \in 0..tables
      BY <2>1, <2>4, <1>6, <1>7
    <3>2. top[r][a] # 0 => table'[top[r][a]] = table[top[r][a]]
      <4>1. top[r][a] # 0 => top[r][a] \in 1..MaxTables /\ top[r][a] <= tables
        BY <3>1, <1>4
      <4> QED BY <4>1, <1>9
    <3> QED BY <3>1, <3>2, <2>2, <2>4
  <2> QED BY <2>3, <2>4
<1>16. Numbered' = [Numbered EXCEPT ![q] = Numbered[p]]
  <2>1. \A r \in Procs : [m \in Fds |-> fdm_get(r, m)]' = IF r = q THEN Numbered[p] ELSE Numbered[r]
    BY <1>15 DEF Numbered
  <2> QED BY <2>1 DEF Numbered
<1> QED BY <1>14, <1>16

-----------------------------------------------------------------------------
\* The positions of the open files are a sequence as long as theirs.
LEMMA PositionedLen ==
  ASSUME DescOK
  PROVE  Positioned \in Seq({desc[f].pos : f \in DOMAIN desc}) /\ Len(Positioned) = Len(desc)
<1>1. Len(desc) \in Nat /\ DOMAIN desc = 1..Len(desc)
  BY DEF DescOK
<1>2. Positioned \in [1..Len(desc) -> {desc[f].pos : f \in DOMAIN desc}]
  BY <1>1 DEF Positioned
<1> HIDE DEF Positioned
<1> QED BY <1>1, <1>2, IsASeq, LenProperties

\* One more open file behind the others.
LEMMA OpenedLast ==
  ASSUME DescOK, NEW n, NEW pos, desc' = Append(desc, NewFile(n, pos))
  PROVE  /\ DescOK' /\ Len(desc') = Len(desc) + 1
         /\ Len(Positioned') = Len(Positioned) + 1
         /\ SubSeq(Positioned', 1, Len(Positioned)) = Positioned
<1> DEFINE e == NewFile(n, pos)
<1>0. FileRecord(e)
  BY DEF FileRecord, NewFile
<1> HIDE DEF e
<1>1. Len(desc) \in Nat /\ DOMAIN desc = 1..Len(desc) /\ desc \in Seq(Range(desc))
  BY DEF DescOK
<1>2. desc' \in Seq(Range(desc) \cup {e}) /\ desc \in Seq(Range(desc) \cup {e})
  <2>1. desc \in Seq(Range(desc) \cup {e})
    BY <1>1, SeqMonotonic
  <2> QED BY <2>1, AppendProperties DEF e
<1>3. /\ Len(desc') = Len(desc) + 1 /\ DOMAIN desc' = 1..(Len(desc) + 1)
      /\ \A f \in 1..Len(desc) : desc'[f] = desc[f]
      /\ desc'[Len(desc) + 1] = e
  BY <1>2, AppendProperties, LenProperties DEF e
<1>4. DescOK'
  <2>1. \A f \in 1..(Len(desc) + 1) : FileRecord(desc'[f])
    BY <1>0, <1>1, <1>3 DEF DescOK
  <2>2. desc' \in Seq(Range(desc'))
    BY <1>2, SeqOfRange
  <2> QED BY <2>1, <2>2, <1>1, <1>3 DEF DescOK, FileRecord
<1>5. Positioned' \in [1..(Len(desc) + 1) -> {desc'[f].pos : f \in DOMAIN desc'}]
  BY <1>3 DEF Positioned
<1>6. \A f \in 1..Len(desc) : Positioned'[f] = Positioned[f]
  BY <1>1, <1>3 DEF Positioned
<1>7. Len(Positioned) = Len(desc) /\ Positioned \in Seq({desc[f].pos : f \in DOMAIN desc})
  BY PositionedLen
<1>8. Len(Positioned') = Len(desc) + 1 /\ Positioned' \in Seq({desc'[f].pos : f \in DOMAIN desc'})
  <2> HIDE DEF Positioned
  <2> QED BY <1>1, <1>5, IsASeq, LenProperties
<1>9. SubSeq(Positioned', 1, Len(desc)) = Positioned
  <2> DEFINE P == Positioned
             Q == Positioned'
             V == {desc'[f].pos : f \in DOMAIN desc'}
             W == {desc[f].pos : f \in DOMAIN desc}
  <2>1. Q \in Seq(V) /\ Len(Q) = Len(desc) + 1 /\ P \in Seq(W) /\ Len(P) = Len(desc)
    BY <1>7, <1>8
  <2>2. \A f \in 1..Len(desc) : Q[f] = P[f]
    BY <1>6
  <2> HIDE DEF P, Q, V, W
  <2>3. /\ SubSeq(Q, 1, Len(desc)) \in Seq(V) /\ Len(SubSeq(Q, 1, Len(desc))) = Len(desc)
        /\ \A f \in 1..Len(desc) : SubSeq(Q, 1, Len(desc))[f] = Q[f]
    BY <2>1, <1>1, SubSeqProperties
  <2>4. SubSeq(Q, 1, Len(desc)) = P
    BY <2>1, <2>2, <2>3, SeqEqual
  <2> QED BY <2>4 DEF P, Q
<1> QED BY <1>3, <1>4, <1>7, <1>8, <1>9

\* One position changed.
LEMMA MovedOne ==
  ASSUME DescOK, NEW f, NEW to, desc' = [desc EXCEPT ![f].pos = to]
  PROVE  /\ DescOK' /\ Len(desc') = Len(desc)
         /\ Positioned' = [Positioned EXCEPT ![f] = Positioned'[f]]
<1>1. Len(desc) \in Nat /\ DOMAIN desc = 1..Len(desc) /\ desc \in Seq(Range(desc))
  BY DEF DescOK
<1>2. \A g \in DOMAIN desc : FileRecord(desc[g])
  BY DEF DescOK
<1>3. DOMAIN desc' = DOMAIN desc /\ \A g \in DOMAIN desc : g # f => desc'[g] = desc[g]
  BY <1>1
<1>4. f \in DOMAIN desc => desc'[f] = [desc[f] EXCEPT !.pos = to]
  BY <1>1
<1>5. f \in DOMAIN desc => FileRecord(desc'[f])
  BY <1>2, <1>4 DEF FileRecord
<1>6. desc' \in [1..Len(desc) -> {desc'[g] : g \in DOMAIN desc}]
  BY <1>1, <1>3
<1>7. desc' \in Seq({desc'[g] : g \in DOMAIN desc}) /\ Len(desc') = Len(desc)
  <2> DEFINE V == {desc'[g] : g \in DOMAIN desc}
             e == desc'
             n == Len(desc)
  <2>1. n \in Nat /\ e \in [1..n -> V]
    BY <1>1, <1>6
  <2> HIDE DEF V, e, n
  <2>2. e \in Seq(V)
    BY <2>1, IsASeq
  <2>3. Len(e) = n
    BY <2>1, <2>2, LenProperties
  <2> QED BY <2>2, <2>3 DEF V, e, n
<1>8. DescOK'
  <2>1. \A g \in 1..Len(desc) : FileRecord(desc'[g])
    BY <1>1, <1>2, <1>3, <1>5
  <2>2. desc' \in Seq(Range(desc'))
    BY <1>7, SeqOfRange
  <2> QED BY <2>1, <2>2, <1>1, <1>3, <1>7 DEF DescOK, FileRecord
<1>9. Positioned' = [Positioned EXCEPT ![f] = Positioned'[f]]
  <2> DEFINE P == Positioned
             Q == Positioned'
             D == DOMAIN desc
  <2>1. P = [g \in D |-> desc[g].pos] /\ Q = [g \in D |-> desc'[g].pos]
    BY <1>3 DEF Positioned
  <2>2. \A g \in D : g # f => Q[g] = P[g]
    BY <2>1, <1>3
  <2>3. DOMAIN P = D /\ DOMAIN Q = D /\ P = [g \in D |-> P[g]] /\ Q = [g \in D |-> Q[g]]
    BY <2>1
  <2> HIDE DEF P, Q, D
  <2>4. Q = [P EXCEPT ![f] = Q[f]]
    BY <2>2, <2>3
  <2> QED BY <2>4 DEF P, Q
<1> QED BY <1>7, <1>8, <1>9

-----------------------------------------------------------------------------
\* One lemma per kind of call: the invariant is kept, and the abstract state
\* changes as FdMap says or not at all.
AbsOpen(p) == /\ Len(Positioned') = Len(Positioned) + 1
              /\ SubSeq(Positioned', 1, Len(Positioned)) = Positioned
              /\ Numbered' = [Numbered EXCEPT ![p][0] = Len(Positioned')]
AbsClose(p, n) == Numbered' = [Numbered EXCEPT ![p][n] = 0] /\ Positioned' = Positioned
AbsDup2(p, old, new) == Numbered' = [Numbered EXCEPT ![p][new] = Numbered[p][old]] /\ Positioned' = Positioned
AbsFork(p, q) == Numbered' = [Numbered EXCEPT ![q] = Numbered[p]] /\ Positioned' = Positioned
AbsMove(p, n) == /\ Numbered[p][n] # 0 /\ Numbered' = Numbered
                 /\ Positioned' = [Positioned EXCEPT ![Numbered[p][n]] = Positioned'[Numbered[p][n]]]

\* Calls that leave tables and open files alone.
LEMMA Alone ==
  ASSUME FdInv, UNCHANGED <<top, table, tables, desc, live>>
  PROVE  FdInv' /\ Numbered' = Numbered /\ Positioned' = Positioned
<1>1. Numbered' = Numbered /\ Positioned' = Positioned
  BY DEF Numbered, Positioned, fdm_get
<1>2. TablesOK' /\ DescOK'
  BY DEF FdInv, TablesOK, OneOwner, FreshZero, DescOK
<1> QED BY <1>1, <1>2 DEF FdInv

LEMMA OpenStep ==
  ASSUME FdInv, NEW p \in Procs, NEW path, sys_open(p, path)
  PROVE  FdInv' /\ (AbsOpen(p) \/ (Numbered' = Numbered /\ Positioned' = Positioned))
<1>1. CASE UNCHANGED <<top, table, tables, desc>>
  BY <1>1, Alone DEF sys_open
<1>2. ASSUME NEW n, fdm_open_file(n), fdm_set(p, 0, Len(desc) + 1), UNCHANGED live
      PROVE  FdInv' /\ AbsOpen(p)
  <2>1. PICK pos : desc' = Append(desc, NewFile(n, pos))
    BY <1>2 DEF fdm_open_file
  <2>2. /\ DescOK' /\ Len(desc') = Len(desc) + 1
        /\ Len(Positioned') = Len(Positioned) + 1
        /\ SubSeq(Positioned', 1, Len(Positioned)) = Positioned
    BY <2>1, OpenedLast DEF FdInv
  <2>3. Len(desc) \in Nat /\ TablesOK /\ 0 \in Fds /\ Len(Positioned) = Len(desc)
    BY ZeroIsFd, PositionedLen DEF FdInv, DescOK
  <2>4. Len(desc') \in Nat /\ Len(desc') >= Len(desc) /\ Len(desc) + 1 \in 0..Len(desc')
    BY <2>2, <2>3
  <2>5. TablesOK' /\ Numbered' = [Numbered EXCEPT ![p][0] = Len(desc) + 1]
    BY <2>3, <2>4, <1>2, SetOne
  <2> QED BY <2>2, <2>3, <2>5, <1>2 DEF FdInv, AbsOpen
<1> QED BY <1>1, <1>2 DEF sys_open

LEMMA SetStep ==
  ASSUME FdInv, NEW p \in Procs, NEW n \in Fds, NEW f \in 0..Len(desc), fdm_set(p, n, f),
         UNCHANGED <<desc, live>>
  PROVE  FdInv' /\ Numbered' = [Numbered EXCEPT ![p][n] = f] /\ Positioned' = Positioned
<1>1. Len(desc) \in Nat /\ TablesOK /\ Len(desc') = Len(desc) /\ f \in 0..Len(desc')
  BY DEF FdInv, DescOK
<1>2. Len(desc') >= Len(desc) /\ Len(desc') \in Nat
  BY <1>1
<1>3. TablesOK' /\ Numbered' = [Numbered EXCEPT ![p][n] = f]
  BY <1>1, <1>2, SetOne
<1>4. DescOK' /\ Positioned' = Positioned
  BY DEF FdInv, DescOK, Positioned
<1> QED BY <1>3, <1>4 DEF FdInv

LEMMA CloseStep ==
  ASSUME FdInv, NEW p \in Procs, NEW n \in Fds, sys_close(p, n)
  PROVE  FdInv' /\ AbsClose(p, n)
<1>1. 0 \in 0..Len(desc)
  BY DEF FdInv, DescOK
<1> QED BY <1>1, SetStep DEF sys_close, AbsClose

LEMMA DupStep ==
  ASSUME FdInv, NEW p \in Procs, NEW n \in Fds, NEW m \in Fds, sys_dup2(p, n, m)
  PROVE  FdInv' /\ AbsDup2(p, n, m)
<1>1. fdm_get(p, n) \in 0..Len(desc) /\ fdm_get(p, n) = Numbered[p][n]
  BY GetType DEF FdInv, DescOK, Numbered
<1>2. FdInv' /\ Numbered' = [Numbered EXCEPT ![p][m] = fdm_get(p, n)] /\ Positioned' = Positioned
  BY <1>1, SetStep DEF sys_dup2
<1> QED BY <1>1, <1>2 DEF AbsDup2

LEMMA ForkStep ==
  ASSUME FdInv, NEW p \in live, NEW q \in Procs, process_fork(p, q)
  PROVE  FdInv' /\ AbsFork(p, q)
<1>1. p \in Procs /\ p # q /\ fdm_copy(p, q) /\ UNCHANGED desc /\ live' = live \cup {q}
  BY DEF process_fork, FdInv
<1>2. TablesOK' /\ Numbered' = [Numbered EXCEPT ![q] = Numbered[p]]
  BY <1>1, CopyAll DEF FdInv, DescOK
<1>3. DescOK' /\ Positioned' = Positioned
  BY <1>1 DEF FdInv, DescOK, Positioned
<1> QED BY <1>1, <1>2, <1>3 DEF FdInv, AbsFork

LEMMA MoveStep ==
  ASSUME FdInv, NEW p \in Procs, NEW n \in Fds, NEW r, IsFile(p, n), Took(p, n, r)
  PROVE  FdInv' /\ AbsMove(p, n)
<1> DEFINE f == fdm_get(p, n)
<1>1. f # 0 /\ f = Numbered[p][n]
  BY DEF IsFile, Numbered
<1>2. desc' = [desc EXCEPT ![f].pos = r.file.pos] /\ UNCHANGED <<top, table, tables, live>>
  BY DEF Took
<1> HIDE DEF f
<1>3. DescOK' /\ Len(desc') = Len(desc) /\ Positioned' = [Positioned EXCEPT ![f] = Positioned'[f]]
  BY <1>2, MovedOne DEF FdInv
<1>4. Numbered' = Numbered
  BY <1>2 DEF Numbered, fdm_get
<1>5. TablesOK'
  BY <1>2, <1>3 DEF FdInv, TablesOK, OneOwner, FreshZero
<1> QED BY <1>1, <1>2, <1>3, <1>4, <1>5 DEF FdInv, AbsMove

\* What a step of the model is in the abstract state.
AbsNext == \E p \in Procs : \/ AbsOpen(p) \/ \E q \in Procs : AbsFork(p, q)
                            \/ \E n \in Fds : \/ AbsClose(p, n) \/ AbsMove(p, n)
                                              \/ \E m \in Fds : AbsDup2(p, n, m)
LEMMA FilesStep ==
  ASSUME FdInv, [FNext]_fvars
  PROVE  FdInv' /\ (AbsNext \/ (Numbered' = Numbered /\ Positioned' = Positioned))
<1>1. CASE UNCHANGED fvars
  BY <1>1, Alone DEF fvars
<1>2. CASE FNext
  <2>1. PICK p \in live : Call(p)
    BY <1>2 DEF FNext
  <2>2. p \in Procs
    BY DEF FdInv
  <2>3. UsedFds \subseteq Fds
    BY FilesAssumption DEF Fds
  <2> DEFINE Goal == FdInv' /\ (AbsNext \/ (Numbered' = Numbered /\ Positioned' = Positioned))
  <2>4. ASSUME NEW path, sys_open(p, path) PROVE Goal
    BY <2>2, <2>4, OpenStep DEF AbsNext
  <2>5. ASSUME NEW path, sys_chdir(p, path) PROVE Goal
    BY <2>5, Alone DEF sys_chdir
  <2>6. ASSUME NEW name, sys_execve(p, name) PROVE Goal
    BY <2>6, Alone DEF sys_execve
  <2>7. ASSUME NEW q \in Procs, process_fork(p, q) PROVE Goal
    BY <2>2, <2>7, ForkStep DEF AbsNext
  <2>8. ASSUME NEW n \in UsedFds, sys_close(p, n) PROVE Goal
    BY <2>2, <2>3, <2>8, CloseStep DEF AbsNext
  <2>9. ASSUME NEW n \in UsedFds, NEW m \in UsedFds, sys_dup2(p, n, m) PROVE Goal
    BY <2>2, <2>3, <2>9, DupStep DEF AbsNext
  <2>10. ASSUME NEW n \in UsedFds, NEW r, IsFile(p, n), Took(p, n, r) PROVE Goal
    BY <2>2, <2>3, <2>10, MoveStep DEF AbsNext
  <2>11. ASSUME NEW n \in UsedFds, NEW c, sys_write(p, n, c) \/ sys_input(p, n, c) \/ sys_seek(p, n, 0, "SEEK_SET")
         PROVE  Goal
    BY <2>10, <2>11 DEF sys_write, sys_input, sys_seek
  <2> HIDE DEF Goal
  <2>12. Goal
    BY <2>1, <2>4, <2>5, <2>6, <2>7, <2>8, <2>9, <2>11 DEF Call
  <2> QED BY <2>12 DEF Goal
<1> QED BY <1>1, <1>2

LEMMA FilesInit == ASSUME FInit PROVE FdInv /\ Fd!Init
<1>1. TablesOK
  <2>1. MaxTables \in Nat /\ Len(desc) = 0
    BY FilesAssumption DEF FInit
  <2> QED BY <2>1 DEF FInit, TablesOK, OneOwner, FreshZero
<1>2. DescOK
  BY DEF FInit, DescOK, Range
<1>3. Numbered = [p \in Procs |-> [n \in Fds |-> 0]]
  <2>1. \A p \in Procs, n \in Fds : fdm_get(p, n) = 0
    BY NumberSlots DEF FInit, fdm_get
  <2> QED BY <2>1 DEF Numbered
<1>4. Positioned = <<>>
  BY DEF FInit, Positioned
<1>5. Fd!Init
  BY <1>3, <1>4 DEF Fd!Init, Numbered, Positioned
<1> QED BY <1>1, <1>2, <1>5, FilesAssumption DEF FdInv, FInit

\* The steps of FdMap, under the refinement mapping.
LEMMA AbsIsFd == ASSUME AbsNext PROVE Fd!Next
<1>1. PICK p \in Procs : \/ AbsOpen(p) \/ \E q \in Procs : AbsFork(p, q)
                         \/ \E n \in Fds : \/ AbsClose(p, n) \/ AbsMove(p, n)
                                           \/ \E m \in Fds : AbsDup2(p, n, m)
  BY DEF AbsNext
<1>2. CASE AbsOpen(p)
  <2>1. Fd!Open(p)
    BY <1>2 DEF AbsOpen, Fd!Open, Numbered, Positioned
  <2> QED BY <2>1 DEF Fd!Next
<1>3. ASSUME NEW q \in Procs, AbsFork(p, q) PROVE Fd!Next
  <2>1. Fd!Fork(p, q)
    BY <1>3 DEF AbsFork, Fd!Fork, Numbered, Positioned
  <2> QED BY <2>1 DEF Fd!Next
<1>4. ASSUME NEW n \in Fds, AbsClose(p, n) PROVE Fd!Next
  <2>1. Fd!Close(p, n)
    BY <1>4 DEF AbsClose, Fd!Close, Numbered, Positioned
  <2> QED BY <2>1 DEF Fd!Next
<1>5. ASSUME NEW n \in Fds, AbsMove(p, n) PROVE Fd!Next
  <2>1. Fd!Move(p, n)
    BY <1>5 DEF AbsMove, Fd!Move, Numbered, Positioned
  <2> QED BY <2>1 DEF Fd!Next
<1>6. ASSUME NEW n \in Fds, NEW m \in Fds, AbsDup2(p, n, m) PROVE Fd!Next
  <2>1. Fd!Dup2(p, n, m)
    BY <1>6 DEF AbsDup2, Fd!Dup2, Numbered, Positioned
  <2> QED BY <2>1 DEF Fd!Next
<1> QED BY <1>1, <1>2, <1>3, <1>4, <1>5, <1>6

\* Descriptor tables of two levels implement one map per process (ImplementsFds):
\* whatever a process opens, closes, duplicates or forks, in any order, no other
\* process's numbers change, and positions move only through numbers that lead to
\* them. For any number of processes, any table size and any volume.
THEOREM FilesImplementFds == FSpec => ImplementsFds
<1>1. FInit => FdInv /\ Fd!Init
  BY FilesInit
<1>2. FdInv /\ [FNext]_fvars => FdInv'
  BY FilesStep
<1>3. FdInv /\ [FNext]_fvars => [Fd!Next]_<<[p \in Procs |-> [n \in Fds |-> fdm_get(p, n)]],
                                            [f \in DOMAIN desc |-> desc[f].pos]>>
  <2> SUFFICES ASSUME FdInv, [FNext]_fvars, ~Fd!Next
               PROVE  Numbered' = Numbered /\ Positioned' = Positioned
    BY DEF Numbered, Positioned
  <2> QED BY FilesStep, AbsIsFd
<1> QED BY <1>1, <1>2, <1>3, PTL DEF FSpec, ImplementsFds, Fd!Spec

\* No number of any process ever leads nowhere: what fdm_get answers is 0 or an
\* open file, so read, write and seek never follow a stale table entry.
NoDangling == \A p \in Procs : \A n \in Fds : fdm_get(p, n) \in {0} \cup DOMAIN desc
THEOREM FilesNoDangling == FSpec => []NoDangling
<1>1. FdInv => NoDangling
  <2> SUFFICES ASSUME FdInv, NEW p \in Procs, NEW n \in Fds PROVE fdm_get(p, n) \in {0} \cup DOMAIN desc
    BY DEF NoDangling
  <2>1. fdm_get(p, n) \in 0..Len(desc) /\ Len(desc) \in Nat /\ DOMAIN desc = 1..Len(desc)
    BY GetType DEF FdInv, DescOK
  <2> QED BY <2>1
<1>2. FInit => FdInv
  BY FilesInit
<1>3. FdInv /\ [FNext]_fvars => FdInv'
  BY FilesStep
<1> QED BY <1>1, <1>2, <1>3, PTL DEF FSpec

-----------------------------------------------------------------------------
(* The entries in memory *)

\* What vfs_populate_directory finds in a directory of the volume at boot.
Kids(n) == Children(Disk, n)

\* Every entry has a path and, if it is on the disk, an inode number of its own;
\* it was found in a directory that is in memory too, and so is the entry above.
GoodTree(t) ==
  /\ \A n \in t : n = Node(n.path, n.type, n.ino) /\ IsSeq(n.path)
  /\ \A n, m \in t : n.path = m.path => n = m
  /\ \A n, m \in t : n.ino = m.ino /\ n.ino # -1 => n = m
  /\ \A n \in t : IF n.ino = -1 THEN n.type # "file" /\ (n.type = "dir" => n.path = <<Dev>>)
                  ELSE n.ino \in Disk.inodes_used /\ n.type = ReadInode(Disk, n.ino).mode
  /\ \A n \in t : n.ino \notin {-1, ROOT_INODE} => \E m \in t : m.ino \in DiskDirs /\ n \in Kids(m)
  /\ \A n \in t : n.path = <<>> \/ Front(n.path) \in PathsOf(t)
  /\ Node(<<>>, "dir", ROOT_INODE) \in t

LEMMA NodeIs ==
  ASSUME NEW path, NEW type, NEW ino
  PROVE  LET n == Node(path, type, ino)
         IN  n.path = path /\ n.type = type /\ n.ino = ino /\ n = Node(n.path, n.type, n.ino)
BY DEF Node

LEMMA NodeAtIs ==
  ASSUME NEW t, \A n, m \in t : n.path = m.path => n = m, NEW n \in t
  PROVE  NodeAt(t, n.path) = n
BY DEF NodeAt

LEMMA NodeAtIn ==
  ASSUME NEW t, NEW path \in PathsOf(t)
  PROVE  NodeAt(t, path) \in t /\ NodeAt(t, path).path = path
BY DEF NodeAt, PathsOf

\* The last name of a path can be taken off again.
LEMMA AppendFront ==
  ASSUME NEW q, IsSeq(q), NEW e
  PROVE  /\ IsSeq(Append(q, e)) /\ Append(q, e) # <<>> /\ Front(Append(q, e)) = q
         /\ Len(Append(q, e)) = Len(q) + 1 /\ Append(q, e)[Len(q) + 1] = e
<1> DEFINE S == Range(q) \cup {e}
           r == Append(q, e)
<1>1. q \in Seq(S) /\ e \in S /\ Len(q) \in Nat
  BY SeqMonotonic, LenProperties DEF IsSeq
<1> HIDE DEF S
<1>2. r \in Seq(S) /\ r # <<>> /\ Len(r) = Len(q) + 1 /\ \A i \in 1..Len(q) : r[i] = q[i]
  BY <1>1, AppendProperties
<1>3. r[Len(q) + 1] = e
  BY <1>1, AppendProperties
<1> HIDE DEF r
<1>4. /\ SubSeq(r, 1, Len(q)) \in Seq(S) /\ Len(SubSeq(r, 1, Len(q))) = Len(q)
      /\ \A i \in 1..Len(q) : SubSeq(r, 1, Len(q))[i] = r[i]
  BY <1>1, <1>2, SubSeqProperties
<1>5. SubSeq(r, 1, Len(q)) = q
  BY <1>1, <1>2, <1>4, SeqEqual
<1>6. Front(r) = q
  BY <1>1, <1>2, <1>5 DEF Front
<1>7. IsSeq(r)
  BY <1>2, SeqIn
<1> QED BY <1>2, <1>3, <1>6, <1>7 DEF r

\* What is in a directory on the disk, and who else can say so.
LEMMA KidIs ==
  ASSUME NEW n, n.ino \in DiskDirs, IsSeq(n.path), NEW c \in Kids(n)
  PROVE  /\ c = Node(c.path, c.type, c.ino) /\ IsSeq(c.path) /\ c.path # <<>> /\ Front(c.path) = n.path
         /\ c.ino \in Disk.inodes_used /\ c.ino \notin {-1, ROOT_INODE} /\ c.type = ReadInode(Disk, c.ino).mode
         /\ \E e \in Named(Disk, n.ino) : c = Node(Append(n.path, NameRead(e)), e.type, e.inode)
<1>1. PICK e \in Named(Disk, n.ino) : c = Node(Append(n.path, NameRead(e)), e.type, e.inode)
  BY DEF Kids, Children
<1>2. c.path = Append(n.path, NameRead(e)) /\ c.type = e.type /\ c.ino = e.inode /\ c = Node(c.path, c.type, c.ino)
  BY <1>1 DEF Node
<1>3. e.inode \in Disk.inodes_used \ {ROOT_INODE} /\ e.type = ReadInode(Disk, e.inode).mode
  <2>1. \A i \in DiskDirs : \A f \in Named(Disk, i) :
          f.inode \in Disk.inodes_used \ {ROOT_INODE} /\ f.type = ReadInode(Disk, f.inode).mode
    BY DiskAssumption
  <2> QED BY <2>1
<1>4. -1 \notin Disk.inodes_used
  <2>1. Disk.inodes_used \subseteq Inode
    BY DiskAssumption
  <2>2. -1 \notin Inode
    BY DEF Inode
  <2> QED BY <2>1, <2>2
<1>5. IsSeq(c.path) /\ c.path # <<>> /\ Front(c.path) = n.path
  BY <1>2, AppendFront
<1> QED BY <1>1, <1>2, <1>3, <1>4, <1>5

LEMMA KidsApart ==
  ASSUME NEW n, n.ino \in DiskDirs, IsSeq(n.path), NEW m, m.ino \in DiskDirs, IsSeq(m.path),
         NEW b \in Kids(n), NEW c \in Kids(m)
  PROVE  /\ b.ino = c.ino => n.ino = m.ino /\ (n = m => b = c)
         /\ n = m /\ b.path = c.path => b = c
<1>1. PICK e \in Named(Disk, n.ino) : b = Node(Append(n.path, NameRead(e)), e.type, e.inode)
  BY KidIs
<1>2. PICK f \in Named(Disk, m.ino) : c = Node(Append(m.path, NameRead(f)), f.type, f.inode)
  BY KidIs
<1>3. /\ b.path = Append(n.path, NameRead(e)) /\ b.ino = e.inode
      /\ c.path = Append(m.path, NameRead(f)) /\ c.ino = f.inode
  BY <1>1, <1>2 DEF Node
<1>4. e.inode = f.inode \/ (n.ino = m.ino /\ NameRead(e) = NameRead(f)) => n.ino = m.ino /\ e = f
  <2>1. \A i, j \in DiskDirs : \A x \in Named(Disk, i), y \in Named(Disk, j) :
          x.inode = y.inode \/ (i = j /\ NameRead(x) = NameRead(y)) => i = j /\ x = y
    BY DiskAssumption
  <2> QED BY <2>1
<1>5. n = m /\ b.path = c.path => NameRead(e) = NameRead(f)
  <2> DEFINE g == NameRead(e)
             h == NameRead(f)
  <2>1. \A q, x : IsSeq(q) => Append(q, x)[Len(q) + 1] = x
    BY AppendFront
  <2> HIDE DEF g, h
  <2>2. n = m /\ Append(n.path, g) = Append(m.path, h) => g = h
    BY <2>1
  <2> QED BY <1>3, <2>2 DEF g, h
<1> QED BY <1>1, <1>2, <1>3, <1>4, <1>5

\* Entries of directories that are in memory: they join it, unless their path has.
FromOne(t, c) == \E n \in t : n.ino \in DiskDirs /\ c \in Kids(n)
LEMMA Populated ==
  ASSUME NEW t, GoodTree(t), NEW new, \A c \in new : c.path \notin PathsOf(t) /\ FromOne(t, c)
  PROVE  GoodTree(t \cup new)
<1> DEFINE u == t \cup new
<1>1. /\ \A a \in t : a = Node(a.path, a.type, a.ino) /\ IsSeq(a.path)
      /\ \A a, b \in t : a.path = b.path => a = b
      /\ \A a, b \in t : a.ino = b.ino /\ a.ino # -1 => a = b
      /\ \A a \in t : IF a.ino = -1 THEN a.type # "file" /\ (a.type = "dir" => a.path = <<Dev>>)
                       ELSE a.ino \in Disk.inodes_used /\ a.type = ReadInode(Disk, a.ino).mode
      /\ \A a \in t : a.ino \notin {-1, ROOT_INODE} => \E m \in t : m.ino \in DiskDirs /\ a \in Kids(m)
      /\ \A a \in t : a.path = <<>> \/ Front(a.path) \in PathsOf(t)
      /\ Node(<<>>, "dir", ROOT_INODE) \in t
  BY DEF GoodTree
<1>2. PathsOf(t) \subseteq PathsOf(u) /\ \A n \in t : IsSeq(n.path) /\ n.path \in PathsOf(t)
  BY <1>1 DEF PathsOf
<1>3. ASSUME NEW c \in new
      PROVE  /\ c.path \notin PathsOf(t) /\ c = Node(c.path, c.type, c.ino) /\ IsSeq(c.path) /\ c.path # <<>>
             /\ c.ino \in Disk.inodes_used /\ c.ino \notin {-1, ROOT_INODE}
             /\ c.type = ReadInode(Disk, c.ino).mode
             /\ \E n \in t : n.ino \in DiskDirs /\ n.ino # -1 /\ c \in Kids(n) /\ Front(c.path) = n.path
  <2>1. PICK n \in t : n.ino \in DiskDirs /\ c \in Kids(n)
    BY DEF FromOne
  <2>2. n.ino # -1
    <3>1. n.ino \in Disk.inodes_used /\ Disk.inodes_used \subseteq Inode
      BY <2>1, DiskAssumption DEF DiskDirs
    <3>2. -1 \notin Inode
      BY DEF Inode
    <3> QED BY <3>1, <3>2
  <2> QED BY <1>2, <2>1, <2>2, KidIs
\* An entry that is in memory under another path has another number.
<1>4. ASSUME NEW a \in t, NEW c \in new PROVE a.path # c.path /\ a.ino # c.ino
  <2>1. a.path \in PathsOf(t)
    BY DEF PathsOf
  <2>2. SUFFICES ASSUME a.ino = c.ino PROVE FALSE
    BY <1>3, <2>1
  <2>3. PICK m \in t : m.ino \in DiskDirs /\ a \in Kids(m)
    BY <1>1, <1>3, <2>2
  <2>4. PICK n \in t : n.ino \in DiskDirs /\ n.ino # -1 /\ c \in Kids(n)
    BY <1>3
  <2>5. m.ino = n.ino /\ (m = n => a = c)
    BY <1>2, <2>2, <2>3, <2>4, KidsApart
  <2>6. m = n
    BY <1>1, <2>4, <2>5
  <2> QED BY <1>3, <2>1, <2>5, <2>6
<1>5. ASSUME NEW b \in new, NEW c \in new, b.path = c.path \/ b.ino = c.ino PROVE b = c
  <2>1. PICK n \in t : n.ino \in DiskDirs /\ n.ino # -1 /\ b \in Kids(n) /\ Front(b.path) = n.path
    BY <1>3
  <2>2. PICK m \in t : m.ino \in DiskDirs /\ m.ino # -1 /\ c \in Kids(m) /\ Front(c.path) = m.path
    BY <1>3
  <2>3. b.ino = c.ino => n.ino = m.ino
    BY <1>2, <2>1, <2>2, KidsApart
  <2>4. n = m
    BY <1>1, <1>5, <2>1, <2>2, <2>3
  <2> QED BY <1>2, <1>5, <2>1, <2>2, <2>4, KidsApart
<1>6. \A a \in u : a = Node(a.path, a.type, a.ino) /\ IsSeq(a.path)
  BY <1>1, <1>3
<1>7. \A a, b \in u : a.path = b.path => a = b
  BY <1>1, <1>4, <1>5
<1>8. \A a, b \in u : a.ino = b.ino /\ a.ino # -1 => a = b
  BY <1>1, <1>4, <1>5
<1>9. \A a \in u : IF a.ino = -1 THEN a.type # "file" /\ (a.type = "dir" => a.path = <<Dev>>)
                   ELSE a.ino \in Disk.inodes_used /\ a.type = ReadInode(Disk, a.ino).mode
  BY <1>1, <1>3
<1>10. \A a \in u : a.ino \notin {-1, ROOT_INODE} => \E m \in u : m.ino \in DiskDirs /\ a \in Kids(m)
  BY <1>1, <1>3
<1>11. ASSUME NEW a \in u PROVE a.path = <<>> \/ Front(a.path) \in PathsOf(u)
  <2>1. CASE a \in t
    BY <1>1, <1>2, <2>1
  <2>2. CASE a \in new
    BY <1>2, <1>3, <2>2
  <2> QED BY <2>1, <2>2
<1> HIDE DEF u
<1>12. Node(<<>>, "dir", ROOT_INODE) \in u
  BY <1>1 DEF u
<1> QED BY <1>6, <1>7, <1>8, <1>9, <1>10, <1>11, <1>12 DEF GoodTree, u

-----------------------------------------------------------------------------
(* Looking up a path *)

\* What a walk from the tree t on has come to.
On(t, s) ==
  /\ s = [tree |-> s.tree, loaded |-> s.loaded, at |-> s.at, ok |-> s.ok]
  /\ GoodTree(s.tree) /\ t \subseteq s.tree /\ s.at \in PathsOf(s.tree) /\ <<Dev>> \in s.loaded
SameNames == \A i \in DiskDirs : Named(d, i) = Named(Disk, i)

LEMMA OnWith ==
  ASSUME NEW t, NEW s, On(t, s)
  PROVE  /\ \A at \in PathsOf(s.tree) : On(t, [s EXCEPT !.at = at])
         /\ On(t, [s EXCEPT !.ok = FALSE])
         /\ \A u, l : GoodTree(u) /\ s.tree \subseteq u /\ s.loaded \subseteq l => On(t, [s EXCEPT !.loaded = l, !.tree = u])
         /\ \A l : s.loaded \subseteq l => On(t, [s EXCEPT !.loaded = l])
<1>1. s = [tree |-> s.tree, loaded |-> s.loaded, at |-> s.at, ok |-> s.ok]
  BY DEF On
<1>2. GoodTree(s.tree) /\ t \subseteq s.tree /\ s.at \in PathsOf(s.tree) /\ <<Dev>> \in s.loaded
  BY DEF On
<1>3. ASSUME NEW at \in PathsOf(s.tree) PROVE On(t, [s EXCEPT !.at = at])
  <2> DEFINE r == [s EXCEPT !.at = at]
  <2>1. r = [tree |-> s.tree, loaded |-> s.loaded, at |-> at, ok |-> s.ok]
    BY <1>1
  <2> HIDE DEF r
  <2>2. r.tree = s.tree /\ r.loaded = s.loaded /\ r.at = at /\ r.ok = s.ok
    BY <2>1
  <2> QED BY <1>2, <2>1, <2>2 DEF On, r
<1>4. On(t, [s EXCEPT !.ok = FALSE])
  <2> DEFINE no == FALSE
             r == [s EXCEPT !.ok = no]
  <2> HIDE DEF no
  <2>1. r = [tree |-> s.tree, loaded |-> s.loaded, at |-> s.at, ok |-> no]
    BY <1>1
  <2> HIDE DEF r
  <2>2. r.tree = s.tree /\ r.loaded = s.loaded /\ r.at = s.at /\ r.ok = no
    BY <2>1
  <2>3. On(t, r)
    BY <1>2, <2>1, <2>2 DEF On
  <2> QED BY <2>3 DEF r, no
<1>5. ASSUME NEW u, NEW l, GoodTree(u), s.tree \subseteq u, s.loaded \subseteq l
      PROVE  On(t, [s EXCEPT !.loaded = l, !.tree = u])
  <2> DEFINE r == [s EXCEPT !.loaded = l, !.tree = u]
             q == [s EXCEPT !.loaded = l]
  <2>0. r = [q EXCEPT !.tree = u] /\ q = [tree |-> s.tree, loaded |-> l, at |-> s.at, ok |-> s.ok]
    BY <1>1
  <2> HIDE DEF r, q
  <2>1. r = [tree |-> u, loaded |-> l, at |-> s.at, ok |-> s.ok]
    BY <2>0
  <2>2. r.tree = u /\ r.loaded = l /\ r.at = s.at /\ r.ok = s.ok
    BY <2>1
  <2>3. s.at \in PathsOf(u)
    BY <1>2, <1>5 DEF PathsOf
  <2> QED BY <1>2, <1>5, <2>1, <2>2, <2>3 DEF On, r
<1>6. ASSUME NEW l, s.loaded \subseteq l PROVE On(t, [s EXCEPT !.loaded = l])
  <2> DEFINE r == [s EXCEPT !.loaded = l]
  <2>1. r = [tree |-> s.tree, loaded |-> l, at |-> s.at, ok |-> s.ok]
    BY <1>1
  <2> HIDE DEF r
  <2>2. r.tree = s.tree /\ r.loaded = l /\ r.at = s.at /\ r.ok = s.ok
    BY <2>1
  <2> QED BY <1>2, <1>6, <2>1, <2>2 DEF On, r
<1> QED BY <1>3, <1>4, <1>5, <1>6

\* vfs_populate_directory reads a directory of the volume, each of them once.
LEMMA LoadOn == ASSUME SameNames, NEW t, NEW s, On(t, s) PROVE On(t, Load(s))
<1> DEFINE n == NodeAt(s.tree, s.at)
           l == s.loaded \cup {s.at}
           new == {c \in Children(d, n) : c.path \notin PathsOf(s.tree)}
           u == IF n.type # "dir" THEN s.tree ELSE s.tree \cup new
<1>1. CASE s.at \in s.loaded
  BY <1>1 DEF Load
<1>2. CASE s.at \notin s.loaded
  <2>1. Load(s) = [s EXCEPT !.loaded = l, !.tree = u]
    BY <1>2 DEF Load
  <2>2. GoodTree(s.tree) /\ s.at \in PathsOf(s.tree) /\ <<Dev>> \in s.loaded
    BY DEF On
  <2>3. n \in s.tree /\ n.path = s.at
    BY <2>2, NodeAtIn
  <2> HIDE DEF n
  <2>4. GoodTree(u)
    <3>1. CASE n.type # "dir"
      BY <2>2, <3>1
    <3>2. CASE n.type = "dir"
      <4>1. n.ino # -1
        BY <1>2, <2>2, <2>3, <3>2 DEF GoodTree
      <4>2. n.ino \in DiskDirs
        BY <2>2, <2>3, <3>2, <4>1 DEF GoodTree, DiskDirs, IsDir
      <4>3. Children(d, n) = Kids(n)
        BY <4>2 DEF Children, Kids, SameNames
      <4>4. \A c \in new : c.path \notin PathsOf(s.tree) /\ FromOne(s.tree, c)
        BY <2>3, <4>2, <4>3 DEF FromOne
      <4> HIDE DEF new
      <4>5. GoodTree(s.tree \cup new)
        BY <2>2, <4>4, Populated
      <4> QED BY <3>2, <4>5
    <3> QED BY <3>1, <3>2
  <2>5. s.tree \subseteq u /\ s.loaded \subseteq l
    OBVIOUS
  <2> HIDE DEF u, l
  <2>6. On(t, [s EXCEPT !.loaded = l, !.tree = u])
    BY <2>4, <2>5, OnWith
  <2> QED BY <2>1, <2>6
<1> QED BY <1>1, <1>2

LEMMA FollowOn == ASSUME SameNames, NEW t, NEW s, On(t, s), NEW name PROVE On(t, Follow(s, name))
<1>1. CASE ~s.ok \/ name = Dot
  BY <1>1 DEF Follow
<1>2. CASE ~(~s.ok \/ name = Dot) /\ name = DotDot
  <2> DEFINE at == IF s.at = <<>> THEN s.at ELSE Front(s.at)
  <2>1. Follow(s, name) = [s EXCEPT !.at = at]
    BY <1>2 DEF Follow
  <2>2. GoodTree(s.tree) /\ s.at \in PathsOf(s.tree)
    BY DEF On
  <2>3. PICK n \in s.tree : n.path = s.at
    BY <2>2 DEF PathsOf
  <2>4. n.path = <<>> \/ Front(n.path) \in PathsOf(s.tree)
    BY <2>2 DEF GoodTree
  <2>5. at \in PathsOf(s.tree)
    BY <2>2, <2>3, <2>4
  <2> HIDE DEF at
  <2>6. On(t, [s EXCEPT !.at = at])
    BY <2>5, OnWith
  <2> QED BY <2>1, <2>6
<1>3. CASE ~(~s.ok \/ name = Dot) /\ name # DotDot
  <2> DEFINE l == Load(s)
             to == Append(s.at, name)
  <2>1. Follow(s, name) = Step(l, to)
    BY <1>3 DEF Follow
  <2>2. On(t, l)
    BY LoadOn
  <2> HIDE DEF l, to
  <2>3. CASE to \in PathsOf(l.tree)
    <3>1. Step(l, to) = [l EXCEPT !.at = to]
      BY <2>3 DEF Step
    <3>2. On(t, [l EXCEPT !.at = to])
      BY <2>2, <2>3, OnWith
    <3> QED BY <2>1, <3>1, <3>2
  <2>4. CASE to \notin PathsOf(l.tree)
    <3>1. Step(l, to) = [l EXCEPT !.ok = FALSE]
      BY <2>4 DEF Step
    <3>2. On(t, [l EXCEPT !.ok = FALSE])
      BY <2>2, OnWith
    <3> QED BY <2>1, <3>1, <3>2
  <2> QED BY <2>3, <2>4
<1> QED BY <1>1, <1>2, <1>3

\* The walk as FoldLeft defines it: f has what it comes to after the names in s.
Walked(base, q, f, s) == IF s = {} THEN base ELSE Follow(f[s \ {Max(s)}], q[Max(s)])
Walk(base, q, n, f) == f = [s \in SUBSET (1..n) |-> Walked(base, q, f, s)]

LEMMA WalkIs == ASSUME NEW base, NEW q, NEW n \in Nat PROVE \E f : Walk(base, q, n, f)
<1> DEFINE Some(m) == \E f : Walk(base, q, m, f)
           Bad == {m \in Nat : ~Some(m)}
<1>1. Some(0)
  <2> DEFINE f == [s \in SUBSET (1..0) |-> base]
  <2>1. \A s \in SUBSET (1..0) : Walked(base, q, f, s) = base
    BY DEF Walked
  <2>2. f = [s \in SUBSET (1..0) |-> Walked(base, q, f, s)]
    BY <2>1
  <2> QED BY <2>2 DEF Walk
<1>2. ASSUME NEW m \in Nat, Some(m) PROVE Some(m + 1)
  <2>1. PICK f : f = [s \in SUBSET (1..m) |-> Walked(base, q, f, s)]
    BY <1>2 DEF Walk
  <2> DEFINE h == [s \in SUBSET (1..(m + 1)) |-> Walked(base, q, f, s)]
  <2>2. ASSUME NEW s \in SUBSET (1..(m + 1)) PROVE Walked(base, q, h, s) = Walked(base, q, f, s)
    <3>1. CASE s = {}
      BY <3>1 DEF Walked
    <3>2. CASE s # {}
      <4> DEFINE r == s \ {Max(s)}
      <4>1. r \in SUBSET (1..m) /\ r \in SUBSET (1..(m + 1))
        BY <3>2, LastTurn
      <4>2. h[r] = f[r]
        <5> HIDE DEF r
        <5>1. f[r] = Walked(base, q, f, r)
          BY <2>1, <4>1, Zenon
        <5> QED BY <4>1, <5>1
      <4> HIDE DEF h
      <4> QED BY <3>2, <4>2 DEF Walked
    <3> QED BY <3>1, <3>2
  <2>3. h = [s \in SUBSET (1..(m + 1)) |-> Walked(base, q, h, s)]
    BY <2>2
  <2> QED BY <2>3 DEF Walk
<1>3. Bad = {}
  <2> SUFFICES ASSUME Bad # {} PROVE FALSE
    OBVIOUS
  <2> DEFINE k == Min(Bad)
  <2>1. k \in Bad /\ \A x \in Bad : k <= x
    BY MinIs
  <2> HIDE DEF k, Some
  <2>2. k \in Nat /\ ~Some(k) /\ k # 0
    BY <1>1, <2>1
  <2>3. k - 1 \in Nat /\ Some(k - 1)
    BY <2>1, <2>2
  <2> QED BY <1>2, <2>2, <2>3
<1> QED BY <1>3

LEMMA WalkOn ==
  ASSUME SameNames, NEW t, NEW base, On(t, base), NEW q, NEW n \in Nat, NEW f, Walk(base, q, n, f)
  PROVE  On(t, f[1..n])
<1>1. \A s \in SUBSET (1..n) : f[s] = Walked(base, q, f, s)
  BY Zenon DEF Walk
<1> DEFINE Has(m) == \A s \in SUBSET (1..m) : On(t, f[s])
           Bad == {m \in 0..n : ~Has(m)}
<1>2. Has(0)
  <2>1. \A s \in SUBSET (1..0) : s = {} /\ s \in SUBSET (1..n)
    OBVIOUS
  <2> QED BY <1>1, <2>1 DEF Walked
<1>3. ASSUME NEW m \in Nat, m < n, Has(m) PROVE Has(m + 1)
  <2> SUFFICES ASSUME NEW s \in SUBSET (1..(m + 1)) PROVE On(t, f[s])
    OBVIOUS
  <2>1. s \in SUBSET (1..n)
    BY <1>3
  <2>2. CASE s = {}
    BY <1>1, <2>1, <2>2 DEF Walked
  <2>3. CASE s # {}
    <3>1. s \ {Max(s)} \in SUBSET (1..m)
      BY <2>3, LastTurn
    <3>2. On(t, f[s \ {Max(s)}])
      BY <1>3, <3>1
    <3>3. On(t, Follow(f[s \ {Max(s)}], q[Max(s)]))
      BY <3>2, FollowOn
    <3>4. f[s] = Follow(f[s \ {Max(s)}], q[Max(s)])
      BY <1>1, <2>1, <2>3 DEF Walked
    <3> QED BY <3>3, <3>4
  <2> QED BY <2>2, <2>3
<1>4. Bad = {}
  <2> SUFFICES ASSUME Bad # {} PROVE FALSE
    OBVIOUS
  <2> DEFINE k == Min(Bad)
  <2>0. Bad \in SUBSET Nat
    OBVIOUS
  <2>1. k \in Bad /\ \A x \in Bad : k <= x
    BY <2>0, MinIs
  <2> HIDE DEF k, Has
  <2>2. k \in Nat /\ k <= n /\ ~Has(k) /\ k # 0
    BY <1>2, <2>1
  <2>3. k - 1 \in Nat /\ k - 1 < n /\ Has(k - 1)
    BY <2>1, <2>2
  <2>4. Has((k - 1) + 1)
    BY <1>3, <2>3
  <2> QED BY <2>2, <2>4
<1>5. Has(n)
  <2> HIDE DEF Has
  <2> QED BY <1>4
<1> QED BY <1>5

\* vfs_find_entry is a walk.
From(t, l, start, path) == [tree |-> t, loaded |-> l, at |-> IF path.abs THEN <<>> ELSE start,
                            ok |-> path.abs \/ path.names # <<>>]
LEMMA LookupIs ==
  ASSUME NEW t, NEW l, NEW start, NEW path, IsSeq(path.names)
  PROVE  \E f : /\ Walk(From(t, l, start, path), path.names, Len(path.names), f)
                /\ Find(t, l, start, path) = f[1..Len(path.names)]
<1> DEFINE q == path.names
           n == Len(q)
           base == From(t, l, start, path)
           P(f) == f = [s \in SUBSET (1..n) |-> IF s = {} THEN base ELSE Follow(f[s \ {Max(s)}], q[Max(s)])]
<1>1. n \in Nat /\ DOMAIN q = 1..n
  BY SeqHas
<1>2. Find(t, l, start, path) = FoldLeft(Follow, base, q)
  BY DEF Find, From
<1> HIDE DEF base, q, n
<1>3. \A f : P(f) <=> Walk(base, q, n, f)
  BY DEF Walk, Walked
<1>4. FoldLeft(Follow, base, q) = (CHOOSE f : P(f))[1..n]
  BY <1>1, Zenon DEF FoldLeft, MapThenFoldSet
<1>5. \E f : P(f)
  BY <1>1, <1>3, WalkIs
<1> HIDE DEF P
<1>6. P(CHOOSE f : P(f))
  BY <1>5
<1>7. PICK f : Walk(base, q, n, f) /\ FoldLeft(Follow, base, q) = f[1..n]
  BY <1>3, <1>4, <1>6
<1> QED BY <1>2, <1>7 DEF base, q, n

LEMMA FromOn ==
  ASSUME NEW t, GoodTree(t), NEW l, <<Dev>> \in l, NEW start \in PathsOf(t), NEW path
  PROVE  On(t, From(t, l, start, path))
<1> DEFINE at == IF path.abs THEN <<>> ELSE start
           ok == path.abs \/ path.names # <<>>
           base == [tree |-> t, loaded |-> l, at |-> at, ok |-> ok]
<1>1. <<>> \in PathsOf(t)
  BY NodeIs DEF GoodTree, PathsOf
<1>2. at \in PathsOf(t)
  BY <1>1
<1>3. From(t, l, start, path) = base
  BY DEF From
<1> HIDE DEF at, ok
<1>4. On(t, base)
  BY <1>2 DEF On
<1> QED BY <1>3, <1>4

\* vfs_find_entry keeps the tree good, and what was in it.
LEMMA FindOn ==
  ASSUME SameNames, NEW t, GoodTree(t), NEW l, <<Dev>> \in l, NEW start \in PathsOf(t),
         NEW path, IsSeq(path.names)
  PROVE  On(t, Find(t, l, start, path))
<1> DEFINE n == Len(path.names)
<1>1. PICK f : Walk(From(t, l, start, path), path.names, n, f) /\ Find(t, l, start, path) = f[1..n]
  BY LookupIs
<1>2. n \in Nat /\ On(t, From(t, l, start, path))
  BY SeqHas, FromOn
<1>3. On(t, f[1..n])
  BY <1>1, <1>2, WalkOn
<1> QED BY <1>1, <1>3

-----------------------------------------------------------------------------
(* The disk and the inode objects o of the entries t: X has what is in memory *)
(* of each inode, or what would be if its file were opened.                   *)
Coherent(v, t, o, X) ==
  /\ IsVolume(v) /\ v.inodes_used = Disk.inodes_used /\ DOMAIN v.inode = Inode
  /\ \A i \in DiskDirs : Listing(v, i) = Listing(Disk, i)
  /\ WellKept(v.used, v.data, Disk.inodes_used, X)
  /\ \A i \in Disk.inodes_used : Agree(X[i], v.inode[i])
  /\ DOMAIN o \subseteq PathsOf(t)
  /\ \A n \in t : n.ino # -1 /\ n.path \in DOMAIN o => X[n.ino] = o[n.path]

\* More entries in memory: they have no inode object yet.
LEMMA CoherentMore ==
  ASSUME NEW v, NEW t, NEW o, NEW X, Coherent(v, t, o, X), NEW u, GoodTree(u), t \subseteq u
  PROVE  Coherent(v, u, o, X)
<1>1. DOMAIN o \subseteq PathsOf(t) /\ PathsOf(t) \subseteq PathsOf(u)
  BY DEF Coherent, PathsOf
<1>2. ASSUME NEW n \in u, n.ino # -1, n.path \in DOMAIN o PROVE X[n.ino] = o[n.path]
  <2>1. PICK m \in t : m.path = n.path
    BY <1>1, <1>2 DEF PathsOf
  <2>2. m = n
    BY <2>1 DEF GoodTree
  <2> QED BY <1>2, <2>1, <2>2 DEF Coherent
<1> QED BY <1>1, <1>2 DEF Coherent

\* The inode is read again.
Rereads(v, o, n) == IF n.ino = -1 THEN o
                    ELSE [x \in DOMAIN o \cup {n.path} |-> IF x = n.path THEN ReadInode(v, n.ino) ELSE o[x]]
LEMMA CoherentReread ==
  ASSUME NEW v, NEW t, GoodTree(t), NEW o, NEW X, Coherent(v, t, o, X), NEW n \in t
  PROVE  \E Y : Coherent(v, t, Rereads(v, o, n), Y)
<1> DEFINE o2 == Rereads(v, o, n)
           i == n.ino
           S == Disk.inodes_used
           Y == [j \in S |-> IF j = i THEN v.inode[j] ELSE X[j]]
<1>1. CASE i = -1
  BY <1>1 DEF Rereads
<1>2. CASE i # -1
  <2>1. /\ i \in S /\ WellKept(v.used, v.data, S, X) /\ \A j \in S : Agree(X[j], v.inode[j])
        /\ \A j \in S : Fit(v.used, v.data, X[j])
    BY <1>2 DEF GoodTree, Coherent, WellKept
  <2>2. ASSUME NEW j \in S
        PROVE  /\ Fit(v.used, v.data, Y[j]) /\ Holds(v.data, Y[j]) \subseteq Holds(v.data, X[j])
               /\ Agree(Y[j], v.inode[j])
    <3>1. CASE j = i
      <4>1. Y[j] = v.inode[j]
        BY <3>1
      <4> HIDE DEF Y
      <4>2. Fit(v.used, v.data, Y[j]) /\ Holds(v.data, Y[j]) \subseteq Holds(v.data, X[j])
        BY <2>1, <4>1, AgreeFit
      <4>3. Agree(Y[j], v.inode[j])
        BY <4>1, <4>2, AgreeSelf
      <4> QED BY <4>2, <4>3
    <3>2. CASE j # i
      <4>1. Y[j] = X[j]
        BY <3>2
      <4> HIDE DEF Y
      <4> QED BY <2>1, <4>1
    <3> QED BY <3>1, <3>2
  <2>3. \A j \in S : j # i => Y[j] = X[j]
    OBVIOUS
  <2>4. Y[i] = v.inode[i]
    BY <2>1
  <2> HIDE DEF Y
  <2>5. WellKept(v.used, v.data, S, Y)
    BY <2>1, <2>2 DEF WellKept
  <2>6. o2 = [x \in DOMAIN o \cup {n.path} |-> IF x = n.path THEN v.inode[i] ELSE o[x]]
    BY <1>2 DEF Rereads, ReadInode
  <2> HIDE DEF o2
  <2>7. DOMAIN o2 = DOMAIN o \cup {n.path} /\ DOMAIN o2 \subseteq PathsOf(t)
    BY <2>6 DEF Coherent, PathsOf
  <2>8. ASSUME NEW m \in t, m.ino # -1, m.path \in DOMAIN o2 PROVE Y[m.ino] = o2[m.path]
    <3>1. CASE m = n
      <4>1. o2[m.path] = v.inode[i]
        BY <2>6, <2>7, <2>8, <3>1
      <4> QED BY <2>4, <3>1, <4>1
    <3>2. CASE m # n
      <4>1. m.path # n.path /\ m.ino # i /\ m.ino \in S
        BY <2>8, <3>2 DEF GoodTree
      <4>2. o2[m.path] = o[m.path] /\ m.path \in DOMAIN o
        BY <2>6, <2>7, <2>8, <4>1
      <4>3. X[m.ino] = o[m.path]
        BY <2>8, <4>2 DEF Coherent
      <4> QED BY <2>3, <4>1, <4>2, <4>3
    <3> QED BY <3>1, <3>2
  <2>9. Coherent(v, t, o2, Y)
    BY <2>2, <2>5, <2>7, <2>8 DEF Coherent
  <2> QED BY <2>9 DEF o2
<1> QED BY <1>1, <1>2

\* OneAltered, said of all at once.
Swapped(u, m, S, X, i, u2, m2, Y) ==
  /\ WellKept(u, m, S, X) /\ i \in S /\ Altered(u, m, X[i], u2, m2, Y[i])
  /\ \A j \in S : j # i => Y[j] = X[j]
LEMMA SwappedKept ==
  ASSUME NEW u, NEW m, NEW S, NEW X, NEW i, NEW u2, NEW m2, NEW Y, Swapped(u, m, S, X, i, u2, m2, Y)
  PROVE  WellKept(u2, m2, S, Y)
<1> DEFINE x2 == Y[i]
<1>1. /\ WellKept(u, m, S, X) /\ i \in S /\ Altered(u, m, X[i], u2, m2, x2)
      /\ Y[i] = x2 /\ \A j \in S : j # i => Y[j] = X[j]
  BY DEF Swapped
<1> HIDE DEF x2
<1> QED BY <1>1, OneAltered

\* A call of the driver on the file of entry n, which hands the inode object over.
LEMMA CoherentCall ==
  ASSUME NEW v, NEW t, GoodTree(t), NEW o, NEW X, Coherent(v, t, o, X), NEW n \in t, n.type = "file",
         n.path \in DOMAIN o, NEW file, file.num = n.ino, file.inode = o[n.path],
         NEW r, OnFile(v, file, r), Agreed(file, r),
         NEW o2, DOMAIN o2 = DOMAIN o, o2[n.path] = r.file.inode, \A x \in DOMAIN o : x # n.path => o2[x] = o[x]
  PROVE  \E Y : Coherent(r.vol, t, o2, Y)
<1> DEFINE i == n.ino
           S == Disk.inodes_used
           y == r.file.inode
           w == r.vol
           Y == [j \in S |-> IF j = i THEN y ELSE X[j]]
<1>1. i # -1 /\ i \in S /\ X[i] = file.inode /\ i \notin DiskDirs
  <2>1. i # -1 /\ i \in S /\ n.type = ReadInode(Disk, i).mode
    BY DEF GoodTree
  <2>2. i \notin DiskDirs
    BY <2>1 DEF DiskDirs, IsDir
  <2> QED BY <2>1, <2>2 DEF Coherent
<1>2. /\ IsVolume(v) /\ v.inodes_used = S /\ DOMAIN v.inode = Inode /\ S \subseteq Inode
      /\ WellKept(v.used, v.data, S, X) /\ \A j \in S : Agree(X[j], v.inode[j])
      /\ Texts(v.data) /\ Reserved(v.used) /\ \A j \in S : Fit(v.used, v.data, X[j])
      /\ \A j \in S : j # i => Holds(v.data, X[j]) \cap Holds(v.data, X[i]) = {}
  BY <1>1, DiskAssumption DEF Coherent, WellKept
<1>3. /\ IsVolume(w) /\ w.inodes_used = S /\ DOMAIN w.inode = Inode
      /\ \A j \in S : j # i => w.inode[j] = v.inode[j]
      /\ Altered(v.used, v.data, X[i], w.used, w.data, y)
  <2>1. /\ IsVolume(w) /\ w.inodes_used = v.inodes_used /\ DOMAIN w.inode = DOMAIN v.inode
        /\ \A j \in DOMAIN v.inode : w.inode[j] = v.inode[j] \/ j = i
        /\ Altered(v.used, v.data, file.inode, w.used, w.data, y)
    BY DEF OnFile
  <2> HIDE DEF w, y
  <2> QED BY <1>1, <1>2, <2>1
<1>4. Agree(y, w.inode[i])
  BY DEF Agreed
<1>5. Y[i] = y /\ \A j \in S : j # i => Y[j] = X[j]
  BY <1>1
<1> HIDE DEF Y, y, w
<1>6. WellKept(w.used, w.data, S, Y)
  <2>1. Swapped(v.used, v.data, S, X, i, w.used, w.data, Y)
    BY <1>1, <1>2, <1>3, <1>5, Zenon DEF Swapped
  <2> HIDE DEF S, i
  <2> QED BY <2>1, SwappedKept
<1>7. \A j \in S : Agree(Y[j], w.inode[j])
  BY <1>2, <1>3, <1>4, <1>5
<1>8. ASSUME NEW k \in DiskDirs PROVE Listing(w, k) = Listing(Disk, k)
  <2>1. k \in S /\ k # i
    BY <1>1 DEF DiskDirs
  <2>2. w.inode[k] = v.inode[k]
    BY <1>3, <2>1
  <2>3. Fit(v.used, v.data, v.inode[k]) /\ Holds(v.data, v.inode[k]) \subseteq Holds(v.data, X[k])
    BY <1>2, <2>1, AgreeFit
  <2>4. Ready(v, v.inode[k])
    BY <1>2, <2>3 DEF Ready
  <2>5. Fit(w.used, w.data, Y[k]) /\ Texts(w.data) /\ Reserved(w.used)
    BY <1>6, <2>1 DEF WellKept
  <2>6. Fit(w.used, w.data, w.inode[k])
    BY <1>7, <2>1, <2>5, AgreeFit
  <2>7. Ready(w, w.inode[k])
    BY <1>3, <2>5, <2>6 DEF Ready
  <2>8. \A b \in Holds(v.data, v.inode[k]) : w.data[b] = v.data[b]
    <3>1. Holds(v.data, X[k]) \subseteq (v.used \cap Block) \ {0}
      BY <1>2, <2>1, HoldsIn
    <3>2. Holds(v.data, X[k]) \cap Holds(v.data, X[i]) = {}
      BY <1>2, <2>1
    <3> QED BY <1>3, <2>3, <3>1, <3>2 DEF Altered
  <2>9. Listing(w, k) = Listing(v, k)
    BY <2>2, <2>4, <2>7, <2>8, ListingKept
  <2> QED BY <2>9 DEF Coherent
<1>9. ASSUME NEW m \in t, m.ino # -1, m.path \in DOMAIN o2 PROVE Y[m.ino] = o2[m.path]
  <2>1. CASE m = n
    BY <1>5, <2>1 DEF y
  <2>2. CASE m # n
    <3>1. m.path # n.path /\ m.ino # i /\ m.ino \in S
      BY <1>9, <2>2 DEF GoodTree
    <3>2. X[m.ino] = o[m.path] /\ o2[m.path] = o[m.path]
      BY <1>9, <3>1 DEF Coherent
    <3> QED BY <1>5, <3>1, <3>2
  <2> QED BY <2>1, <2>2
<1>10. DOMAIN o2 \subseteq PathsOf(t)
  BY DEF Coherent
<1>11. Coherent(w, t, o2, Y)
  BY <1>3, <1>6, <1>7, <1>8, <1>9, <1>10 DEF Coherent
<1> QED BY <1>11 DEF w

-----------------------------------------------------------------------------
(* The inode objects and the disk, over the calls                             *)

\* An open file f is of an entry in memory that has an inode object.
OpenFile(t, o, f) == /\ \E n \in t : f.path = n.path /\ f.type = n.type /\ f.num = n.ino
                     /\ f.pos \in Nat /\ (f.num # -1 => f.path \in DOMAIN o)
TreeOK == GoodTree(tree) /\ <<Dev>> \in loaded /\ DOMAIN cwd = Procs /\ \A p \in Procs : cwd[p] \in PathsOf(tree)
OpenOK == \A f \in DOMAIN desc : OpenFile(tree, inode, desc[f])
FilesInv == FdInv /\ TreeOK /\ OpenOK /\ \E X : Coherent(d, tree, inode, X)

LEMMA OpenMore ==
  ASSUME NEW t, NEW o, NEW f, OpenFile(t, o, f), NEW u, t \subseteq u, NEW o2, DOMAIN o \subseteq DOMAIN o2
  PROVE  OpenFile(u, o2, f)
BY DEF OpenFile

\* A look up from the entries in memory, and what is behind a lookup before it.
LEMMA Found ==
  ASSUME FilesInv, NEW path, IsSeq(path.names), NEW start
  PROVE  /\ start \in PathsOf(tree) => On(tree, Find(tree, loaded, start, path))
         /\ \A b : On(tree, b) /\ start \in PathsOf(b.tree) => On(tree, Find(b.tree, b.loaded, start, path))
<1>1. SameNames /\ GoodTree(tree) /\ <<Dev>> \in loaded
  <2>1. PICK X : Coherent(d, tree, inode, X)
    BY DEF FilesInv
  <2>2. \A i \in DiskDirs : Listing(d, i) = Listing(Disk, i)
    BY <2>1 DEF Coherent
  <2> QED BY <2>2 DEF FilesInv, TreeOK, SameNames, Named
<1>2. start \in PathsOf(tree) => On(tree, Find(tree, loaded, start, path))
  BY <1>1, FindOn
<1>3. ASSUME NEW b, On(tree, b), start \in PathsOf(b.tree) PROVE On(tree, Find(b.tree, b.loaded, start, path))
  <2>1. GoodTree(b.tree) /\ <<Dev>> \in b.loaded /\ tree \subseteq b.tree
    BY <1>3 DEF On
  <2> DEFINE s == Find(b.tree, b.loaded, start, path)
  <2>2. On(b.tree, s)
    BY <1>1, <1>3, <2>1, FindOn
  <2> HIDE DEF s
  <2> QED BY <2>1, <2>2 DEF On, s
<1> QED BY <1>2, <1>3

\* What was found is kept, and with it what was open and known.
LEMMA Remembered ==
  ASSUME FilesInv, NEW s, On(tree, s)
  PROVE  /\ GoodTree(s.tree) /\ tree \subseteq s.tree /\ PathsOf(tree) \subseteq PathsOf(s.tree)
         /\ <<Dev>> \in s.loaded /\ s.at \in PathsOf(s.tree)
         /\ NodeAt(s.tree, s.at) \in s.tree /\ NodeAt(s.tree, s.at).path = s.at
         /\ \E X : Coherent(d, s.tree, inode, X)
<1>1. GoodTree(s.tree) /\ tree \subseteq s.tree /\ s.at \in PathsOf(s.tree) /\ <<Dev>> \in s.loaded
  BY DEF On
<1>2. \E X : Coherent(d, s.tree, inode, X)
  BY <1>1, CoherentMore DEF FilesInv
<1> QED BY <1>1, <1>2, NodeAtIn DEF PathsOf

LEMMA RereadDomain ==
  ASSUME NEW v, NEW o, NEW n
  PROVE  /\ DOMAIN o \subseteq DOMAIN Rereads(v, o, n)
         /\ n.ino # -1 => n.path \in DOMAIN Rereads(v, o, n) /\ Rereads(v, o, n)[n.path] = ReadInode(v, n.ino)
BY DEF Rereads

\* The file behind entry n, as the driver takes it.
LEMMA Behind ==
  ASSUME NEW v, NEW t, GoodTree(t), NEW o, NEW X, Coherent(v, t, o, X), NEW n \in t, n.ino # -1,
         n.path \in DOMAIN o, NEW pos \in Nat, NEW file, file = [num |-> n.ino, pos |-> pos, inode |-> o[n.path]]
  PROVE  /\ file.num = n.ino /\ file.inode = o[n.path] /\ IsOpenFile(file) /\ Ready(v, file.inode)
         /\ file.num \in DOMAIN v.inode /\ Agree(file.inode, v.inode[file.num])
<1>1. file.num = n.ino /\ file.pos = pos /\ file.inode = o[n.path]
  OBVIOUS
<1>2. n.ino \in Disk.inodes_used /\ X[n.ino] = o[n.path]
  BY DEF GoodTree, Coherent
<1>3. /\ IsVolume(v) /\ Texts(v.data) /\ Reserved(v.used) /\ Fit(v.used, v.data, X[n.ino])
      /\ Agree(X[n.ino], v.inode[n.ino]) /\ DOMAIN v.inode = Inode
  BY <1>2 DEF Coherent, WellKept
<1>4. Disk.inodes_used \subseteq Inode
  BY DiskAssumption
<1>5. IsInode(file.inode)
  BY <1>1, <1>2, <1>3 DEF Fit
<1> QED BY <1>1, <1>2, <1>3, <1>4, <1>5 DEF IsOpenFile, Ready

-----------------------------------------------------------------------------
LEMMA OpenCoherent ==
  ASSUME FilesInv, NEW p \in Procs, NEW path, IsSeq(path.names), sys_open(p, path), FdInv'
  PROVE  FilesInv'
<1> DEFINE s == Find(tree, loaded, cwd[p], path)
           n == NodeAt(s.tree, s.at)
<1>1. /\ tree' = s.tree /\ loaded' = s.loaded /\ UNCHANGED <<d, cwd>>
      /\ \/ UNCHANGED <<inode, desc>>
         \/ inode' = Rereads(d, inode, n) /\ \E pos \in Positions : desc' = Append(desc, NewFile(n, pos))
  BY DEF sys_open, Remember, fdm_open_file, Reread, Rereads
<1>2. On(tree, s)
  BY Found DEF FilesInv, TreeOK
<1> HIDE DEF s
<1>3. /\ GoodTree(s.tree) /\ tree \subseteq s.tree /\ PathsOf(tree) \subseteq PathsOf(s.tree) /\ <<Dev>> \in s.loaded
      /\ n \in s.tree /\ \E X : Coherent(d, s.tree, inode, X)
  BY <1>2, Remembered
<1> HIDE DEF n
<1>4. TreeOK'
  BY <1>1, <1>3 DEF FilesInv, TreeOK
<1>5. CASE UNCHANGED <<inode, desc>>
  <2>1. OpenOK'
    BY <1>1, <1>3, <1>5, OpenMore DEF FilesInv, OpenOK
  <2>2. \E X : Coherent(d', tree', inode', X)
    BY <1>1, <1>3, <1>5
  <2> QED BY <1>4, <2>1, <2>2 DEF FilesInv
<1>6. CASE inode' = Rereads(d, inode, n) /\ \E pos \in Positions : desc' = Append(desc, NewFile(n, pos))
  <2>1. PICK pos \in Positions : desc' = Append(desc, NewFile(n, pos))
    BY <1>6
  <2>2. \E Y : Coherent(d, s.tree, Rereads(d, inode, n), Y)
    BY <1>3, CoherentReread
  <2>3. \E X : Coherent(d', tree', inode', X)
    BY <1>1, <1>6, <2>2
  <2> DEFINE e == NewFile(n, pos)
  <2>4. /\ DOMAIN desc' = 1..(Len(desc) + 1) /\ DOMAIN desc = 1..Len(desc) /\ Len(desc) \in Nat
        /\ \A f \in 1..Len(desc) : desc'[f] = desc[f]
        /\ desc'[Len(desc) + 1] = e
    <3>1. Len(desc) \in Nat /\ DOMAIN desc = 1..Len(desc) /\ desc \in Seq(Range(desc))
      BY DEF FilesInv, FdInv, DescOK
    <3> HIDE DEF e
    <3>2. desc \in Seq(Range(desc) \cup {e})
      BY <3>1, SeqMonotonic
    <3>3. desc' = Append(desc, e)
      BY <2>1 DEF e
    <3> QED BY <3>1, <3>2, <3>3, AppendProperties, LenProperties
  <2>5. OpenFile(s.tree, inode', e)
    <3>1. e.path = n.path /\ e.type = n.type /\ e.num = n.ino /\ e.pos = pos
      BY DEF NewFile
    <3> HIDE DEF e
    <3>2. pos \in Nat
      BY FilesAssumption
    <3>3. n.ino # -1 => n.path \in DOMAIN inode'
      BY <1>6, RereadDomain
    <3> QED BY <1>3, <3>1, <3>2, <3>3 DEF OpenFile
  <2> HIDE DEF e
  <2>6. DOMAIN inode \subseteq DOMAIN inode'
    BY <1>6, RereadDomain
  <2>7. \A f \in 1..Len(desc) : OpenFile(s.tree, inode', desc[f])
    BY <1>3, <2>4, <2>6, OpenMore DEF FilesInv, OpenOK
  <2>8. \A f \in DOMAIN desc' : OpenFile(s.tree, inode', desc'[f])
    <3> SUFFICES ASSUME NEW f \in DOMAIN desc' PROVE OpenFile(s.tree, inode', desc'[f])
      OBVIOUS
    <3>1. f \in 1..Len(desc) \/ f = Len(desc) + 1
      BY <2>4
    <3>2. CASE f = Len(desc) + 1
      BY <2>4, <2>5, <3>2
    <3> QED BY <2>4, <2>7, <3>1, <3>2
  <2>9. OpenOK'
    BY <1>1, <2>8 DEF OpenOK
  <2> QED BY <1>4, <2>3, <2>9 DEF FilesInv
<1> QED BY <1>1, <1>5, <1>6

LEMMA ChdirCoherent ==
  ASSUME FilesInv, NEW p \in Procs, NEW path, IsSeq(path.names), sys_chdir(p, path), FdInv'
  PROVE  FilesInv'
<1> DEFINE s == Find(tree, loaded, cwd[p], path)
<1>1. /\ tree' = s.tree /\ loaded' = s.loaded /\ UNCHANGED <<d, inode, desc>>
      /\ cwd' = [cwd EXCEPT ![p] = IF s.ok THEN s.at ELSE @]
  BY DEF sys_chdir, Remember
<1>2. On(tree, s)
  BY Found DEF FilesInv, TreeOK
<1> HIDE DEF s
<1>3. /\ GoodTree(s.tree) /\ tree \subseteq s.tree /\ PathsOf(tree) \subseteq PathsOf(s.tree) /\ <<Dev>> \in s.loaded
      /\ s.at \in PathsOf(s.tree) /\ \E X : Coherent(d, s.tree, inode, X)
  BY <1>2, Remembered
<1>4. DOMAIN cwd' = Procs /\ \A q \in Procs : cwd'[q] \in PathsOf(s.tree)
  BY <1>1, <1>3 DEF FilesInv, TreeOK
<1>5. TreeOK'
  BY <1>1, <1>3, <1>4 DEF TreeOK
<1>6. OpenOK'
  BY <1>1, <1>3, OpenMore DEF FilesInv, OpenOK
<1> QED BY <1>1, <1>3, <1>5, <1>6 DEF FilesInv

LEMMA ForkCoherent ==
  ASSUME FilesInv, NEW p \in Procs, NEW q, process_fork(p, q), FdInv'
  PROVE  FilesInv'
<1>1. UNCHANGED <<d, tree, loaded, inode, desc>> /\ cwd' = [cwd EXCEPT ![q] = cwd[p]]
  BY DEF process_fork
<1>2. TreeOK' /\ OpenOK'
  BY <1>1 DEF FilesInv, TreeOK, OpenOK
<1> QED BY <1>1, <1>2 DEF FilesInv

LEMMA OtherCoherent ==
  ASSUME FilesInv, UNCHANGED <<d, tree, loaded, inode, cwd, desc>>, FdInv'
  PROVE  FilesInv'
BY DEF FilesInv, TreeOK, OpenOK

\* sys_execve: the file is opened, and read from its start.
LEMMA ExecveCoherent ==
  ASSUME FilesInv, NEW p, NEW name, sys_execve(p, name), FdInv'
  PROVE  FilesInv'
<1> DEFINE q1 == [abs |-> FALSE, names |-> <<Bin>>]
           q2 == [abs |-> FALSE, names |-> <<name>>]
           b == Find(tree, loaded, <<>>, q1)
           s == Find(b.tree, b.loaded, b.at, q2)
           n == NodeAt(s.tree, s.at)
           o == Rereads(d, inode, n)
           file == [num |-> n.ino, pos |-> 0, inode |-> ReadInode(d, n.ino)]
           r == FileRead(d, file, 1)
<1>1. /\ tree' = s.tree /\ loaded' = s.loaded /\ UNCHANGED <<cwd, desc>>
      /\ n.type = "file" /\ inode' = o /\ d' = r.vol
  BY DEF sys_execve, Remember, elfLoader_load, Reread, Rereads
<1>2. IsSeq(q1.names) /\ IsSeq(q2.names)
  <2>1. <<Bin>> \in Seq({Bin}) /\ <<name>> \in Seq({name}) /\ q1.names = <<Bin>> /\ q2.names = <<name>>
    OBVIOUS
  <2> HIDE DEF q1, q2
  <2> QED BY <2>1, SeqIn
<1>3. <<>> \in PathsOf(tree)
  BY NodeIs DEF FilesInv, TreeOK, GoodTree, PathsOf
<1> HIDE DEF q1, q2
<1>4. On(tree, b)
  BY <1>2, <1>3, Found
<1> HIDE DEF b
<1>5. On(tree, s)
  <2>1. b.at \in PathsOf(b.tree)
    BY <1>4 DEF On
  <2> QED BY <1>2, <1>4, <2>1, Found
<1> HIDE DEF s
<1>6. /\ GoodTree(s.tree) /\ tree \subseteq s.tree /\ PathsOf(tree) \subseteq PathsOf(s.tree) /\ <<Dev>> \in s.loaded
      /\ n \in s.tree /\ \E X : Coherent(d, s.tree, inode, X)
  BY <1>5, Remembered
<1> HIDE DEF n
<1>7. n.ino # -1
  BY <1>1, <1>6 DEF GoodTree
<1>8. PICK Y : Coherent(d, s.tree, o, Y)
  BY <1>6, CoherentReread
<1>9. DOMAIN inode \subseteq DOMAIN o /\ n.path \in DOMAIN o /\ o[n.path] = ReadInode(d, n.ino)
  BY <1>7, RereadDomain
<1>10. file = [num |-> n.ino, pos |-> 0, inode |-> o[n.path]]
  BY <1>9
<1> HIDE DEF o, file
<1>11. /\ file.num = n.ino /\ file.inode = o[n.path] /\ IsOpenFile(file) /\ Ready(d, file.inode)
       /\ file.num \in DOMAIN d.inode /\ Agree(file.inode, d.inode[file.num])
  BY <1>6, <1>7, <1>8, <1>9, <1>10, Behind
<1>12. OnFile(d, file, r) /\ Agreed(file, r)
  BY <1>11, FileReadOn, FileReadAgree
<1>13. r.file.inode = file.inode
  BY <1>11, FileReadInode
<1> HIDE DEF r
<1>14. \E Z : Coherent(r.vol, s.tree, o, Z)
  BY <1>1, <1>6, <1>8, <1>9, <1>11, <1>12, <1>13, CoherentCall
<1>15. TreeOK' /\ OpenOK'
  BY <1>1, <1>6, <1>9, OpenMore DEF FilesInv, TreeOK, OpenOK
<1> QED BY <1>1, <1>14, <1>15 DEF FilesInv

\* The file behind a number.
LEMMA DescriptorIs ==
  ASSUME FilesInv, NEW p \in Procs, NEW n \in Fds, IsFile(p, n), NEW f, f = fdm_get(p, n),
         NEW file, file = Descriptor(p, n)
  PROVE  /\ f \in DOMAIN desc /\ file = [num |-> desc[f].num, pos |-> desc[f].pos, inode |-> inode[desc[f].path]]
         /\ \E e \in tree : /\ e.path = desc[f].path /\ e.type = "file" /\ e.ino = desc[f].num /\ e.ino # -1
                            /\ e.path \in DOMAIN inode /\ desc[f].pos \in Nat
<1>1. f \in 0..Len(desc) /\ f # 0 /\ Len(desc) \in Nat /\ DOMAIN desc = 1..Len(desc) /\ desc[f].type = "file"
  BY GetType DEF FilesInv, FdInv, DescOK, IsFile
<1>2. f \in DOMAIN desc
  BY <1>1
<1>3. PICK e \in tree : desc[f].path = e.path /\ desc[f].type = e.type /\ desc[f].num = e.ino
  BY <1>2 DEF FilesInv, OpenOK, OpenFile
<1>4. e.ino # -1
  BY <1>1, <1>3 DEF FilesInv, TreeOK, GoodTree
<1>5. desc[f].pos \in Nat /\ e.path \in DOMAIN inode
  BY <1>2, <1>3, <1>4 DEF FilesInv, OpenOK, OpenFile
<1> QED BY <1>1, <1>2, <1>3, <1>4, <1>5 DEF Descriptor

\* The positions of the other open files stay; that of this one is a number.
LEMMA MovedOpen ==
  ASSUME FilesInv, NEW f \in DOMAIN desc, NEW to \in Nat, desc' = [desc EXCEPT ![f].pos = to],
         tree' = tree, DOMAIN inode' = DOMAIN inode
  PROVE  OpenOK'
<1>1. \A g \in DOMAIN desc : OpenFile(tree, inode, desc[g]) /\ FileRecord(desc[g])
  BY DEF FilesInv, OpenOK, FdInv, DescOK
<1>2. DOMAIN desc' = DOMAIN desc /\ \A g \in DOMAIN desc : desc'[g] = IF g = f THEN [desc[f] EXCEPT !.pos = to] ELSE desc[g]
  <2>1. desc = [g \in DOMAIN desc |-> desc[g]]
    <3>1. desc \in Seq(Range(desc))
      BY DEF FilesInv, FdInv, DescOK
    <3> QED BY <3>1, LenProperties
  <2> QED BY <2>1
<1>3. OpenFile(tree, inode', desc'[f])
  <2> DEFINE a == desc[f]
             z == desc'[f]
  <2>1. z = [a EXCEPT !.pos = to] /\ FileRecord(a)
    BY <1>1, <1>2
  <2>2. OpenFile(tree, inode, a)
    BY <1>1
  <2> HIDE DEF a, z
  <2>3. z.path = a.path /\ z.type = a.type /\ z.num = a.num /\ z.pos = to
    BY <2>1 DEF FileRecord
  <2>4. OpenFile(tree, inode', z)
    BY <2>2, <2>3 DEF OpenFile
  <2> QED BY <2>4 DEF z
<1>4. \A g \in DOMAIN desc : g # f => OpenFile(tree, inode', desc'[g])
  BY <1>1, <1>2, OpenMore
<1> QED BY <1>2, <1>3, <1>4 DEF OpenOK

\* A call of the driver on a regular file.
LEMMA TookCoherent ==
  ASSUME FilesInv, NEW p \in Procs, NEW n \in Fds, IsFile(p, n), NEW r, Took(p, n, r), FdInv',
         OnFile(d, Descriptor(p, n), r), Agreed(Descriptor(p, n), r)
  PROVE  FilesInv'
<1> DEFINE f == fdm_get(p, n)
           file == Descriptor(p, n)
<1>1. /\ d' = r.vol /\ desc' = [desc EXCEPT ![f].pos = r.file.pos]
      /\ inode' = [inode EXCEPT ![desc[f].path] = r.file.inode] /\ UNCHANGED <<tree, loaded, cwd>>
  BY DEF Took
<1>2. /\ f \in DOMAIN desc /\ file = [num |-> desc[f].num, pos |-> desc[f].pos, inode |-> inode[desc[f].path]]
      /\ \E e \in tree : /\ e.path = desc[f].path /\ e.type = "file" /\ e.ino = desc[f].num /\ e.ino # -1
                         /\ e.path \in DOMAIN inode /\ desc[f].pos \in Nat
  BY DescriptorIs
<1>3. OnFile(d, file, r) /\ Agreed(file, r)
  OBVIOUS
<1> HIDE DEF f, file
<1>4. PICK e \in tree : /\ e.path = desc[f].path /\ e.type = "file" /\ e.ino = desc[f].num
                        /\ e.path \in DOMAIN inode
  BY <1>2
<1>5. file.num = e.ino /\ file.inode = inode[e.path]
  BY <1>2, <1>4
<1>6. PICK X : Coherent(d, tree, inode, X)
  BY DEF FilesInv
<1> DEFINE o2 == inode'
<1>7. DOMAIN o2 = DOMAIN inode /\ o2[e.path] = r.file.inode /\ \A x \in DOMAIN inode : x # e.path => o2[x] = inode[x]
  BY <1>1, <1>4
<1>8. r.file.pos \in Nat /\ GoodTree(tree)
  BY <1>3 DEF Agreed, FilesInv, TreeOK
<1>9. OpenOK'
  <2>1. DOMAIN inode' = DOMAIN inode
    BY <1>7
  <2> QED BY <1>1, <1>2, <1>8, <2>1, MovedOpen
<1> HIDE DEF o2
<1>10. \E Y : Coherent(r.vol, tree, o2, Y)
  BY <1>3, <1>4, <1>5, <1>6, <1>7, <1>8, CoherentCall
<1>11. TreeOK'
  BY <1>1 DEF FilesInv, TreeOK
<1> QED BY <1>1, <1>9, <1>10, <1>11 DEF FilesInv, o2

LEMMA DescriptorReady ==
  ASSUME FilesInv, NEW p \in Procs, NEW n \in Fds, IsFile(p, n), NEW file, file = Descriptor(p, n)
  PROVE  /\ IsOpenFile(file) /\ Ready(d, file.inode)
         /\ file.num \in DOMAIN d.inode /\ Agree(file.inode, d.inode[file.num])
<1> DEFINE f == fdm_get(p, n)
<1>1. /\ f \in DOMAIN desc /\ file = [num |-> desc[f].num, pos |-> desc[f].pos, inode |-> inode[desc[f].path]]
      /\ \E e \in tree : /\ e.path = desc[f].path /\ e.type = "file" /\ e.ino = desc[f].num /\ e.ino # -1
                         /\ e.path \in DOMAIN inode /\ desc[f].pos \in Nat
  BY DescriptorIs
<1> HIDE DEF f
<1>2. PICK e \in tree : /\ e.path = desc[f].path /\ e.ino = desc[f].num /\ e.ino # -1
                        /\ e.path \in DOMAIN inode /\ desc[f].pos \in Nat
  BY <1>1
<1>3. PICK X : Coherent(d, tree, inode, X)
  BY DEF FilesInv
<1> DEFINE pos == desc[f].pos
<1>4. GoodTree(tree) /\ pos \in Nat /\ file = [num |-> e.ino, pos |-> pos, inode |-> inode[e.path]]
  BY <1>1, <1>2 DEF FilesInv, TreeOK
<1> HIDE DEF pos
<1> QED BY <1>2, <1>3, <1>4, Behind

LEMMA SeekCoherent ==
  ASSUME FilesInv, NEW p \in Procs, NEW n \in Fds, sys_seek(p, n, 0, "SEEK_SET"), FdInv'
  PROVE  FilesInv'
<1> DEFINE f == fdm_get(p, n)
           file == Descriptor(p, n)
           g == FileSeek(file, 0, "SEEK_SET")
           r == [vol |-> d, file |-> g]
<1>1. IsFile(p, n) /\ Took(p, n, r)
  BY DEF sys_seek
<1>2. IsOpenFile(file) /\ Ready(d, file.inode)
  BY <1>1, DescriptorReady
<1>3. /\ f \in DOMAIN desc /\ file = [num |-> desc[f].num, pos |-> desc[f].pos, inode |-> inode[desc[f].path]]
      /\ \E e \in tree : /\ e.path = desc[f].path /\ e.type = "file" /\ e.ino = desc[f].num /\ e.ino # -1
                         /\ e.path \in DOMAIN inode /\ desc[f].pos \in Nat
  BY <1>1, DescriptorIs
<1>4. g.inode = file.inode /\ g.pos \in Nat
  BY <1>2, FileSeekAgree
<1>5. /\ d' = d /\ desc' = [desc EXCEPT ![f].pos = g.pos]
      /\ inode' = [inode EXCEPT ![desc[f].path] = g.inode] /\ UNCHANGED <<tree, loaded, cwd>>
  BY <1>1 DEF Took
<1> HIDE DEF f, g, file
<1>6. g.inode = inode[desc[f].path]
  BY <1>3, <1>4
<1>7. DOMAIN inode' = DOMAIN inode /\ \A x \in DOMAIN inode : inode'[x] = inode[x]
  BY <1>5, <1>6
<1>8. OpenOK'
  BY <1>3, <1>4, <1>5, <1>7, MovedOpen
<1>9. PICK X : Coherent(d, tree, inode, X)
  BY DEF FilesInv
<1>10. Coherent(d', tree', inode', X)
  BY <1>5, <1>7, <1>9 DEF Coherent
<1>11. TreeOK'
  BY <1>5 DEF FilesInv, TreeOK
<1> QED BY <1>8, <1>10, <1>11 DEF FilesInv

-----------------------------------------------------------------------------
LEMMA FilesInvStep == ASSUME FilesInv, [FNext]_fvars PROVE FilesInv'
<1>1. FdInv'
  BY FilesStep DEF FilesInv
<1>2. CASE UNCHANGED fvars
  BY <1>1, <1>2, OtherCoherent DEF fvars
<1>3. CASE FNext
  <2>1. PICK p \in live : Call(p)
    BY <1>3 DEF FNext
  <2>2. p \in Procs
    BY DEF FilesInv, FdInv
  <2>3. /\ UsedFds \subseteq Fds /\ Counts \subseteq Nat
        /\ \A path \in OpenPaths \cup DirPaths : path.names \in Seq(Names)
    BY FilesAssumption DEF Fds
  <2>4. \A path \in OpenPaths \cup DirPaths : IsSeq(path.names)
    BY <2>3, SeqIn
  <2>5. ASSUME NEW path \in OpenPaths, sys_open(p, path) PROVE FilesInv'
    BY <1>1, <2>2, <2>4, <2>5, OpenCoherent
  <2>6. ASSUME NEW path \in DirPaths, sys_chdir(p, path) PROVE FilesInv'
    BY <1>1, <2>2, <2>4, <2>6, ChdirCoherent
  <2>7. ASSUME NEW name, sys_execve(p, name) PROVE FilesInv'
    BY <1>1, <2>7, ExecveCoherent
  <2>8. ASSUME NEW q, process_fork(p, q) PROVE FilesInv'
    BY <1>1, <2>2, <2>8, ForkCoherent
  <2>9. ASSUME NEW n, NEW m, sys_close(p, n) \/ sys_dup2(p, n, m) PROVE FilesInv'
    BY <1>1, <2>9, OtherCoherent DEF sys_close, sys_dup2
  <2>10. ASSUME NEW n \in UsedFds, NEW c \in Counts, sys_write(p, n, c) \/ sys_input(p, n, c) PROVE FilesInv'
    <3> DEFINE file == Descriptor(p, n)
    <3>1. n \in Fds /\ c \in Nat /\ IsFile(p, n)
      BY <2>3, <2>10 DEF sys_write, sys_input
    <3>2. /\ IsOpenFile(file) /\ Ready(d, file.inode)
          /\ file.num \in DOMAIN d.inode /\ Agree(file.inode, d.inode[file.num])
      BY <2>2, <3>1, DescriptorReady
    <3>3. Took(p, n, FileWrite(d, file, c, file.num)) \/ Took(p, n, FileRead(d, file, c))
      BY <2>10 DEF sys_write, sys_input
    <3> HIDE DEF file
    <3>4. /\ OnFile(d, file, FileWrite(d, file, c, file.num)) /\ Agreed(file, FileWrite(d, file, c, file.num))
          /\ OnFile(d, file, FileRead(d, file, c)) /\ Agreed(file, FileRead(d, file, c))
      BY <3>1, <3>2, FileReadOn, FileReadAgree, FileWriteOn, FileWriteAgree
    <3>5. ASSUME NEW r, Took(p, n, r), OnFile(d, file, r), Agreed(file, r) PROVE FilesInv'
      BY <1>1, <2>2, <3>1, <3>5, TookCoherent DEF file
    <3> QED BY <3>3, <3>4, <3>5
  <2>11. ASSUME NEW n \in UsedFds, sys_seek(p, n, 0, "SEEK_SET") PROVE FilesInv'
    BY <1>1, <2>2, <2>3, <2>11, SeekCoherent
  <2> QED BY <2>1, <2>5, <2>6, <2>7, <2>8, <2>9, <2>10, <2>11 DEF Call
<1> QED BY <1>2, <1>3

LEMMA BootTree == GoodTree(AtBoot) /\ PathsOf(AtBoot) = {<<>>, <<Dev>>, <<Dev, Vcon>>}
<1> DEFINE a == Node(<<>>, "dir", ROOT_INODE)
           b == Node(<<Dev>>, "dir", -1)
           c == Node(<<Dev, Vcon>>, "chrdev", -1)
           t == {a, b, c}
<1>1. AtBoot = t
  BY DEF AtBoot
<1>2. /\ a.path = <<>> /\ a.type = "dir" /\ a.ino = ROOT_INODE /\ a = Node(a.path, a.type, a.ino)
      /\ b.path = <<Dev>> /\ b.type = "dir" /\ b.ino = -1 /\ b = Node(b.path, b.type, b.ino)
      /\ c.path = <<Dev, Vcon>> /\ c.type = "chrdev" /\ c.ino = -1 /\ c = Node(c.path, c.type, c.ino)
  BY DEF Node
<1> HIDE DEF a, b, c
<1>3. PathsOf(t) = {<<>>, <<Dev>>, <<Dev, Vcon>>}
  BY <1>2 DEF PathsOf
<1>4. GoodTree(t)
  <2>1. \A n \in t : n = Node(n.path, n.type, n.ino) /\ IsSeq(n.path)
    <3>1. IsSeq(<<>>) /\ IsSeq(<<Dev>>) /\ IsSeq(<<Dev, Vcon>>)
      <4>1. <<>> \in Seq({Dev}) /\ <<Dev>> \in Seq({Dev}) /\ <<Dev, Vcon>> \in Seq({Dev, Vcon})
        OBVIOUS
      <4> QED BY <4>1, SeqIn
    <3> QED BY <1>2, <3>1
  <2>2. <<>> # <<Dev>> /\ <<>> # <<Dev, Vcon>> /\ <<Dev>> # <<Dev, Vcon>>
    OBVIOUS
  <2>3. \A n, m \in t : n.path = m.path => n = m
    BY <1>2, <2>2
  <2>4. ROOT_INODE # -1
    BY DEF ROOT_INODE
  <2>5. \A n, m \in t : n.ino = m.ino /\ n.ino # -1 => n = m
    BY <1>2, <2>4
  <2>6. ROOT_INODE \in Disk.inodes_used /\ ReadInode(Disk, ROOT_INODE).mode = "dir"
    BY DiskAssumption DEF DiskDirs, IsDir
  <2>7. \A n \in t : IF n.ino = -1 THEN n.type # "file" /\ (n.type = "dir" => n.path = <<Dev>>)
                     ELSE n.ino \in Disk.inodes_used /\ n.type = ReadInode(Disk, n.ino).mode
    BY <1>2, <2>4, <2>6
  <2>8. \A n \in t : n.ino \in {-1, ROOT_INODE}
    BY <1>2
  <2>9. Front(<<Dev>>) = <<>> /\ Front(<<Dev, Vcon>>) = <<Dev>>
    <3>1. IsSeq(<<>>) /\ IsSeq(<<Dev>>)
      <4>1. <<>> \in Seq({Dev}) /\ <<Dev>> \in Seq({Dev})
        OBVIOUS
      <4> QED BY <4>1, SeqIn
    <3>2. <<Dev>> = Append(<<>>, Dev) /\ <<Dev, Vcon>> = Append(<<Dev>>, Vcon)
      OBVIOUS
    <3> QED BY <3>1, <3>2, AppendFront
  <2>10. \A n \in t : n.path = <<>> \/ Front(n.path) \in PathsOf(t)
    BY <1>2, <1>3, <2>9
  <2>11. Node(<<>>, "dir", ROOT_INODE) \in t
    BY DEF a
  <2> HIDE DEF t
  <2> QED BY <2>1, <2>3, <2>5, <2>7, <2>8, <2>10, <2>11 DEF GoodTree
<1> QED BY <1>1, <1>3, <1>4

LEMMA FilesInvInit == ASSUME FInit PROVE FilesInv
<1>1. /\ d = Disk /\ tree = AtBoot /\ loaded = {<<Dev>>} /\ inode = <<>> /\ cwd = [p \in Procs |-> <<>>]
      /\ desc = <<>>
  BY DEF FInit
<1>2. TreeOK
  BY <1>1, BootTree DEF TreeOK
<1>3. OpenOK
  BY <1>1 DEF OpenOK
<1>4. Coherent(d, tree, inode, Disk.inode)
  <2>1. /\ IsVolume(Disk) /\ DOMAIN Disk.inode = Inode
        /\ WellKept(Disk.used, Disk.data, Disk.inodes_used, Disk.inode)
    BY DiskAssumption
  <2>2. \A i \in Disk.inodes_used : Agree(Disk.inode[i], Disk.inode[i])
    BY <2>1, AgreeSelf DEF WellKept
  <2>3. DOMAIN inode = {}
    BY <1>1
  <2> QED BY <1>1, <2>1, <2>2, <2>3 DEF Coherent
<1> QED BY <1>2, <1>3, <1>4, FilesInit DEF FilesInv

\* The inode objects that open files share say of size and blocks what the disk
\* says (InodeCoherent), whatever is opened, read, written and sought by any
\* processes through any numbers in between: an open, which reads the inode again,
\* takes nothing away from those that have the file open. For any volume that is
\* sound at boot, of any size, and any number of processes and open files.
THEOREM FilesCoherent == FSpec => []InodeCoherent
<1>1. FilesInv => InodeCoherent
  <2> SUFFICES ASSUME FilesInv, NEW x \in DOMAIN inode, NodeAt(tree, x).ino # -1
               PROVE  LET n == NodeAt(tree, x).ino IN
                      /\ inode[x].size = ReadInode(d, n).size
                      /\ \A k \in 0..(CountBlocksNeeded(inode[x].size) - 1) :
                           BlockAt(d, inode[x], k) = BlockAt(d, ReadInode(d, n), k)
    BY DEF InodeCoherent
  <2> DEFINE e == NodeAt(tree, x)
             i == e.ino
             y == inode[x]
             z == d.inode[i]
  <2>1. PICK X : Coherent(d, tree, inode, X)
    BY DEF FilesInv
  <2>2. e \in tree /\ e.path = x
    <3>1. x \in PathsOf(tree)
      BY <2>1 DEF Coherent
    <3> QED BY <3>1, NodeAtIn
  <2>3. i # -1
    OBVIOUS
  <2> HIDE DEF e
  <2>4. i \in Disk.inodes_used
    BY <2>2, <2>3 DEF FilesInv, TreeOK, GoodTree
  <2>5. X[i] = y /\ Agree(X[i], z) /\ Fit(d.used, d.data, X[i])
    BY <2>1, <2>2, <2>3, <2>4 DEF Coherent, WellKept
  <2> HIDE DEF y, z
  <2>6. Agree(y, z) /\ y.size \in Nat /\ z.size = y.size
    BY <2>5 DEF Fit, IsInode, Agree
  <2>7. \A k \in 0..(CountBlocksNeeded(y.size) - 1) : At(d.data, z.block, k) = At(d.data, y.block, k)
    BY <2>6, AgreeAt
  <2>8. \A a, k : BlockAt(d, a, k) = At(d.data, a.block, k)
    BY DEF BlockAt, At, Deref, Look
  <2>9. \A k \in 0..(CountBlocksNeeded(y.size) - 1) : BlockAt(d, y, k) = BlockAt(d, z, k)
    BY <2>7, <2>8
  <2> QED BY <2>6, <2>9 DEF e, y, z, ReadInode
<1>2. FInit => FilesInv
  BY FilesInvInit
<1>3. FilesInv /\ [FNext]_fvars => FilesInv'
  BY FilesInvStep
<1> QED BY <1>1, <1>2, <1>3, PTL DEF FSpec

\* The entries in memory are sound (TreeOK): vfs_find_entry, which reads a
\* directory when a lookup first passes it, makes no path and no inode two entries,
\* and a working directory stays in memory.
THEOREM FilesTreeSound == FSpec => []TreeOK
<1>1. FilesInv => TreeOK
  BY DEF FilesInv
<1>2. FInit => FilesInv
  BY FilesInvInit
<1>3. FilesInv /\ [FNext]_fvars => FilesInv'
  BY FilesInvStep
<1> QED BY <1>1, <1>2, <1>3, PTL DEF FSpec

\* What programs write to their files reaches no directory: each lists what it
\* listed at boot, however many blocks files take, and also when they find none.
DirectoriesKept == \A i \in DiskDirs : Listing(d, i) = Listing(Disk, i)
THEOREM FilesLeaveDirectories == FSpec => []DirectoriesKept
<1>1. FilesInv => DirectoriesKept
  BY DEF FilesInv, Coherent, DirectoriesKept
<1>2. FInit => FilesInv
  BY FilesInvInit
<1>3. FilesInv /\ [FNext]_fvars => FilesInv'
  BY FilesInvStep
<1> QED BY <1>1, <1>2, <1>3, PTL DEF FSpec

-----------------------------------------------------------------------------
(* Reading directories lazily: Whole has all entries of the volume, and a walk *)
(* in memory keeps step with one in Whole.                                     *)

\* A tree that a reader of directories can have come to: only the entries of the
\* boot are not on the disk, and no entry is known by a name that lookups treat
\* otherwise.
Proper(t) ==
  /\ GoodTree(t) /\ AtBoot \subseteq t
  /\ \A n \in t : n.ino = -1 => n \in AtBoot
  /\ \A n \in t : n.path = <<>> \/ n.path[Len(n.path)] \notin {Dot, DotDot}
ToRead(t) == {n \in t : n.type = "dir" /\ n.ino # -1}
Closed(t) == \A n \in ToRead(t) : \A c \in Kids(n) : c.path \in PathsOf(t)
Unread(t) == {c \in UNION {Children(Disk, n) : n \in ToRead(t)} : c.path \notin PathsOf(t)}

LEMMA BootProper == Proper(AtBoot)
<1>1. GoodTree(AtBoot)
  BY BootTree
<1>2. \A n \in AtBoot : n.path \in {<<>>, <<Dev>>, <<Dev, Vcon>>}
  BY BootTree DEF PathsOf
<1>3. {Dev, Vcon} \cap {Dot, DotDot} = {}
  BY FilesAssumption
<1> HIDE DEF AtBoot
<1>4. /\ Len(<<Dev>>) = 1 /\ <<Dev>>[1] = Dev /\ Len(<<Dev, Vcon>>) = 2 /\ <<Dev, Vcon>>[2] = Vcon
  OBVIOUS
<1>5. \A n \in AtBoot : n.path = <<>> \/ n.path[Len(n.path)] \notin {Dot, DotDot}
  BY <1>2, <1>3, <1>4
<1> QED BY <1>1, <1>5 DEF Proper

LEMMA ToReadIs ==
  ASSUME NEW t, GoodTree(t), NEW n \in ToRead(t)
  PROVE  n \in t /\ n.ino \in DiskDirs /\ IsSeq(n.path)
BY DEF ToRead, GoodTree, DiskDirs, IsDir

LEMMA DeeperProper == ASSUME NEW t, Proper(t) PROVE Proper(Deeper(t))
<1> DEFINE new == Unread(t)
           u == t \cup new
<1>1. Deeper(t) = u
  BY DEF Deeper, Unread, ToRead
<1>2. ASSUME NEW c \in new
      PROVE  /\ c.path \notin PathsOf(t) /\ FromOne(t, c) /\ c.ino # -1
             /\ c.path[Len(c.path)] \notin {Dot, DotDot}
  <2>1. PICK n \in ToRead(t) : c \in Kids(n)
    BY DEF Unread, Kids
  <2>2. n \in t /\ n.ino \in DiskDirs /\ IsSeq(n.path)
    BY ToReadIs DEF Proper
  <2>3. c.ino # -1
    BY <2>1, <2>2, KidIs
  <2>4. PICK e \in Named(Disk, n.ino) : c = Node(Append(n.path, NameRead(e)), e.type, e.inode)
    BY <2>1, <2>2, KidIs
  <2>5. NameRead(e) \notin {Dot, DotDot}
    <3>1. e.name \notin {Dot, DotDot}
      BY DEF Named
    <3>2. Garbled \notin {Dot, DotDot}
      BY FilesAssumption
    <3> QED BY <3>1, <3>2 DEF NameRead
  <2> DEFINE x == NameRead(e)
  <2>6. c.path = Append(n.path, x)
    BY <2>4 DEF Node
  <2> HIDE DEF x
  <2>7. c.path[Len(c.path)] = x
    BY <2>2, <2>6, AppendFront
  <2> QED BY <2>1, <2>2, <2>3, <2>5, <2>7 DEF Unread, FromOne, x
<1> HIDE DEF new
<1>3. GoodTree(u)
  BY <1>2, Populated DEF Proper
<1>4. /\ \A n \in u : n.ino = -1 => n \in AtBoot
      /\ \A n \in u : n.path = <<>> \/ n.path[Len(n.path)] \notin {Dot, DotDot}
  BY <1>2 DEF Proper
<1>5. AtBoot \subseteq u
  BY DEF Proper
<1> QED BY <1>1, <1>3, <1>4, <1>5 DEF Proper

\* Every inode is in a tree once: reading on finds a new one or finds nothing.
Inos(t) == {n.ino : n \in {x \in t : x.ino # -1}}
LEMMA InosOf ==
  ASSUME NEW t, Proper(t)
  PROVE  /\ Inos(t) \subseteq Disk.inodes_used /\ IsFiniteSet(Disk.inodes_used) /\ IsFiniteSet(Inos(t))
         /\ Cardinality(Disk.inodes_used) \in Nat /\ Cardinality(Inos(t)) \in Nat
         /\ Cardinality(Inos(t)) <= Cardinality(Disk.inodes_used) /\ ROOT_INODE \in Inos(t)
<1>1. Inos(t) \subseteq Disk.inodes_used
  BY DEF Inos, Proper, GoodTree
<1>2. IsFiniteSet(Disk.inodes_used)
  <2>1. GROUPS * INODES_PER_GROUP \in Nat
    <3>1. GROUPS \in Nat /\ INODES_PER_GROUP \in Nat
      BY Numbers, Ext2Assumption
    <3> QED BY <3>1
  <2>2. IsFiniteSet(Inode)
    BY <2>1, FS_Interval DEF Inode
  <2> QED BY <2>2, FS_Subset, DiskAssumption
<1>3. ROOT_INODE \in Inos(t)
  <2> DEFINE r == Node(<<>>, "dir", ROOT_INODE)
  <2>1. r \in t /\ r.ino = ROOT_INODE /\ r.ino # -1
    BY NodeIs DEF Proper, GoodTree, ROOT_INODE
  <2> HIDE DEF r
  <2> QED BY <2>1 DEF Inos
<1> QED BY <1>1, <1>2, <1>3, FS_Subset, FS_CardinalityType

LEMMA ReadOn ==
  ASSUME NEW t, Proper(t)
  PROVE  IF Closed(t) THEN Deeper(t) = t ELSE Cardinality(Inos(Deeper(t))) > Cardinality(Inos(t))
<1> DEFINE u == Deeper(t)
<1>1. u = t \cup Unread(t) /\ Proper(u)
  BY DeeperProper DEF Deeper, Unread, ToRead
<1>2. CASE Closed(t)
  <2>1. Unread(t) = {}
    BY <1>2 DEF Closed, Unread, Kids
  <2> QED BY <1>1, <1>2, <2>1
<1>3. CASE ~Closed(t)
  <2>1. PICK c \in Unread(t) : TRUE
    BY <1>3 DEF Closed, Unread, Kids
  <2>2. c \in u /\ c.path \notin PathsOf(t) /\ c \notin t
    BY <1>1, <2>1 DEF Unread, PathsOf
  <2> HIDE DEF u
  <2>3. c.ino # -1
    BY <1>1, <2>2 DEF Proper
  <2>4. c.ino \notin Inos(t)
    BY <1>1, <2>2, <2>3 DEF Inos, Proper, GoodTree
  <2>5. Inos(t) \cup {c.ino} \subseteq Inos(u)
    BY <1>1, <2>2, <2>3 DEF Inos
  <2>6. IsFiniteSet(Inos(t)) /\ IsFiniteSet(Inos(u)) /\ Cardinality(Inos(t)) \in Nat /\ Cardinality(Inos(u)) \in Nat
    BY <1>1, InosOf
  <2>7. Cardinality(Inos(t) \cup {c.ino}) = Cardinality(Inos(t)) + 1
    BY <2>4, <2>6, FS_AddElement
  <2>8. Cardinality(Inos(t) \cup {c.ino}) <= Cardinality(Inos(u))
    BY <2>5, <2>6, FS_Subset
  <2>9. Cardinality(Inos(u)) > Cardinality(Inos(t))
    BY <2>6, <2>7, <2>8
  <2> QED BY <1>3, <2>9 DEF u
<1> QED BY <1>2, <1>3

\* Levels exists, and each is a tree; the last has everything.
Level(n, f) == f = [k \in 0..n |-> IF k = 0 THEN AtBoot ELSE Deeper(f[k - 1])]
LEMMA LevelIs == ASSUME NEW n \in Nat PROVE \E f : Level(n, f)
<1> DEFINE Some(m) == \E f : Level(m, f)
           Bad == {m \in Nat : ~Some(m)}
<1>1. Some(0)
  <2> DEFINE f == [k \in 0..0 |-> AtBoot]
  <2>1. \A k \in 0..0 : k = 0
    OBVIOUS
  <2>2. f = [k \in 0..0 |-> IF k = 0 THEN AtBoot ELSE Deeper(f[k - 1])]
    BY <2>1
  <2> QED BY <2>2 DEF Level
<1>2. ASSUME NEW m \in Nat, Some(m) PROVE Some(m + 1)
  <2>1. PICK f : f = [k \in 0..m |-> IF k = 0 THEN AtBoot ELSE Deeper(f[k - 1])]
    BY <1>2 DEF Level
  <2> DEFINE h == [k \in 0..(m + 1) |-> IF k = 0 THEN AtBoot ELSE Deeper(f[k - 1])]
  <2>2. \A k \in 0..m : f[k] = IF k = 0 THEN AtBoot ELSE Deeper(f[k - 1])
    BY <2>1, Zenon
  <2>3. ASSUME NEW k \in 0..(m + 1), k # 0 PROVE h[k - 1] = f[k - 1]
    <3> DEFINE j == k - 1
    <3>1. j \in 0..m /\ j \in 0..(m + 1)
      BY <2>3
    <3> HIDE DEF j
    <3>2. h[j] = f[j]
      BY <2>2, <3>1
    <3> QED BY <3>2 DEF j
  <2>4. h = [k \in 0..(m + 1) |-> IF k = 0 THEN AtBoot ELSE Deeper(h[k - 1])]
    <3>1. \A k \in 0..(m + 1) : (IF k = 0 THEN AtBoot ELSE Deeper(f[k - 1])) = IF k = 0 THEN AtBoot ELSE Deeper(h[k - 1])
      BY <2>3
    <3> QED BY <3>1
  <2> QED BY <2>4 DEF Level
<1>3. Bad = {}
  <2> SUFFICES ASSUME Bad # {} PROVE FALSE
    OBVIOUS
  <2> DEFINE k == Min(Bad)
  <2>1. k \in Bad /\ \A x \in Bad : k <= x
    BY MinIs
  <2> HIDE DEF k, Some
  <2>2. k \in Nat /\ ~Some(k) /\ k # 0
    BY <1>1, <2>1
  <2>3. k - 1 \in Nat /\ Some(k - 1)
    BY <2>1, <2>2
  <2> QED BY <1>2, <2>2, <2>3
<1> QED BY <1>3

LEMMA WholeIs == Proper(Whole) /\ Closed(Whole)
<1> DEFINE n == Cardinality(Disk.inodes_used)
<1>1. n \in Nat /\ \A t : Proper(t) => Cardinality(Inos(t)) \in Nat /\ Cardinality(Inos(t)) <= n /\ Cardinality(Inos(t)) # 0
  <2>1. \A t : Proper(t) => /\ n \in Nat /\ Cardinality(Inos(t)) \in Nat /\ Cardinality(Inos(t)) <= n
                            /\ IsFiniteSet(Inos(t)) /\ ROOT_INODE \in Inos(t)
    BY InosOf
  <2> HIDE DEF n
  <2> QED BY <2>1, BootProper, FS_EmptySet
<1>2. Level(n, Levels)
  <2> DEFINE P(f) == f = [k \in 0..n |-> IF k = 0 THEN AtBoot ELSE Deeper(f[k - 1])]
  <2>1. Levels = CHOOSE f : P(f)
    BY DEF Levels
  <2>2. \E f : P(f)
    BY <1>1, LevelIs DEF Level
  <2> HIDE DEF P
  <2>3. P(Levels)
    BY <2>1, <2>2
  <2> QED BY <2>3 DEF P, Level
<1>3. Whole = Levels[n]
  BY DEF Whole
<1> HIDE DEF n
<1>4. \A k \in 0..n : Levels[k] = IF k = 0 THEN AtBoot ELSE Deeper(Levels[k - 1])
  BY <1>2, Zenon DEF Level
<1> DEFINE Has(k) == /\ Proper(Levels[k])
                     /\ Closed(Levels[k]) \/ Cardinality(Inos(Levels[k])) >= k + 1
           Bad == {k \in 0..n : ~Has(k)}
<1>5. Has(0)
  <2>1. Levels[0] = AtBoot
    BY <1>1, <1>4
  <2> QED BY <1>1, <2>1, BootProper
<1>6. ASSUME NEW k \in Nat, k < n, Has(k) PROVE Has(k + 1)
  <2> DEFINE t == Levels[k]
             u == Levels[k + 1]
  <2>1. u = Deeper(t)
    <3>1. k + 1 \in 0..n /\ k + 1 # 0 /\ (k + 1) - 1 = k
      BY <1>1, <1>6
    <3> QED BY <1>4, <3>1
  <2> HIDE DEF t, u
  <2>2. Proper(t) /\ (Closed(t) \/ Cardinality(Inos(t)) >= k + 1)
    BY <1>6 DEF t
  <2>3. Proper(u)
    BY <2>1, <2>2, DeeperProper
  <2>4. IF Closed(t) THEN u = t ELSE Cardinality(Inos(u)) > Cardinality(Inos(t))
    BY <2>1, <2>2, ReadOn
  <2>5. Closed(u) \/ Cardinality(Inos(u)) >= (k + 1) + 1
    BY <1>1, <2>2, <2>3, <2>4
  <2> QED BY <2>3, <2>5 DEF u
<1>7. Bad = {}
  <2> SUFFICES ASSUME Bad # {} PROVE FALSE
    OBVIOUS
  <2> DEFINE k == Min(Bad)
  <2>0. Bad \in SUBSET Nat
    BY <1>1
  <2>1. k \in Bad /\ \A x \in Bad : k <= x
    BY <2>0, MinIs
  <2> HIDE DEF k, Has
  <2>2. k \in Nat /\ k <= n /\ ~Has(k) /\ k # 0
    BY <1>1, <1>5, <2>1
  <2>3. k - 1 \in Nat /\ k - 1 < n /\ Has(k - 1)
    BY <1>1, <2>1, <2>2
  <2>4. Has((k - 1) + 1)
    BY <1>6, <2>3
  <2> QED BY <2>2, <2>4
<1>8. Has(n)
  <2> HIDE DEF Has
  <2> QED BY <1>1, <1>7
<1>9. Proper(Levels[n]) /\ (Closed(Levels[n]) \/ Cardinality(Inos(Levels[n])) >= n + 1)
  BY <1>8
<1> HIDE DEF Has, Bad
<1>10. Closed(Levels[n])
  BY <1>1, <1>9
<1> QED BY <1>3, <1>9, <1>10

\* A tree read in part has only entries of Whole; it has all entries of the
\* directories that are marked as read, and no other path is.
Lazy(t, l) ==
  /\ AtBoot \subseteq t /\ t \subseteq Whole /\ l \subseteq PathsOf(t)
  /\ \A n \in ToRead(t) : n.path \in l => \A c \in Kids(n) : c.path \in PathsOf(t)

\* The same point of a walk in Whole, where all has been read.
AsWhole(s) == [tree |-> Whole, loaded |-> PathsOf(Whole), at |-> s.at, ok |-> s.ok]

\* An entry that the boot did not make was found in the directory above it.
LEMMA Above ==
  ASSUME NEW m \in Whole, m \notin AtBoot
  PROVE  \E n \in Whole : n \in ToRead(Whole) /\ n.ino \in DiskDirs /\ IsSeq(n.path) /\ m \in Kids(n) /\ Front(m.path) = n.path
<1>1. Proper(Whole) /\ GoodTree(Whole)
  BY WholeIs DEF Proper
<1> HIDE DEF Whole
<1>2. m.ino # -1
  BY <1>1 DEF Proper
<1>3. m.ino # ROOT_INODE
  <2> DEFINE r == Node(<<>>, "dir", ROOT_INODE)
  <2>1. r \in AtBoot /\ r \in Whole /\ r.ino = ROOT_INODE
    BY <1>1, NodeIs DEF AtBoot, Proper
  <2> HIDE DEF r
  <2> QED BY <1>1, <1>2, <2>1 DEF GoodTree
<1>4. PICK n \in Whole : n.ino \in DiskDirs /\ m \in Kids(n)
  BY <1>1, <1>2, <1>3 DEF GoodTree
<1>5. IsSeq(n.path)
  BY <1>1 DEF GoodTree
<1>6. Front(m.path) = n.path
  BY <1>4, <1>5, KidIs
<1>7. n.ino # -1
  <2>1. n.ino \in Disk.inodes_used /\ Disk.inodes_used \subseteq Inode
    BY <1>4, DiskAssumption DEF DiskDirs
  <2>2. -1 \notin Inode
    BY DEF Inode
  <2> QED BY <2>1, <2>2
<1>8. n.type = "dir"
  BY <1>1, <1>4, <1>7 DEF GoodTree, DiskDirs, IsDir
<1> QED BY <1>4, <1>5, <1>6, <1>7, <1>8 DEF ToRead

\* Where an entry of a directory that has been read leads, is in memory.
LEMMA ReadAll ==
  ASSUME NEW t, NEW l, Lazy(t, l), NEW at \in l, NEW m \in Whole, m.path # <<>>, Front(m.path) = at
  PROVE  m.path \in PathsOf(t)
<1>1. AtBoot \subseteq t /\ t \subseteq Whole /\ at \in PathsOf(t)
  BY DEF Lazy
<1>2. CASE m \in AtBoot
  BY <1>1, <1>2 DEF PathsOf
<1>3. CASE m \notin AtBoot
  <2>1. PICK n \in ToRead(Whole) : m \in Kids(n) /\ Front(m.path) = n.path
    BY <1>3, Above
  <2>2. PICK x \in t : x.path = at
    BY <1>1 DEF PathsOf
  <2>3. x = n
    <3>1. GoodTree(Whole)
      BY WholeIs DEF Proper
    <3> HIDE DEF Whole
    <3> QED BY <1>1, <2>1, <2>2, <3>1 DEF GoodTree, ToRead
  <2>4. n \in ToRead(t)
    BY <2>1, <2>2, <2>3 DEF ToRead
  <2> QED BY <2>1, <2>2, <2>3, <2>4 DEF Lazy
<1> QED BY <1>2, <1>3

\* Reading one more directory, all of it.
LEMMA ReadOne ==
  ASSUME NEW t, NEW l, Lazy(t, l), NEW n \in t, n.path \notin l,
         NEW new, new = IF n \in ToRead(t) THEN {c \in Kids(n) : c.path \notin PathsOf(t)} ELSE {}
  PROVE  Lazy(t \cup new, l \cup {n.path})
<1> DEFINE u == t \cup new
<1>1. AtBoot \subseteq t /\ t \subseteq Whole /\ l \subseteq PathsOf(t) /\ PathsOf(t) \subseteq PathsOf(u)
  BY DEF Lazy, PathsOf
<1>2. GoodTree(Whole) /\ Closed(Whole) /\ n \in Whole
  BY <1>1, WholeIs DEF Proper
<1>3. ASSUME NEW c \in new PROVE c \in Whole
  <2>1. c \in Kids(n) /\ c.path \notin PathsOf(t) /\ n \in ToRead(t)
    OBVIOUS
  <2>2. n \in ToRead(Whole) /\ n.ino \in DiskDirs /\ IsSeq(n.path)
    BY <1>2, <2>1, ToReadIs DEF ToRead
  <2>3. c.path \in PathsOf(Whole)
    BY <1>2, <2>1, <2>2 DEF Closed
  <2>4. PICK m \in Whole : m.path = c.path
    BY <2>3 DEF PathsOf
  <2>5. m \notin AtBoot
    BY <1>1, <2>1, <2>4 DEF PathsOf
  <2>6. PICK x \in Whole : x.ino \in DiskDirs /\ IsSeq(x.path) /\ m \in Kids(x) /\ Front(m.path) = x.path
    BY <2>5, Above
  <2>7. Front(c.path) = n.path
    BY <2>1, <2>2, KidIs
  <2> HIDE DEF Whole
  <2>8. x = n
    BY <1>2, <2>4, <2>6, <2>7 DEF GoodTree
  <2>9. m = c
    BY <2>1, <2>2, <2>4, <2>6, <2>8, KidsApart
  <2> QED BY <2>9
<1>4. \A c \in new : c.path \notin l /\ c.path # n.path
  BY <1>1 DEF PathsOf
<1>5. ASSUME NEW x \in ToRead(u), x.path \in l \cup {n.path}, NEW c \in Kids(x) PROVE c.path \in PathsOf(u)
  <2>1. x \in t
    BY <1>4, <1>5 DEF ToRead
  <2>2. x \in ToRead(t)
    BY <1>5, <2>1 DEF ToRead
  <2>3. CASE x.path \in l
    BY <1>1, <1>5, <2>2, <2>3 DEF Lazy
  <2>4. CASE x.path = n.path
    <3> HIDE DEF Whole, u
    <3>1. x = n
      BY <1>1, <1>2, <2>1, <2>4 DEF GoodTree
    <3>2. c \in t \cup new \/ c.path \in PathsOf(t)
      BY <1>5, <2>2, <3>1
    <3> QED BY <1>1, <3>2 DEF PathsOf, u
  <2> QED BY <1>5, <2>3, <2>4
<1>6. l \cup {n.path} \subseteq PathsOf(u)
  BY <1>1 DEF PathsOf
<1>7. AtBoot \subseteq u /\ u \subseteq Whole
  BY <1>1, <1>3
<1> HIDE DEF u
<1>8. Lazy(u, l \cup {n.path})
  BY <1>5, <1>6, <1>7 DEF Lazy
<1> QED BY <1>8 DEF u

\* Points of a walk, one field changed.
LEMMA PointWith ==
  ASSUME NEW tr, NEW l, NEW at, NEW ok, NEW s, s = [tree |-> tr, loaded |-> l, at |-> at, ok |-> ok]
  PROVE  /\ s.tree = tr /\ s.loaded = l /\ s.at = at /\ s.ok = ok
         /\ \A x : [s EXCEPT !.at = x] = [tree |-> tr, loaded |-> l, at |-> x, ok |-> ok]
         /\ \A x : [s EXCEPT !.ok = x] = [tree |-> tr, loaded |-> l, at |-> at, ok |-> x]
         /\ \A x : [s EXCEPT !.loaded = x] = [tree |-> tr, loaded |-> x, at |-> at, ok |-> ok]
         /\ \A x, y : [s EXCEPT !.loaded = x, !.tree = y] = [tree |-> y, loaded |-> x, at |-> at, ok |-> ok]
<1>1. \A x : [s EXCEPT !.loaded = x] = [tree |-> tr, loaded |-> x, at |-> at, ok |-> ok]
  OBVIOUS
<1>2. ASSUME NEW x, NEW y
      PROVE  [s EXCEPT !.loaded = x, !.tree = y] = [tree |-> y, loaded |-> x, at |-> at, ok |-> ok]
  <2> DEFINE q == [s EXCEPT !.loaded = x]
             r == [s EXCEPT !.loaded = x, !.tree = y]
  <2>1. r = [q EXCEPT !.tree = y] /\ q = [tree |-> tr, loaded |-> x, at |-> at, ok |-> ok]
    OBVIOUS
  <2> HIDE DEF r, q
  <2>2. r = [tree |-> y, loaded |-> x, at |-> at, ok |-> ok]
    BY <2>1
  <2> QED BY <2>2 DEF r
<1>3. \A x : [s EXCEPT !.at = x] = [tree |-> tr, loaded |-> l, at |-> x, ok |-> ok]
  OBVIOUS
<1>4. \A x : [s EXCEPT !.ok = x] = [tree |-> tr, loaded |-> l, at |-> at, ok |-> x]
  OBVIOUS
<1>5. s.tree = tr /\ s.loaded = l /\ s.at = at /\ s.ok = ok
  OBVIOUS
<1> QED BY <1>1, <1>2, <1>3, <1>4, <1>5

LEMMA LoadLazy ==
  ASSUME SameNames, NEW s, On({}, s), Lazy(s.tree, s.loaded)
  PROVE  \E tr, l : /\ Load(s) = [tree |-> tr, loaded |-> l, at |-> s.at, ok |-> s.ok]
                    /\ Lazy(tr, l) /\ s.at \in l
<1>1. /\ s = [tree |-> s.tree, loaded |-> s.loaded, at |-> s.at, ok |-> s.ok]
      /\ GoodTree(s.tree) /\ s.at \in PathsOf(s.tree) /\ <<Dev>> \in s.loaded
  BY DEF On
<1>2. CASE s.at \in s.loaded
  BY <1>1, <1>2 DEF Load
<1>3. CASE s.at \notin s.loaded
  <2> DEFINE n == NodeAt(s.tree, s.at)
             l == s.loaded \cup {s.at}
             new == {c \in Children(d, n) : c.path \notin PathsOf(s.tree)}
             tr == IF n.type # "dir" THEN s.tree ELSE s.tree \cup new
             add == IF n \in ToRead(s.tree) THEN {c \in Kids(n) : c.path \notin PathsOf(s.tree)} ELSE {}
  <2>1. Load(s) = [s EXCEPT !.loaded = l, !.tree = tr]
    BY <1>3 DEF Load
  <2>2. n \in s.tree /\ n.path = s.at
    BY <1>1, NodeAtIn
  <2> HIDE DEF n
  <2>3. tr = s.tree \cup add
    <3>1. CASE n.type # "dir"
      BY <3>1 DEF ToRead
    <3>2. CASE n.type = "dir"
      <4>1. n.ino # -1
        BY <1>1, <1>3, <2>2, <3>2 DEF GoodTree
      <4>2. n \in ToRead(s.tree) /\ n.ino \in DiskDirs
        BY <1>1, <2>2, <3>2, <4>1 DEF ToRead, GoodTree, DiskDirs, IsDir
      <4>3. Children(d, n) = Kids(n)
        BY <4>2 DEF Children, Kids, SameNames
      <4> QED BY <3>2, <4>2, <4>3
    <3> QED BY <3>1, <3>2
  <2> HIDE DEF tr, add
  <2>4. Lazy(s.tree \cup add, s.loaded \cup {n.path})
    BY <1>3, <2>2, ReadOne DEF add
  <2> HIDE DEF l
  <2>5. Load(s) = [tree |-> tr, loaded |-> l, at |-> s.at, ok |-> s.ok]
    BY <1>1, <2>1, PointWith
  <2> QED BY <2>2, <2>3, <2>4, <2>5 DEF l
<1> QED BY <1>2, <1>3

LEMMA FollowAsWhole ==
  ASSUME SameNames, NEW s, On({}, s), Lazy(s.tree, s.loaded), NEW name, NEW r, r = Follow(s, name)
  PROVE  Lazy(r.tree, r.loaded) /\ Follow(AsWhole(s), name) = AsWhole(r)
<1> DEFINE z == AsWhole(s)
           W == Whole
           P == PathsOf(Whole)
<1>1. /\ s = [tree |-> s.tree, loaded |-> s.loaded, at |-> s.at, ok |-> s.ok]
      /\ GoodTree(s.tree) /\ s.at \in PathsOf(s.tree) /\ s.tree \subseteq W
  BY DEF On, Lazy
<1>2. z = [tree |-> W, loaded |-> P, at |-> s.at, ok |-> s.ok]
  BY DEF AsWhole
<1>3. \A x : AsWhole(x) = [tree |-> W, loaded |-> P, at |-> x.at, ok |-> x.ok]
  BY DEF AsWhole
<1>4. s.at \in P
  BY <1>1 DEF PathsOf
<1>5. P = PathsOf(W)
  OBVIOUS
<1> HIDE DEF z, W, P
<1>6. z.tree = W /\ z.loaded = P /\ z.at = s.at /\ z.ok = s.ok
  BY <1>2, PointWith
<1>7. CASE ~s.ok \/ name = Dot
  <2>1. r = s /\ Follow(z, name) = z
    BY <1>6, <1>7 DEF Follow
  <2> QED BY <2>1 DEF z
<1>8. CASE ~(~s.ok \/ name = Dot) /\ name = DotDot
  <2> DEFINE at == IF s.at = <<>> THEN s.at ELSE Front(s.at)
  <2>1. r = [s EXCEPT !.at = at] /\ Follow(z, name) = [z EXCEPT !.at = at]
    BY <1>6, <1>8 DEF Follow
  <2> HIDE DEF at
  <2>2. r = [tree |-> s.tree, loaded |-> s.loaded, at |-> at, ok |-> s.ok]
    BY <1>1, <2>1, PointWith
  <2>3. Follow(z, name) = [tree |-> W, loaded |-> P, at |-> at, ok |-> s.ok]
    BY <1>2, <2>1, PointWith
  <2>4. r.tree = s.tree /\ r.loaded = s.loaded /\ r.at = at /\ r.ok = s.ok
    BY <2>2
  <2> QED BY <1>3, <2>3, <2>4 DEF z
<1>9. CASE ~(~s.ok \/ name = Dot) /\ name # DotDot
  <2> DEFINE to == Append(s.at, name)
             no == FALSE
  <2>1. PICK tr, l : /\ Load(s) = [tree |-> tr, loaded |-> l, at |-> s.at, ok |-> s.ok]
                     /\ Lazy(tr, l) /\ s.at \in l
    BY LoadLazy
  <2> DEFINE y == Load(s)
  <2>2. r = Step(y, to)
    BY <1>9 DEF Follow
  <2>3. Load(z) = z
    BY <1>4, <1>6 DEF Load
  <2>4. Follow(z, name) = Step(z, to)
    BY <1>6, <1>9, <2>3 DEF Follow
  <2>5. to \in PathsOf(tr) <=> to \in PathsOf(W)
    <3>1. IsSeq(s.at)
      BY <1>1 DEF GoodTree, PathsOf
    <3>2. to # <<>> /\ Front(to) = s.at
      BY <3>1, AppendFront
    <3> HIDE DEF to
    <3>3. ASSUME to \in PathsOf(tr) PROVE to \in PathsOf(W)
      BY <2>1, <3>3 DEF Lazy, PathsOf, W
    <3>4. ASSUME to \in PathsOf(W) PROVE to \in PathsOf(tr)
      <4>1. PICK m \in W : m.path = to
        BY <3>4 DEF PathsOf
      <4> QED BY <2>1, <3>2, <4>1, ReadAll DEF W
    <3> QED BY <3>3, <3>4
  <2> HIDE DEF y, to
  <2>6. y = [tree |-> tr, loaded |-> l, at |-> s.at, ok |-> s.ok]
    BY <2>1 DEF y
  <2>7. y.tree = tr
    BY <2>6, PointWith
  <2>8. CASE to \in PathsOf(W)
    <3>1. r = [y EXCEPT !.at = to] /\ Follow(z, name) = [z EXCEPT !.at = to]
      BY <1>6, <2>2, <2>4, <2>5, <2>7, <2>8 DEF Step
    <3>2. r = [tree |-> tr, loaded |-> l, at |-> to, ok |-> s.ok]
      BY <2>6, <3>1, PointWith
    <3>3. Follow(z, name) = [tree |-> W, loaded |-> P, at |-> to, ok |-> s.ok]
      BY <1>2, <3>1, PointWith
    <3>4. r.tree = tr /\ r.loaded = l /\ r.at = to /\ r.ok = s.ok
      BY <3>2
    <3> QED BY <1>3, <2>1, <3>3, <3>4 DEF z
  <2>9. CASE to \notin PathsOf(W)
    <3>1. r = [y EXCEPT !.ok = no] /\ Follow(z, name) = [z EXCEPT !.ok = no]
      BY <1>6, <2>2, <2>4, <2>5, <2>7, <2>9 DEF Step
    <3> HIDE DEF no
    <3>2. r = [tree |-> tr, loaded |-> l, at |-> s.at, ok |-> no]
      BY <2>6, <3>1, PointWith
    <3>3. Follow(z, name) = [tree |-> W, loaded |-> P, at |-> s.at, ok |-> no]
      BY <1>2, <3>1, PointWith
    <3>4. r.tree = tr /\ r.loaded = l /\ r.at = s.at /\ r.ok = no
      BY <3>2
    <3> QED BY <1>3, <2>1, <3>3, <3>4 DEF z
  <2> QED BY <2>8, <2>9
<1> QED BY <1>7, <1>8, <1>9

LEMMA WalkAsWhole ==
  ASSUME SameNames, NEW base, On({}, base), Lazy(base.tree, base.loaded), NEW q, NEW n \in Nat,
         NEW f, Walk(base, q, n, f), NEW g, Walk(AsWhole(base), q, n, g)
  PROVE  Lazy(f[1..n].tree, f[1..n].loaded) /\ g[1..n] = AsWhole(f[1..n])
<1>1. \A s \in SUBSET (1..n) : f[s] = Walked(base, q, f, s)
  BY Zenon DEF Walk
<1>2. \A s \in SUBSET (1..n) : g[s] = Walked(AsWhole(base), q, g, s)
  BY Zenon DEF Walk
<1> DEFINE Fine(x) == On({}, x) /\ Lazy(x.tree, x.loaded)
           Has(m) == \A s \in SUBSET (1..m) : Fine(f[s]) /\ g[s] = AsWhole(f[s])
           Bad == {m \in 0..n : ~Has(m)}
<1>3. Has(0)
  <2>1. \A s \in SUBSET (1..0) : s = {} /\ s \in SUBSET (1..n)
    OBVIOUS
  <2>2. f[{}] = base /\ g[{}] = AsWhole(base)
    BY <1>1, <1>2 DEF Walked
  <2> QED BY <2>1, <2>2
<1>4. ASSUME NEW m \in Nat, m < n, Has(m) PROVE Has(m + 1)
  <2> SUFFICES ASSUME NEW s \in SUBSET (1..(m + 1)) PROVE Fine(f[s]) /\ g[s] = AsWhole(f[s])
    OBVIOUS
  <2>1. s \in SUBSET (1..n)
    BY <1>4
  <2>2. CASE s = {}
    BY <1>1, <1>2, <2>1, <2>2 DEF Walked
  <2>3. CASE s # {}
    <3> DEFINE r == s \ {Max(s)}
               x == q[Max(s)]
    <3>1. r \in SUBSET (1..m)
      BY <2>3, LastTurn
    <3>2. f[s] = Follow(f[r], x) /\ g[s] = Follow(g[r], x)
      BY <1>1, <1>2, <2>1, <2>3 DEF Walked
    <3> HIDE DEF r, x
    <3>3. Fine(f[r]) /\ g[r] = AsWhole(f[r])
      BY <1>4, <3>1
    <3> DEFINE y == f[r]
               w == f[s]
    <3>4. w = Follow(y, x) /\ On({}, y) /\ Lazy(y.tree, y.loaded)
      BY <3>2, <3>3
    <3> HIDE DEF y, w
    <3>5. On({}, w)
      BY <3>4, FollowOn
    <3>6. Lazy(w.tree, w.loaded) /\ Follow(AsWhole(y), x) = AsWhole(w)
      BY <3>4, FollowAsWhole
    <3> QED BY <3>2, <3>3, <3>5, <3>6 DEF y, w
  <2> QED BY <2>2, <2>3
<1>5. Bad = {}
  <2> SUFFICES ASSUME Bad # {} PROVE FALSE
    OBVIOUS
  <2> DEFINE k == Min(Bad)
  <2>0. Bad \in SUBSET Nat
    OBVIOUS
  <2>1. k \in Bad /\ \A x \in Bad : k <= x
    BY <2>0, MinIs
  <2> HIDE DEF k, Has
  <2>2. k \in Nat /\ k <= n /\ ~Has(k) /\ k # 0
    BY <1>3, <2>1
  <2>3. k - 1 \in Nat /\ k - 1 < n /\ Has(k - 1)
    BY <2>1, <2>2
  <2>4. Has((k - 1) + 1)
    BY <1>4, <2>3
  <2> QED BY <2>2, <2>4
<1>6. Has(n)
  <2> HIDE DEF Has
  <2> QED BY <1>5
<1> QED BY <1>6

\* A lookup leads where it leads in Whole, and what it leaves is read lazily too.
LEMMA FindAsWhole ==
  ASSUME SameNames, NEW t, GoodTree(t), NEW l, <<Dev>> \in l, Lazy(t, l), NEW start \in PathsOf(t),
         NEW path, IsSeq(path.names), NEW s, s = Find(t, l, start, path)
  PROVE  Lazy(s.tree, s.loaded) /\ Find(Whole, PathsOf(Whole), start, path) = AsWhole(s)
<1> DEFINE n == Len(path.names)
           base == From(t, l, start, path)
<1>1. PICK f : Walk(base, path.names, n, f) /\ s = f[1..n]
  BY LookupIs
<1>2. PICK g : /\ Walk(From(Whole, PathsOf(Whole), start, path), path.names, n, g)
               /\ Find(Whole, PathsOf(Whole), start, path) = g[1..n]
  BY LookupIs
<1>3. n \in Nat /\ On(t, base)
  BY SeqHas, FromOn
<1>4. On({}, base)
  BY <1>3 DEF On
<1>5. base.tree = t /\ base.loaded = l
  BY DEF From
<1>6. From(Whole, PathsOf(Whole), start, path) = AsWhole(base)
  <2> DEFINE at == IF path.abs THEN <<>> ELSE start
             ok == path.abs \/ path.names # <<>>
             W == Whole
             P == PathsOf(Whole)
  <2>1. base = [tree |-> t, loaded |-> l, at |-> at, ok |-> ok]
    BY DEF From
  <2>2. From(W, P, start, path) = [tree |-> W, loaded |-> P, at |-> at, ok |-> ok]
    BY DEF From
  <2> HIDE DEF at, ok, base, W, P
  <2>3. base.at = at /\ base.ok = ok
    BY <2>1, PointWith
  <2>4. AsWhole(base) = [tree |-> W, loaded |-> P, at |-> at, ok |-> ok]
    BY <2>3 DEF AsWhole, W, P
  <2> QED BY <2>2, <2>4 DEF W, P
<1> HIDE DEF base
<1>7. Lazy(f[1..n].tree, f[1..n].loaded) /\ g[1..n] = AsWhole(f[1..n])
  <2> HIDE DEF n
  <2>1. Lazy(base.tree, base.loaded) /\ Walk(AsWhole(base), path.names, n, g)
    BY <1>2, <1>5, <1>6
  <2> QED BY <1>1, <1>3, <1>4, <2>1, WalkAsWhole
<1> QED BY <1>1, <1>2, <1>7

\* The beginnings of a path.
LEMMA Beginnings ==
  ASSUME NEW q, IsSeq(q)
  PROVE  /\ SubSeq(q, 1, 0) = <<>> /\ SubSeq(q, 1, Len(q)) = q
         /\ \A k \in 1..Len(q) : LET b == SubSeq(q, 1, k) a == SubSeq(q, 1, k - 1)
                                 IN  /\ IsSeq(b) /\ Len(b) = k /\ b # <<>> /\ b[k] = q[k]
                                     /\ Front(b) = a /\ Append(a, q[k]) = b
<1> DEFINE S == Range(q)
           n == Len(q)
<1>1. q \in Seq(S) /\ n \in Nat /\ DOMAIN q = 1..n /\ \A i \in 1..n : q[i] \in S
  BY SeqHas DEF IsSeq, Range
<1> HIDE DEF S, n
<1>2. ASSUME NEW k \in 0..n
      PROVE  /\ SubSeq(q, 1, k) \in Seq(S) /\ Len(SubSeq(q, 1, k)) = k
             /\ \A i \in 1..k : SubSeq(q, 1, k)[i] = q[i]
  <2>1. \A i \in 1..k : q[i] \in S
    BY <1>1
  <2>2. /\ SubSeq(q, 1, k) \in Seq(S) /\ Len(SubSeq(q, 1, k)) = IF 1 <= k THEN k - 1 + 1 ELSE 0
        /\ \A i \in 1..(k - 1 + 1) : SubSeq(q, 1, k)[i] = q[1 + i - 1]
    BY <1>1, <2>1, SubSeqProperties
  <2>3. \A i \in 1..k : i \in 1..(k - 1 + 1) /\ 1 + i - 1 = i
    BY <1>1
  <2> QED BY <1>1, <2>2, <2>3
<1>3. SubSeq(q, 1, 0) = <<>>
  <2>1. SubSeq(q, 1, 0) \in Seq(S) /\ Len(SubSeq(q, 1, 0)) = 0
    BY <1>1, <1>2
  <2> QED BY <2>1, EmptySeq
<1>4. SubSeq(q, 1, n) = q
  <2>1. /\ SubSeq(q, 1, n) \in Seq(S) /\ Len(SubSeq(q, 1, n)) = n
        /\ \A i \in 1..n : SubSeq(q, 1, n)[i] = q[i]
    BY <1>1, <1>2
  <2> QED BY <1>1, <2>1, SeqEqual DEF n
<1>5. ASSUME NEW k \in 1..n, NEW b, b = SubSeq(q, 1, k), NEW a, a = SubSeq(q, 1, k - 1)
      PROVE  /\ IsSeq(b) /\ Len(b) = k /\ b # <<>> /\ b[k] = q[k] /\ Front(b) = a /\ Append(a, q[k]) = b
  <2>1. k \in Nat /\ k - 1 \in 0..n /\ k \in 0..n /\ k \in 1..k
    BY <1>1
  <2>2. b \in Seq(S) /\ Len(b) = k /\ \A i \in 1..k : b[i] = q[i]
    BY <1>2, <1>5, <2>1
  <2>3. a \in Seq(S) /\ Len(a) = k - 1 /\ \A i \in 1..(k - 1) : a[i] = q[i]
    BY <1>2, <1>5, <2>1
  <2> DEFINE x == q[k]
             c == Append(a, x)
  <2>4. x \in S
    BY <1>1
  <2> HIDE DEF x
  <2>5. c \in Seq(S) /\ Len(c) = k /\ (\A i \in 1..(k - 1) : c[i] = a[i]) /\ c[k] = x
    BY <2>1, <2>3, <2>4, AppendProperties
  <2>6. IsSeq(a)
    BY <2>3, SeqIn
  <2>7. Front(c) = a
    BY <2>6, AppendFront
  <2> HIDE DEF c
  <2>8. \A i \in 1..k : c[i] = b[i]
    <3> SUFFICES ASSUME NEW i \in 1..k PROVE c[i] = b[i]
      OBVIOUS
    <3>1. i \in 1..(k - 1) \/ i = k
      BY <2>1
    <3> QED BY <2>2, <2>3, <2>5, <3>1 DEF x
  <2>9. c = b
    BY <2>2, <2>5, <2>8, SeqEqual
  <2>10. b # <<>>
    BY <2>1, <2>2, EmptySeq
  <2>11. IsSeq(b)
    BY <2>2, SeqIn
  <2> QED BY <2>1, <2>2, <2>7, <2>9, <2>10, <2>11 DEF c, x
<1>6. \A k \in 1..n : LET b == SubSeq(q, 1, k) a == SubSeq(q, 1, k - 1)
                      IN  /\ IsSeq(b) /\ Len(b) = k /\ b # <<>> /\ b[k] = q[k]
                          /\ Front(b) = a /\ Append(a, q[k]) = b
  BY <1>5
<1> QED BY <1>3, <1>4, <1>6 DEF n

\* Every beginning of the path of an entry is the path of one, by a name that
\* lookups look up.
LEMMA PathDown ==
  ASSUME NEW q \in PathsOf(Whole)
  PROVE  /\ IsSeq(q)
         /\ \A k \in 0..Len(q) : SubSeq(q, 1, k) \in PathsOf(Whole)
         /\ \A k \in 1..Len(q) : q[k] \notin {Dot, DotDot}
<1> DEFINE W == Whole
           n == Len(q)
<1>1. Proper(W)
  BY WholeIs
<1> HIDE DEF W
<1>2. q \in PathsOf(W)
  BY DEF W
<1>3. IsSeq(q)
  BY <1>1, <1>2 DEF Proper, GoodTree, PathsOf
<1>4. n \in Nat
  BY <1>3, SeqHas
<1>5. SubSeq(q, 1, n) = q
  BY <1>3, Beginnings
<1> DEFINE b(k) == SubSeq(q, 1, k)
<1>6. \A k \in 1..n : IsSeq(b(k)) /\ Len(b(k)) = k /\ b(k) # <<>> /\ b(k)[k] = q[k] /\ Front(b(k)) = b(k - 1)
  BY <1>3, Beginnings
<1>7. b(n) \in PathsOf(W)
  BY <1>2, <1>5
<1>8. \A x \in PathsOf(W) : x # <<>> => Front(x) \in PathsOf(W) /\ x[Len(x)] \notin {Dot, DotDot}
  BY <1>1 DEF Proper, GoodTree, PathsOf
<1> HIDE DEF b, n
<1> DEFINE Has(j) == b(n - j) \in PathsOf(W)
           Bad == {j \in 0..n : ~Has(j)}
<1>9. Bad = {}
  <2> SUFFICES ASSUME Bad # {} PROVE FALSE
    OBVIOUS
  <2> DEFINE j == Min(Bad)
  <2>0. Bad \in SUBSET Nat
    BY <1>4
  <2>1. j \in Bad /\ \A x \in Bad : j <= x
    BY <2>0, MinIs
  <2> HIDE DEF j
  <2>2. j \in Nat /\ j <= n /\ ~Has(j)
    BY <1>4, <2>1
  <2>3. j # 0
    <3>1. n - 0 = n
      BY <1>4
    <3> QED BY <1>7, <2>2, <3>1
  <2> DEFINE i == j - 1
             k == n - i
  <2>4. i \in 0..n /\ ~(j <= i) /\ k \in 1..n /\ k - 1 = n - j
    BY <1>4, <2>2, <2>3
  <2>5. Has(i)
    <3> HIDE DEF i, Has
    <3> QED BY <2>1, <2>4
  <2> HIDE DEF i
  <2>6. b(k) \in PathsOf(W)
    BY <2>5
  <2> HIDE DEF k
  <2>7. Front(b(k)) \in PathsOf(W) /\ Front(b(k)) = b(k - 1)
    BY <1>6, <1>8, <2>4, <2>6
  <2> QED BY <2>2, <2>4, <2>7
<1>10. ASSUME NEW k \in 0..n PROVE b(k) \in PathsOf(W)
  <2> DEFINE j == n - k
  <2>1. j \in 0..n /\ n - j = k
    BY <1>4
  <2>2. Has(j)
    <3> HIDE DEF j, Has
    <3> QED BY <1>9, <2>1
  <2> QED BY <2>1, <2>2
<1>11. ASSUME NEW k \in 1..n PROVE q[k] \notin {Dot, DotDot}
  <2>1. k \in 0..n
    BY <1>4
  <2> QED BY <1>6, <1>8, <1>10, <2>1
<1> QED BY <1>3, <1>10, <1>11 DEF W, b, n

\* The path that vfs_path makes of an entry leads back to it.
LEMMA PathBack ==
  ASSUME NEW q \in PathsOf(Whole), NEW start
  PROVE  LET z == Find(Whole, PathsOf(Whole), start, PathTo(q)) IN z.ok = TRUE /\ z.at = q
<1> DEFINE W == Whole
           P == PathsOf(Whole)
           n == Len(q)
           yes == TRUE
           z(at) == [tree |-> W, loaded |-> P, at |-> at, ok |-> yes]
           b(k) == SubSeq(q, 1, k)
           path == PathTo(q)
<1>1. /\ IsSeq(q) /\ \A k \in 0..n : b(k) \in P
      /\ \A k \in 1..n : q[k] \notin {Dot, DotDot}
  BY PathDown
<1>2. n \in Nat
  BY <1>1, SeqHas
<1>3. b(0) = <<>> /\ b(n) = q /\ \A k \in 1..n : Append(b(k - 1), q[k]) = b(k)
  BY <1>1, Beginnings
<1>4. path.names = q /\ path.abs
  BY DEF PathTo
<1>5. From(W, P, start, path) = z(<<>>)
  BY <1>4 DEF From
<1>6. PICK f : Walk(z(<<>>), q, n, f) /\ Find(W, P, start, path) = f[1..n]
  <2> HIDE DEF path, z, W, P
  <2> QED BY <1>1, <1>4, <1>5, LookupIs
<1>7. P = PathsOf(W)
  OBVIOUS
<1> HIDE DEF W, P, n, b, path
<1>8. \A s \in SUBSET (1..n) : f[s] = Walked(z(<<>>), q, f, s)
  BY <1>6, Zenon DEF Walk
<1>9. ASSUME NEW at \in P, NEW name, name \notin {Dot, DotDot}, Append(at, name) \in P
      PROVE  Follow(z(at), name) = z(Append(at, name))
  <2> DEFINE y == z(at)
             to == Append(at, name)
  <2> HIDE DEF yes, to
  <2>1. y.tree = W /\ y.loaded = P /\ y.at = at /\ y.ok = yes
    OBVIOUS
  <2>2. [y EXCEPT !.at = to] = z(to)
    OBVIOUS
  <2> HIDE DEF y
  <2>3. y.ok
    BY <2>1 DEF yes
  <2>4. Load(y) = y
    BY <2>1 DEF Load
  <2>5. Follow(y, name) = Step(y, to)
    BY <1>9, <2>1, <2>3, <2>4 DEF Follow, to
  <2> HIDE DEF z
  <2>6. to \in PathsOf(y.tree)
    BY <1>7, <1>9, <2>1 DEF to
  <2>7. Step(y, to) = [y EXCEPT !.at = to]
    BY <2>6 DEF Step
  <2> QED BY <2>2, <2>5, <2>7 DEF y, to
<1> HIDE DEF z
<1> DEFINE Has(k) == f[1..k] = z(b(k))
           Bad == {k \in 0..n : ~Has(k)}
<1>10. Has(0)
  <2>1. 1..0 = {} /\ {} \in SUBSET (1..n)
    OBVIOUS
  <2> QED BY <1>3, <1>8, <2>1 DEF Walked
<1>11. ASSUME NEW k \in 1..n, Has(k - 1) PROVE Has(k)
  <2> DEFINE s == 1..k
             r == 1..(k - 1)
  <2>1. /\ s \in SUBSET (1..n) /\ s # {} /\ s \in SUBSET (1..((k - 1) + 1))
        /\ k - 1 \in Nat /\ k - 1 \in 0..n /\ k \in 0..n /\ k \in s
    BY <1>2
  <2>2. Max(s) = k /\ s \ {Max(s)} = r
    <3>1. Max(s) \in s /\ s \ {Max(s)} \in SUBSET (1..(k - 1))
      <4> HIDE DEF s
      <4> QED BY <2>1, LastTurn
    <3>2. k \notin 1..(k - 1)
      BY <2>1
    <3>3. Max(s) = k
      BY <2>1, <3>1, <3>2
    <3>4. s \ {k} = r
      BY <2>1
    <3> QED BY <3>3, <3>4
  <2> HIDE DEF s, r
  <2>3. f[s] = Follow(f[r], q[k])
    BY <1>8, <2>1, <2>2 DEF Walked
  <2>4. f[r] = z(b(k - 1))
    BY <1>11 DEF r
  <2>5. b(k - 1) \in P /\ b(k) \in P /\ Append(b(k - 1), q[k]) = b(k)
    BY <1>1, <1>3, <2>1
  <2>6. Follow(z(b(k - 1)), q[k]) = z(b(k))
    BY <1>1, <1>9, <2>5
  <2> QED BY <2>3, <2>4, <2>6 DEF s
<1>12. Bad = {}
  <2> SUFFICES ASSUME Bad # {} PROVE FALSE
    OBVIOUS
  <2> DEFINE k == Min(Bad)
  <2>0. Bad \in SUBSET Nat
    BY <1>2
  <2>1. k \in Bad /\ \A x \in Bad : k <= x
    BY <2>0, MinIs
  <2> HIDE DEF k, Has
  <2>2. k \in Nat /\ k <= n /\ ~Has(k) /\ k # 0
    BY <1>2, <1>10, <2>1
  <2>3. k - 1 \in 0..n /\ k \in 1..n /\ ~(k <= k - 1)
    BY <1>2, <2>2
  <2>4. Has(k - 1)
    BY <2>1, <2>3
  <2> QED BY <1>11, <2>2, <2>3, <2>4
<1>13. f[1..n] = z(q)
  <2>1. Has(n)
    <3> HIDE DEF Has
    <3> QED BY <1>2, <1>12
  <2> QED BY <1>3, <2>1
<1>14. z(q).ok = yes /\ z(q).at = q
  BY DEF z
<1> QED BY <1>6, <1>13, <1>14 DEF W, P, path

LookupInv == FilesInv /\ Lazy(tree, loaded)

LEMMA FoundLazy ==
  ASSUME LookupInv, NEW b, On(tree, b), Lazy(b.tree, b.loaded), NEW start \in PathsOf(b.tree),
         NEW path, IsSeq(path.names), NEW s, s = Find(b.tree, b.loaded, start, path)
  PROVE  On(tree, s) /\ Lazy(s.tree, s.loaded) /\ Find(Whole, PathsOf(Whole), start, path) = AsWhole(s)
<1>1. SameNames
  <2>1. PICK X : Coherent(d, tree, inode, X)
    BY DEF LookupInv, FilesInv
  <2> QED BY <2>1 DEF Coherent, SameNames, Named
<1>2. GoodTree(b.tree) /\ <<Dev>> \in b.loaded
  BY DEF On
<1>3. On(tree, s)
  BY Found DEF LookupInv
<1> QED BY <1>1, <1>2, <1>3, FindAsWhole

\* The memory is a point of a walk to begin with.
Here == [tree |-> tree, loaded |-> loaded, at |-> <<>>, ok |-> TRUE]
LEMMA HereOn ==
  ASSUME LookupInv
  PROVE  On(tree, Here) /\ Here.tree = tree /\ Here.loaded = loaded /\ <<>> \in PathsOf(tree)
<1>1. <<>> \in PathsOf(tree) /\ GoodTree(tree) /\ <<Dev>> \in loaded
  BY NodeIs DEF LookupInv, FilesInv, TreeOK, GoodTree, PathsOf
<1>2. Here.tree = tree /\ Here.loaded = loaded
  BY DEF Here
<1>3. Here = [tree |-> Here.tree, loaded |-> Here.loaded, at |-> Here.at, ok |-> Here.ok] /\ Here.at = <<>>
  BY DEF Here
<1> QED BY <1>1, <1>2, <1>3 DEF On

LEMMA LookupStep == ASSUME LookupInv, [FNext]_fvars PROVE LookupInv'
<1>1. FilesInv'
  BY FilesInvStep DEF LookupInv
<1>2. CASE UNCHANGED <<tree, loaded>>
  BY <1>1, <1>2 DEF LookupInv
<1>3. On(tree, Here) /\ Here.tree = tree /\ Here.loaded = loaded /\ <<>> \in PathsOf(tree)
  BY HereOn
<1>4. ASSUME NEW s, Lazy(s.tree, s.loaded), Remember(s) PROVE LookupInv'
  BY <1>1, <1>4 DEF LookupInv, Remember
<1>5. CASE FNext
  <2>1. PICK p \in live : Call(p)
    BY <1>5 DEF FNext
  <2>2. p \in Procs /\ cwd[p] \in PathsOf(tree)
    BY DEF LookupInv, FilesInv, FdInv, TreeOK
  <2>3. \A path \in OpenPaths \cup DirPaths : IsSeq(path.names)
    <3>1. \A path \in OpenPaths \cup DirPaths : path.names \in Seq(Names)
      BY FilesAssumption
    <3> QED BY <3>1, SeqIn
  <2>4. ASSUME NEW path \in OpenPaths \cup DirPaths, sys_open(p, path) \/ sys_chdir(p, path) PROVE LookupInv'
    <3> DEFINE s == Find(tree, loaded, cwd[p], path)
    <3>1. Remember(s)
      BY <2>4 DEF sys_open, sys_chdir
    <3>2. Lazy(s.tree, s.loaded)
      BY <1>3, <2>2, <2>3, FoundLazy DEF LookupInv
    <3> HIDE DEF s
    <3> QED BY <1>4, <3>1, <3>2
  <2>5. ASSUME NEW name, sys_execve(p, name) PROVE LookupInv'
    <3> DEFINE q1 == [abs |-> FALSE, names |-> <<Bin>>]
               q2 == [abs |-> FALSE, names |-> <<name>>]
               b == Find(tree, loaded, <<>>, q1)
               s == Find(b.tree, b.loaded, b.at, q2)
    <3>1. Remember(s)
      BY <2>5 DEF sys_execve
    <3>2. IsSeq(q1.names) /\ IsSeq(q2.names)
      <4>1. <<Bin>> \in Seq({Bin}) /\ <<name>> \in Seq({name}) /\ q1.names = <<Bin>> /\ q2.names = <<name>>
        OBVIOUS
      <4> HIDE DEF q1, q2
      <4> QED BY <4>1, SeqIn
    <3> HIDE DEF q1, q2
    <3>3. On(tree, b) /\ Lazy(b.tree, b.loaded)
      BY <1>3, <3>2, FoundLazy DEF LookupInv
    <3> HIDE DEF b
    <3>4. b.at \in PathsOf(b.tree)
      BY <3>3 DEF On
    <3>5. Lazy(s.tree, s.loaded)
      BY <3>2, <3>3, <3>4, FoundLazy
    <3> HIDE DEF s
    <3> QED BY <1>4, <3>1, <3>5
  <2>6. ASSUME NEW n, NEW r, Took(p, n, r) PROVE LookupInv'
    BY <1>2, <2>6 DEF Took
  <2>7. ASSUME NEW n, NEW c, sys_write(p, n, c) \/ sys_input(p, n, c) \/ sys_seek(p, n, 0, "SEEK_SET")
        PROVE  LookupInv'
    BY <2>6, <2>7 DEF sys_write, sys_input, sys_seek
  <2>8. ASSUME NEW n, NEW m, sys_close(p, n) \/ sys_dup2(p, n, m) \/ process_fork(p, n) PROVE LookupInv'
    BY <1>2, <2>8 DEF sys_close, sys_dup2, process_fork
  <2> QED BY <2>1, <2>4, <2>5, <2>7, <2>8 DEF Call
<1> QED BY <1>2, <1>5 DEF fvars

LEMMA LookupInit == ASSUME FInit PROVE LookupInv
<1>1. tree = AtBoot /\ loaded = {<<Dev>>} /\ FilesInv
  BY FilesInvInit DEF FInit
<1>2. AtBoot \subseteq Whole
  BY WholeIs DEF Proper
<1>3. {<<Dev>>} \subseteq PathsOf(AtBoot)
  BY BootTree
<1>4. ASSUME NEW n \in ToRead(AtBoot), n.path = <<Dev>> PROVE FALSE
  <2> DEFINE a == Node(<<>>, "dir", ROOT_INODE)
             b == Node(<<Dev>>, "dir", -1)
             c == Node(<<Dev, Vcon>>, "chrdev", -1)
  <2>1. a.path = <<>> /\ b.ino = -1 /\ c.ino = -1 /\ <<>> # <<Dev>>
    BY DEF Node
  <2>2. n \in {a, b, c} /\ n.ino # -1
    BY DEF ToRead, AtBoot
  <2> HIDE DEF a, b, c
  <2> QED BY <1>4, <2>1, <2>2
<1>5. Lazy(AtBoot, {<<Dev>>})
  <2> HIDE DEF AtBoot, Whole
  <2> QED BY <1>2, <1>3, <1>4 DEF Lazy
<1> QED BY <1>1, <1>5 DEF LookupInv

\* Reading directories when a lookup first passes them cannot be noticed
\* (LookupsAgree): from the working directory of any process, every path leads where
\* it leads when all directories of the volume, however deep, have been read before,
\* or fails as it fails there; and the path getcwd returns leads back to the directory.
THEOREM FilesLookups == FSpec => []LookupsAgree
<1>1. LookupInv => LookupsAgree
  <2> SUFFICES ASSUME LookupInv, NEW p \in live
               PROVE  /\ \A path \in OpenPaths \cup DirPaths :
                           Lead(Find(tree, loaded, cwd[p], path)) = Lead(Find(Whole, PathsOf(Whole), cwd[p], path))
                      /\ Lead(Find(tree, loaded, cwd[p], PathTo(cwd[p]))) = <<TRUE, cwd[p]>>
    BY DEF LookupsAgree
  <2>1. On(tree, Here) /\ Here.tree = tree /\ Here.loaded = loaded /\ cwd[p] \in PathsOf(tree)
    BY HereOn DEF LookupInv, FilesInv, FdInv, TreeOK
  <2>2. ASSUME NEW path, IsSeq(path.names)
        PROVE  LET s == Find(tree, loaded, cwd[p], path)
                   z == Find(Whole, PathsOf(Whole), cwd[p], path)
               IN  s.ok = z.ok /\ s.at = z.at
    <3> DEFINE s == Find(tree, loaded, cwd[p], path)
    <3>1. Find(Whole, PathsOf(Whole), cwd[p], path) = AsWhole(s)
      BY <2>1, <2>2, FoundLazy DEF LookupInv
    <3> HIDE DEF s
    <3>2. AsWhole(s).ok = s.ok /\ AsWhole(s).at = s.at
      BY PointWith DEF AsWhole
    <3> QED BY <3>1, <3>2 DEF s
  <2>3. \A path \in OpenPaths \cup DirPaths : IsSeq(path.names)
    <3>1. \A path \in OpenPaths \cup DirPaths : path.names \in Seq(Names)
      BY FilesAssumption
    <3> QED BY <3>1, SeqIn
  <2>4. \A path \in OpenPaths \cup DirPaths :
          Lead(Find(tree, loaded, cwd[p], path)) = Lead(Find(Whole, PathsOf(Whole), cwd[p], path))
    BY <2>2, <2>3 DEF Lead
  <2>5. Lead(Find(tree, loaded, cwd[p], PathTo(cwd[p]))) = <<TRUE, cwd[p]>>
    <3> DEFINE q == cwd[p]
               s == Find(tree, loaded, q, PathTo(q))
               z == Find(Whole, PathsOf(Whole), q, PathTo(q))
    <3>1. q \in PathsOf(Whole)
      BY <2>1 DEF LookupInv, Lazy, PathsOf
    <3>2. z.ok = TRUE /\ z.at = q
      BY <3>1, PathBack
    <3>3. IsSeq(PathTo(q).names)
      BY <3>1, PathDown DEF PathTo
    <3>4. s.ok = z.ok /\ s.at = z.at
      BY <2>2, <3>3
    <3> HIDE DEF q, s, z
    <3>5. Lead(s) = <<TRUE, q>>
      BY <3>2, <3>4 DEF Lead
    <3> QED BY <3>5 DEF q, s
  <2> QED BY <2>4, <2>5
<1>2. FInit => LookupInv
  BY LookupInit
<1>3. LookupInv /\ [FNext]_fvars => LookupInv'
  BY LookupStep
<1> QED BY <1>1, <1>2, <1>3, PTL DEF FSpec
=============================================================================
