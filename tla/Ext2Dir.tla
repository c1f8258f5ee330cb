------------------------------ MODULE Ext2Dir ------------------------------
(* Directories of src/src/drivers/ext2.c. A block of a directory is the       *)
(* sequence of its entries. Lengths count units of four bytes: an entry has   *)
(* two units of header and its name, and rec is the distance to the next one. *)
(* Inode 0 marks an unused entry. The entries need not fill the block: there  *)
(* a rec_len of zero follows.                                                 *)
EXTENDS Ext2

CONSTANTS Names, NameLen,  \* file names, and the units each of them takes
          UNITS            \* units in a block

ASSUME Ext2DirAssumption == /\ NameLen \in [Names -> Nat \ {0}] /\ UNITS \in Nat
                            /\ \A n \in Names : NameLen[n] + 2 <= UNITS

EntryLen(name) == 2 + NameLen[name]
Entry(i, rec, type, name) == [inode |-> i, rec |-> rec, type |-> type, name |-> name]
NoEntry == Entry(0, 0, "none", "none")

\* A block read as a directory: zeros are an empty one. What a file left there
\* is neither.
Legible(x) == DOMAIN x # Word \/ x = Zeros
AsDir(x) == IF DOMAIN x = Word THEN <<>> ELSE x

\* Where entry k of the block starts, and where the walk over the block ends.
Start(x, k) == MapThenSumSet(LAMBDA j : x[j].rec, 1..(k - 1))
End(x) == Start(x, Len(x) + 1)

DirBlocks(d, i) == Tuple([k \in 1..CountBlocksNeeded(ReadInode(d, i).size) |->
                           BlockOf(d, ReadInode(d, i), (k - 1) * BS)])
DirLegible(d, i) == \A b \in Range(DirBlocks(d, i)) : Legible(d.data[b])
DirIn(d, blocks) == Tuple([k \in DOMAIN blocks |-> AsDir(d.data[blocks[k]])])
Dir(d, i) == DirIn(d, DirBlocks(d, i))
IsDir(d, i) == ReadInode(d, i).mode = "dir"

\* Places <<block, entry>> of a directory's used entries.
Places(dir) == UNION {{k} \X {j \in DOMAIN dir[k] : dir[k][j].inode # 0} : k \in DOMAIN dir}
Before(p, q) == p[1] < q[1] \/ (p[1] = q[1] /\ p[2] < q[2])
First(places) == CHOOSE p \in places : \A q \in places \ {p} : Before(p, q)
Matches(dir, name) == {p \in Places(dir) : dir[p[1]][p[2]].name = name}

\* find_entry: the first entry with the name, NoEntry if there is none.
EntryAt(dir, p) == dir[p[1]][p[2]]
FirstEntry(dir, found) == IF found = {} THEN NoEntry ELSE EntryAt(dir, First(found))
FindEntry(d, i, name) == IF IsDir(d, i) THEN FirstEntry(Dir(d, i), Matches(Dir(d, i), name)) ELSE NoEntry

\* What ext2_dir_iter_next goes through, and ext2_dir_count_entries counts.
Listing(d, i) == {e \in UNION {Range(AsDir(d.data[b])) : b \in Range(DirBlocks(d, i))} : e.inode # 0}
DirCountEntries(d, i) == IF IsDir(d, i) THEN Cardinality(Places(Dir(d, i))) ELSE -1

\* Entries with room for another: unused ones, and used ones with space behind;
\* one past the last if there is room at the end.
Room(x, name) ==
  {k \in DOMAIN x : x[k].rec - (IF x[k].inode = 0 THEN 0 ELSE EntryLen(x[k].name)) >= EntryLen(name)}
  \cup (IF End(x) < UNITS /\ UNITS - End(x) >= EntryLen(name) THEN {Len(x) + 1} ELSE {})

\* An entry that is reused keeps its rec. The unused entry written behind it has
\* a header of two units even if one is left: then its rec, 4 bytes, lands in the
\* low half of the next entry's inode number.
Reuse(x, k, i, type, name) ==
  [j \in DOMAIN x |-> IF j = k THEN Entry(i, x[k].rec, type, name)
                      ELSE IF j = k + 1 /\ x[k].rec = EntryLen(name) + 1 THEN [x[j] EXCEPT !.inode = 4]
                      ELSE x[j]]

\* A used entry gives up the space behind it; an entry that would start past the
\* end of the block is written to whatever memory follows the buffer.
Split(x, k, i, type, name) ==
  LET own == EntryLen(x[k].name)
      new == Entry(i, x[k].rec - own, type, name)
  IN  SubSeq(x, 1, k - 1) \o <<[x[k] EXCEPT !.rec = own]>>
      \o (IF Start(x, k) + own < UNITS THEN <<new>> ELSE <<>>) \o SubSeq(x, k + 1, Len(x))

PlaceAt(x, k, i, type, name) ==
  IF k > Len(x) THEN Append(x, Entry(i, UNITS - End(x), type, name))
  ELSE IF x[k].inode = 0 THEN Reuse(x, k, i, type, name) ELSE Split(x, k, i, type, name)
PlaceEntry(x, i, type, name) == PlaceAt(x, Min(Room(x, name)), i, type, name)

\* add_entry: into the first block with room, or a new block at the end.
Fail(d) == [vol |-> d, ok |-> FALSE]
LinkBlock(s, i, b) ==
  IF s.left # 0 THEN Fail(FreeBlock(s.vol, b))
  ELSE [vol |-> WriteInode(s.vol, i, [s.inode EXCEPT !.size = @ + BS]), ok |-> TRUE]
AppendBlock(d, i, a, n, entry) ==
  IF a.num = 0 THEN Fail(d)
  ELSE LinkBlock(WriteBlockPointers([a.vol EXCEPT !.data[a.num] = <<entry>>], ReadInode(d, i), n, <<a.num>>),
                 i, a.num)
AddWhere(d, i, dir, roomy, name, ino, type) ==
  IF roomy = {} THEN AppendBlock(d, i, AllocateBlock(d), Len(dir), Entry(ino, UNITS, type, name))
  ELSE [vol |-> [d EXCEPT !.data[DirBlocks(d, i)[Min(roomy)]] = PlaceEntry(dir[Min(roomy)], ino, type, name)],
        ok |-> TRUE]
AddTo(d, i, dir, name, ino, type) ==
  AddWhere(d, i, dir, {k \in DOMAIN dir : Room(dir[k], name) # {}}, name, ino, type)
AddEntry(d, i, name, ino, type) ==
  IF IsDir(d, i) THEN AddTo(d, i, Dir(d, i), name, ino, type) ELSE Fail(d)

\* Entry k of the block grows by rec: the entries it then covers are skipped.
Grow(x, k, rec) ==
  LET y == [x EXCEPT ![k].rec = @ + rec]
      rest == {j \in (k + 1)..Len(x) : Start(x, j) >= Start(x, k) + y[k].rec}
  IN  SubSeq(y, 1, k) \o (IF rest = {} THEN <<>> ELSE SubSeq(x, Min(rest), Len(x)))

\* remove_entry: the space goes to the entry met before. Its place in the buffer
\* is kept from one block of the directory to the next: in front of the first
\* entry of a later block it is the place of the last entry of an earlier one.
Cleared(dir, p) == [dir[p[1]] EXCEPT ![p[2]].inode = 0]
LastStart(x) == Start(x, Len(x))
PrevEntry(dir, p, earlier) ==
  IF p[2] > 1 THEN {p[2] - 1}
  ELSE IF earlier = {} THEN {}
  ELSE {k \in DOMAIN dir[p[1]] : Start(dir[p[1]], k) = LastStart(dir[Max(earlier)])}
Merge(x, j, prev) == IF prev = {} THEN x ELSE Grow(x, Min(prev), x[j].rec)
TakeOutNoMerge(d, i, dir, p) ==
  [vol |-> [d EXCEPT !.data[DirBlocks(d, i)[p[1]]] = SubSeq(Cleared(dir, p), 1, p[2])], ok |-> TRUE]
TakeOut(d, i, dir, p) ==
  [vol |-> [d EXCEPT !.data[DirBlocks(d, i)[p[1]]] =
              Merge(Cleared(dir, p), p[2], PrevEntry(dir, p, {k \in 1..(p[1] - 1) : dir[k] # <<>>}))],
   ok |-> TRUE]
TakeOutFirst(d, i, dir, found) == IF found = {} THEN Fail(d) ELSE TakeOut(d, i, dir, First(found))
RemoveEntry(d, i, name) ==
  IF IsDir(d, i) THEN TakeOutFirst(d, i, Dir(d, i), Matches(Dir(d, i), name)) ELSE Fail(d)
=============================================================================
