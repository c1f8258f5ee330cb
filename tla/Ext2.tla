-------------------------------- MODULE Ext2 --------------------------------
(* The volume of src/src/drivers/ext2.c: bitmaps and their counters, inodes   *)
(* with direct, single and double indirect pointers, and the blocks. Every    *)
(* operator maps a volume d to the volume after the call. A block is a row of *)
(* BS words; file positions and sizes count words, a pointer is one word.     *)
EXTENDS Integers, Sequences, FiniteSetsExt, SequencesExt

CONSTANTS BS,                \* words in a block, which is also pointers in a block
          NDIRECT,           \* direct pointers of an inode, 12 in the code
          GROUPS,            \* groups_count
          BLOCKS_PER_GROUP, INODES_PER_GROUP,
          FIRST_DATA_BLOCK, TOTAL_BLOCKS

ASSUME Ext2Assumption ==
  /\ {BS, NDIRECT, GROUPS, BLOCKS_PER_GROUP} \subseteq Nat \ {0}
  /\ {INODES_PER_GROUP, FIRST_DATA_BLOCK, TOTAL_BLOCKS} \subseteq Nat
  \* ext2_init: groups_count is the number of blocks by that of a group, rounded up
  /\ TOTAL_BLOCKS > (GROUPS - 1) * BLOCKS_PER_GROUP
  /\ TOTAL_BLOCKS <= GROUPS * BLOCKS_PER_GROUP

Group == 0..(GROUPS - 1)
Inode == 1..(GROUPS * INODES_PER_GROUP)
Block == FIRST_DATA_BLOCK..(TOTAL_BLOCKS - 1)
Word  == 0..(BS - 1)
Slots == 0..(NDIRECT + 1)     \* of inode.block: the last two are indirect

\* Blocks whose bits a group's scan visits; in the last group that is one more
\* than the volume has when FIRST_DATA_BLOCK is 1: mkfs marks that bit as used.
Bits(g) == LET n == IF g = GROUPS - 1 THEN TOTAL_BLOCKS - g * BLOCKS_PER_GROUP
                                      ELSE BLOCKS_PER_GROUP
           IN  {g * BLOCKS_PER_GROUP + i + FIRST_DATA_BLOCK : i \in 0..(n - 1)}
BlockGroup(b) == (b - FIRST_DATA_BLOCK) \div BLOCKS_PER_GROUP
InodeGroup(i) == (i - 1) \div INODES_PER_GROUP
\* The first inode of every group is taken for reserved.
InodeBits(g) == {g * INODES_PER_GROUP + i + 1 : i \in 1..(INODES_PER_GROUP - 1)}

EmptyInode == [mode |-> "none", size |-> 0, links |-> 0, block |-> [s \in Slots |-> 0]]

-----------------------------------------------------------------------------
\* A group without free blocks in its descriptor is not searched.
BlockGroupsLeft(d) == {g \in Group : d.bg_blocks[g] # 0 /\ Bits(g) \ d.used # {}}

AllocateBlockNoMark(d) ==
  IF BlockGroupsLeft(d) = {} THEN [vol |-> d, num |-> 0]
  ELSE LET g == Min(BlockGroupsLeft(d)) IN
       [vol |-> [d EXCEPT !.bg_blocks[g] = @ - 1, !.sb_blocks = @ - 1],
        num |-> Min(Bits(g) \ d.used)]
AllocateBlockNoSuper(d) ==
  IF BlockGroupsLeft(d) = {} THEN [vol |-> d, num |-> 0]
  ELSE LET g == Min(BlockGroupsLeft(d))
           b == Min(Bits(g) \ d.used)
       IN  [vol |-> [d EXCEPT !.used = @ \cup {b}, !.bg_blocks[g] = @ - 1], num |-> b]
AllocateBlock(d) ==
  IF BlockGroupsLeft(d) = {} THEN [vol |-> d, num |-> 0]
  ELSE LET g == Min(BlockGroupsLeft(d))
           b == Min(Bits(g) \ d.used)
       IN  [vol |-> [d EXCEPT !.used = @ \cup {b}, !.bg_blocks[g] = @ - 1, !.sb_blocks = @ - 1],
            num |-> b]

\* A block outside the volume or free already is left alone.
FreeBlock(d, b) ==
  IF b \notin Block \/ b \notin d.used THEN d
  ELSE [d EXCEPT !.used = @ \ {b}, !.bg_blocks[BlockGroup(b)] = @ + 1, !.sb_blocks = @ + 1]

FreeBlocks(d, blocks) == FoldLeft(FreeBlock, d, blocks)

InodeGroupsLeft(d) == {g \in Group : d.bg_inodes[g] # 0 /\ InodeBits(g) \ d.inodes_used # {}}

AllocateInode(d, is_directory) ==
  IF InodeGroupsLeft(d) = {} THEN [vol |-> d, num |-> 0]
  ELSE LET g == Min(InodeGroupsLeft(d))
           i == Min(InodeBits(g) \ d.inodes_used)
       IN  [vol |-> [d EXCEPT !.inodes_used = @ \cup {i}, !.bg_inodes[g] = @ - 1,
                              !.sb_inodes = @ - 1,
                              !.bg_dirs[g] = @ + IF is_directory THEN 1 ELSE 0],
            num |-> i]

\* The count of directories in the group is not taken back.
FreeInode(d, i) ==
  IF i \notin Inode \/ i \notin d.inodes_used THEN d
  ELSE [d EXCEPT !.inodes_used = @ \ {i}, !.bg_inodes[InodeGroup(i)] = @ + 1, !.sb_inodes = @ + 1]

ReadInode(d, i) == d.inode[i]
WriteInode(d, i, inode) == [d EXCEPT !.inode[i] = inode]

-----------------------------------------------------------------------------
Least(a, b) == IF a < b THEN a ELSE b
Larger(a, b) == IF a < b THEN b ELSE a
Tuple(s) == s \o <<>>  \* the sequence s, evaluated once by TLC
Zeros == [w \in Word |-> 0]
\* A block as a row of words; what a directory left in it is text to a file.
AsRow(x) == IF DOMAIN x = Word THEN x ELSE [w \in Word |-> -1]
Row(f, from, n) == Tuple([k \in 1..n |-> f[from + k - 1]])
\* n words of the sequence s, from its position "from" on, copied into row f at "to".
Patch(f, to, s, from, n) ==
  [w \in DOMAIN f |-> IF w \in to..(to + n - 1) THEN s[from + w - to] ELSE f[w]]

CountBlocksNeeded(size) == (size + BS - 1) \div BS

\* The three parts of read_block_pointers: r has the pointers read so far, and
\* what is left to read, from block idx on.
ReadDirect(inode, r) ==
  LET n == IF r.idx < NDIRECT THEN Least(r.left, NDIRECT - r.idx) ELSE 0 IN
  [idx |-> r.idx + n, left |-> r.left - n, got |-> Row(inode.block, r.idx, n)]

ReadSingle(d, index, r) ==
  IF r.left = 0 \/ r.idx >= NDIRECT + BS \/ index = 0 THEN r
  ELSE LET n == Least(r.left, NDIRECT + BS - r.idx) IN
       [idx |-> r.idx + n, left |-> r.left - n, got |-> r.got \o Row(d.data[index], r.idx - NDIRECT, n)]

\* One second level block only.
ReadSecond(d, index, at, r) ==
  IF index = 0 THEN r
  ELSE [r EXCEPT !.got = @ \o Row(d.data[index], at % BS, Least(r.left, BS - (at % BS)))]
ReadDouble(d, index, r) ==
  LET at == r.idx - NDIRECT - BS IN
  IF r.left = 0 \/ index = 0 \/ at \notin 0..(BS * BS - 1) THEN r
  ELSE ReadSecond(d, d.data[index][at \div BS], at, r)

\* The pointers of "count" blocks from block idx on, as many as one call reaches.
ReadBlockPointers(d, inode, idx, count) ==
  ReadDouble(d, inode.block[NDIRECT + 1],
    ReadSingle(d, inode.block[NDIRECT],
      ReadDirect(inode, [idx |-> idx, left |-> count]))).got

\* The index block p, or a new one full of zeros if there is none: 0 if the
\* volume is full.
IndexBlock(d, p) ==
  IF p # 0 THEN [vol |-> d, num |-> p]
  ELSE LET a == AllocateBlock(d) IN
       IF a.num = 0 THEN a ELSE [a EXCEPT !.vol.data[a.num] = Zeros]

\* The three parts of write_block_pointers: what a part leaves to do is in
\* "left" and "idx", the pointers still to be written start at "from".
WriteDirect(s, ptrs) ==
  LET n == IF s.idx < NDIRECT THEN Least(s.left, NDIRECT - s.idx) ELSE 0 IN
  [s EXCEPT !.inode.block = Patch(@, s.idx, ptrs, 1, n),
            !.idx = @ + n, !.left = @ - n, !.from = @ + n]

WriteUnder(s, ptrs, a, n) ==
  IF a.num = 0 THEN [s EXCEPT !.full = TRUE]
  ELSE [s EXCEPT !.vol = [a.vol EXCEPT !.data[a.num] = Patch(@, s.idx - NDIRECT, ptrs, s.from, n)],
                 !.inode.block[NDIRECT] = a.num,
                 !.idx = @ + n, !.left = @ - n, !.from = @ + n]
WriteSingle(s, ptrs) ==
  IF s.left = 0 \/ s.idx >= NDIRECT + BS THEN s
  ELSE WriteUnder(s, ptrs, IndexBlock(s.vol, s.inode.block[NDIRECT]), Least(s.left, NDIRECT + BS - s.idx))

\* Index block a of the first level leads to block b of the second.
PutSecond(data, a, b, at, ptrs, from, n) ==
  LET linked == [data EXCEPT ![a][at \div BS] = b]
  IN  [linked EXCEPT ![b] = Patch(@, at % BS, ptrs, from, n)]
WriteSecond(s, ptrs, a, b, at) ==
  LET n == Least(s.left, BS - (at % BS))
      t == [s EXCEPT !.inode.block[NDIRECT + 1] = a.num]
  IN  IF b.num = 0 THEN [t EXCEPT !.vol = a.vol, !.full = TRUE]
      ELSE [t EXCEPT !.vol = [b.vol EXCEPT !.data = PutSecond(@, a.num, b.num, at, ptrs, s.from, n)],
                     !.left = @ - n, !.from = @ + n]
WriteFirst(s, ptrs, a, at) ==
  IF a.num = 0 THEN [s EXCEPT !.full = TRUE]
  ELSE WriteSecond(s, ptrs, a, IndexBlock(a.vol, a.vol.data[a.num][at \div BS]), at)
WriteDouble(s, ptrs) ==
  IF s.left = 0 \/ s.full \/ s.idx >= NDIRECT + BS + BS * BS THEN s
  ELSE WriteFirst(s, ptrs, IndexBlock(s.vol, s.inode.block[NDIRECT + 1]), s.idx - NDIRECT - BS)

WriteBlockPointers(d, inode, idx, ptrs) ==
  LET s == [vol |-> d, inode |-> inode, idx |-> idx, left |-> Len(ptrs), from |-> 1, full |-> FALSE]
  IN  WriteDouble(WriteSingle(WriteDirect(s, ptrs), ptrs), ptrs)

\* count blocks, or as many as there are.
AllocateBlocks(d, count) ==
  LET step(acc, i) == LET a == AllocateBlock(acc.vol) IN
        IF acc.full \/ a.num = 0 THEN [acc EXCEPT !.full = TRUE]
        ELSE [acc EXCEPT !.vol = a.vol, !.blocks = Append(@, a.num)]
  IN  FoldLeft(step, [vol |-> d, blocks |-> <<>>, full |-> FALSE], [i \in 1..count |-> i])

\* Data blocks are taken first, then the index blocks they need. When those
\* cannot be had, pointers that were stored stay in the inode, beyond its size.
StorePointers(s, blocks) ==
  IF s.left # 0 THEN [vol |-> FreeBlocks(s.vol, blocks), inode |-> s.inode, ok |-> FALSE]
  ELSE [vol |-> s.vol, inode |-> s.inode, ok |-> TRUE]
StoreBlocks(a, inode) ==
  IF a.full THEN [vol |-> FreeBlocks(a.vol, a.blocks), inode |-> inode, ok |-> FALSE]
  ELSE StorePointers(WriteBlockPointers(a.vol, inode, CountBlocksNeeded(inode.size), a.blocks), a.blocks)
EnsureBlocksAllocated(d, inode, required) ==
  LET more == required - CountBlocksNeeded(inode.size) IN
  IF more <= 0 THEN [vol |-> d, inode |-> inode, ok |-> TRUE]
  ELSE StoreBlocks(AllocateBlocks(d, more), inode)

-----------------------------------------------------------------------------
\* The block a word of the file is in: 0 if there is no pointer for it.
FirstOr0(r) == IF r = <<>> THEN 0 ELSE r[1]
BlockOf(d, inode, p) == FirstOr0(ReadBlockPointers(d, inode, p \div BS, 1))

\* The format's own answer to where block k of a file is.
Deref(d, b, w) == IF b = 0 THEN 0 ELSE d.data[b][w]
BlockAt(d, inode, k) ==
  IF k < NDIRECT THEN inode.block[k]
  ELSE IF k < NDIRECT + BS THEN Deref(d, inode.block[NDIRECT], k - NDIRECT)
  ELSE LET n == k - NDIRECT - BS IN
       Deref(d, Deref(d, inode.block[NDIRECT + 1], n \div BS), n % BS)

\* What is in the file; a block that is missing stands for zeros.
Contents(d, inode) ==
  Tuple([p \in 1..inode.size |-> LET b == BlockAt(d, inode, (p - 1) \div BS) IN
                                 IF b = 0 THEN 0 ELSE AsRow(d.data[b])[(p - 1) % BS]])

\* Block k of a file, whose row was read first, with a word over a range of the file.
PutWordsNoReadBack(row, k, from, to, word) ==
  [w \in Word |-> IF k * BS + w \in from..to THEN word ELSE 0]
PutWords(row, k, from, to, word) ==
  [w \in Word |-> IF k * BS + w \in from..to THEN word ELSE row[w]]

\* ext2_file_write: the loop stops in front of the first block that is missing.
WriteEnd(at, pos, last) ==
  LET gap == {t[1] * BS : t \in {u \in at : u[2] = 0}} IN
  IF gap = {} THEN last + 1 ELSE Larger(Min(gap), pos)
PutBlocks(data, at, from, to, word) ==
  LET into(b) == {t[1] : t \in {u \in at : u[2] = b}} IN
  [b \in Block |-> IF into(b) = {} THEN data[b] ELSE PutWords(AsRow(data[b]), Min(into(b)), from, to, word)]
WriteUpTo(e, at, file, end, word) ==
  LET vol == [e.vol EXCEPT !.data = PutBlocks(@, at, file.pos, end - 1, word)]
      inode == [e.inode EXCEPT !.size = Larger(@, end)]
  IN  [vol |-> IF end > e.inode.size THEN WriteInode(vol, file.num, inode) ELSE vol,
       file |-> [file EXCEPT !.pos = end, !.inode = inode]]
WriteAt(e, at, file, last, word) == WriteUpTo(e, at, file, WriteEnd(at, file.pos, last), word)
WriteBlocks(e, file, last, word) ==
  IF ~e.ok THEN [vol |-> e.vol, file |-> [file EXCEPT !.inode = e.inode]]
  ELSE WriteAt(e, {<<k, BlockOf(e.vol, e.inode, k * BS)>> : k \in (file.pos \div BS)..(last \div BS)},
               file, last, word)
FileWrite(d, file, count, word) ==
  WriteBlocks(EnsureBlocksAllocated(d, file.inode, CountBlocksNeeded(file.pos + count)),
              file, file.pos + count - 1, word)

\* ext2_file_read moves the position and writes the inode, for its access time.
FileRead(d, file, count) ==
  IF file.pos >= file.inode.size THEN [vol |-> d, file |-> file]
  ELSE [vol |-> WriteInode(d, file.num, file.inode),
        file |-> [file EXCEPT !.pos = Least(@ + count, file.inode.size)]]

\* ext2_file_seek: a position past the end, or before the start (which is a very
\* large number without sign), is refused.
FileSeek(file, offset, whence) ==
  LET to == CASE whence = "SEEK_SET" -> offset
              [] whence = "SEEK_CUR" -> file.pos + offset
              [] whence = "SEEK_END" -> file.inode.size + offset
  IN  IF to < 0 \/ to > file.inode.size THEN file ELSE [file EXCEPT !.pos = to]

\* ext2_file_truncate hands write_block_pointers the address of one zero for as
\* many pointers as it frees: the others are what lies behind it on the stack.
Resized(r, file, length) ==
  LET inode == [r.inode EXCEPT !.size = length] IN
  IF ~r.ok THEN [vol |-> r.vol, file |-> [file EXCEPT !.inode = r.inode]]
  ELSE [vol |-> WriteInode(r.vol, file.num, inode),
        file |-> [file EXCEPT !.inode = inode, !.pos = Least(@, length)]]
Outcome(s) == [vol |-> s.vol, inode |-> s.inode, ok |-> TRUE]
\* The pointers "gone" are freed, then overwritten.
Drop(d, inode, need, have, gone, stack) ==
  IF Len(gone) # have - need THEN [vol |-> d, inode |-> inode, ok |-> FALSE]
  ELSE Outcome(WriteBlockPointers(FreeBlocks(d, gone), inode, need,
                                  [i \in 1..(have - need) |-> IF i = 1 THEN 0 ELSE stack]))
FileTruncate(d, file, length, stack) ==
  LET have == CountBlocksNeeded(file.inode.size)
      need == CountBlocksNeeded(length)
  IN  CASE length = file.inode.size -> [vol |-> d, file |-> file]
        [] length > file.inode.size -> Resized(EnsureBlocksAllocated(d, file.inode, need), file, length)
        [] length < file.inode.size ->
             Resized(IF need = have THEN [vol |-> d, inode |-> file.inode, ok |-> TRUE]
                     ELSE Drop(d, file.inode, need, have, ReadBlockPointers(d, file.inode, need, have - need), stack),
                     file, length)

\* What file_delete and dir_delete give back: the blocks the size accounts for,
\* not the index blocks. FALSE if one call cannot read all the pointers, or if the
\* entry was that of a number which is no inode's.
DiscardBlocks(d, i, blocks, n) ==
  IF Len(blocks) # n THEN [vol |-> d, ok |-> FALSE]
  ELSE [vol |-> FreeInode(FreeBlocks(d, blocks), i), ok |-> TRUE]
Discard(d, i) ==
  LET n == CountBlocksNeeded(ReadInode(d, i).size) IN
  IF i \notin Inode THEN [vol |-> d, ok |-> FALSE]
  ELSE DiscardBlocks(d, i, ReadBlockPointers(d, ReadInode(d, i), 0, n), n)
=============================================================================
