------------------------------- MODULE Volume -------------------------------
(* The calls of the ext2 driver (src/src/drivers/ext2.c) on one volume. Each  *)
(* caller of a file shares its descriptor: the position and the inode that    *)
(* open read from the disk.                                                   *)
EXTENDS Ext2Dir

CONSTANTS UserNames, Dot, DotDot,  \* Names: those callers use, and "." and ".."
          USED,                    \* blocks mkfs leaves in use, ROOT_BLOCK one of them
          ROOT_BLOCK,
          Counts, MaxSize,         \* bounds: words per call, words in a file
          MaxCalls,                \* bound: calls that may allocate or move an entry
          Garbage                  \* what may lie on the stack behind one word

\* mkfs keeps inodes 1 and 2 for itself, in the first group, and marks the root's
\* block, block 0 and the bits of no block of the volume as used.
ASSUME VolumeAssumption == /\ INODES_PER_GROUP >= 2
                           /\ ROOT_BLOCK \in Block \ {0} /\ ROOT_BLOCK \in USED
                           /\ 0 \in Block => 0 \in USED
                           /\ \A g \in Group : Bits(g) \ Block \subseteq USED
                           /\ Counts \subseteq Nat /\ Counts # {} /\ IsFiniteSet(Counts)

ROOT == 2

VARIABLES d,     \* the volume
          open,  \* descriptor of each file, Closed if there is none
          calls  \* calls counted by MaxCalls

vvars == <<d, open, calls>>
Closed == [num |-> 0]

CountUsed(g, used) == Cardinality(Bits(g) \ used)
DirInode(b) == [mode |-> "dir", size |-> BS, links |-> 2,
                block |-> [s \in Slots |-> IF s = 0 THEN b ELSE 0]]
RootBlock == <<Entry(ROOT, EntryLen(Dot), "dir", Dot),
               Entry(ROOT, UNITS - EntryLen(Dot), "dir", DotDot)>>

\* A volume as mkfs leaves it and ext2_init finds it: the root directory only.
VInit ==
  /\ open = [i \in Inode |-> Closed] /\ calls = 0
  /\ d = [used |-> USED,
          bg_blocks |-> [g \in Group |-> CountUsed(g, USED)],
          sb_blocks |-> MapThenSumSet(LAMBDA g : CountUsed(g, USED), Group),
          inodes_used |-> {1, ROOT},
          bg_inodes |-> [g \in Group |-> INODES_PER_GROUP - IF g = 0 THEN 2 ELSE 0],
          sb_inodes |-> GROUPS * INODES_PER_GROUP - 2,
          bg_dirs |-> [g \in Group |-> IF g = 0 THEN 1 ELSE 0],
          inode |-> [i \in Inode |-> IF i # ROOT THEN EmptyInode
                                   ELSE DirInode(ROOT_BLOCK)],
          data |-> [b \in Block |-> IF b = ROOT_BLOCK THEN RootBlock ELSE Zeros]]

Dirs == {i \in d.inodes_used : i # 1 /\ IsDir(d, i)}
Closedown(i) == open[i] = Closed

-----------------------------------------------------------------------------
\* ext2_file_create. What add_entry makes of a directory block that holds the
\* data of a file is not modelled.
UndoInode(e, i) == IF e.ok THEN e.vol ELSE FreeInode(e.vol, i)
FileCreate(dir, name) ==
  /\ DirLegible(d, dir) /\ FindEntry(d, dir, name) = NoEntry
  /\ \E a \in {AllocateInode(d, FALSE)} :
       /\ a.num # 0
       /\ d' = UndoInode(AddEntry(WriteInode(a.vol, a.num, [EmptyInode EXCEPT !.mode = "file", !.links = 1]),
                                  dir, name, a.num, "file"), a.num)
  /\ UNCHANGED open

\* ext2_file_delete of a file nobody has open. When the pointers do not fit one
\* call, the entry is gone and the inode and its blocks stay.
FileDelete(dir, name) ==
  \E f \in {FindEntry(d, dir, name)}, r \in {RemoveEntry(d, dir, name)} :
    /\ f.type = "file" /\ Closedown(f.inode) /\ r.ok
    /\ d' = Discard(r.vol, f.inode).vol
    /\ UNCHANGED open

Relink(vol, dir, by) == WriteInode(vol, dir, [ReadInode(vol, dir) EXCEPT !.links = @ + by])

\* ext2_dir_create: the first block keeps what was in it.
LinkDir(e, dir, i, b) == IF e.ok THEN Relink(e.vol, dir, 1) ELSE FreeInode(FreeBlock(e.vol, b), i)
DirCreate(dir, name) ==
  /\ DirLegible(d, dir) /\ FindEntry(d, dir, name) = NoEntry
  /\ \E a \in {AllocateInode(d, TRUE)} : \E b \in {AllocateBlock(a.vol)} :
       /\ a.num # 0
       /\ d' = IF b.num = 0 THEN FreeInode(b.vol, a.num)
               ELSE LinkDir(AddEntry(WriteInode(b.vol, a.num, DirInode(b.num)), dir, name, a.num, "dir"),
                            dir, a.num, b.num)
  /\ UNCHANGED open

\* ext2_dir_delete. A block with the data of a file may read as an empty directory
\* or not: the call may go either way.
DirDelete(dir, name) ==
  \E f \in {FindEntry(d, dir, name)}, r \in {RemoveEntry(d, dir, name)} :
    /\ f.type = "dir" /\ Listing(d, f.inode) = {} /\ r.ok
    /\ \E out \in {Discard(r.vol, f.inode)} :
         d' = IF out.ok THEN Relink(out.vol, dir, -1) ELSE out.vol
    /\ UNCHANGED open

\* ext2_rename: when the new entry cannot be added the old one is put back.
Rename(from, old, to, new) ==
  \E f \in {FindEntry(d, from, old)}, r \in {RemoveEntry(d, from, old)} :
    /\ f # NoEntry /\ FindEntry(d, to, new) = NoEntry
    /\ DirLegible(d, from) /\ DirLegible(d, to) /\ r.ok
    /\ \E e \in {AddEntry(r.vol, to, new, f.inode, f.type)} :
         d' = IF e.ok THEN e.vol ELSE AddEntry(e.vol, from, old, f.inode, f.type).vol
    /\ UNCHANGED open

-----------------------------------------------------------------------------
\* ext2_file_open of a regular file.
FileOpen(i) ==
  /\ Closedown(i) /\ i \in d.inodes_used /\ ReadInode(d, i).mode = "file"
  /\ open' = [open EXCEPT ![i] = [num |-> i, pos |-> 0, inode |-> ReadInode(d, i)]]
  /\ UNCHANGED d

\* ext2_file_close stores the inode.
FileClose(i) ==
  /\ ~Closedown(i)
  /\ d' = WriteInode(d, i, open[i].inode)
  /\ open' = [open EXCEPT ![i] = Closed]

Apply(i, r) == d' = r.vol /\ open' = [open EXCEPT ![i] = r.file]

\* Each file is written with a word of its own: its number.
Write(i, count) == /\ ~Closedown(i) /\ open[i].pos + count <= MaxSize
                   /\ Apply(i, FileWrite(d, open[i], count, i))
Read(i, count)  == ~Closedown(i) /\ Apply(i, FileRead(d, open[i], count))
Seek(i, offset, whence) == /\ ~Closedown(i) /\ UNCHANGED d
                           /\ open' = [open EXCEPT ![i] = FileSeek(open[i], offset, whence)]
Truncate(i, length) == /\ ~Closedown(i) /\ length <= MaxSize
                       /\ \E g \in Garbage : Apply(i, FileTruncate(d, open[i], length, g))

Counted ==
  \/ \E dir \in Dirs, name \in UserNames : FileCreate(dir, name) \/ DirCreate(dir, name)
  \/ \E from, to \in Dirs, old, new \in UserNames : Rename(from, old, to, new)
  \/ \E i \in Inode : \/ \E n \in Counts : Write(i, n)
                      \/ \E n \in Counts \cup {0} : Truncate(i, n)

Uncounted ==
  \/ \E dir \in Dirs, name \in UserNames : FileDelete(dir, name) \/ DirDelete(dir, name)
  \/ \E i \in Inode : \/ FileOpen(i) \/ FileClose(i)
                      \/ Read(i, Min(Counts))
                      \/ Seek(i, 0, "SEEK_SET") \/ Seek(i, 0, "SEEK_END")
                      \/ Seek(i, -Max(Counts), "SEEK_CUR")

VNext == \/ calls < MaxCalls /\ Counted /\ calls' = calls + 1
         \/ Uncounted /\ UNCHANGED calls

VSpec == VInit /\ [][VNext]_vvars

-----------------------------------------------------------------------------
InodeNow(i) == IF Closedown(i) THEN ReadInode(d, i) ELSE open[i].inode
InUse == d.inodes_used \ {1}
DataBlocks(i) == {<<k, BlockAt(d, InodeNow(i), k)>> : k \in 0..(CountBlocksNeeded(InodeNow(i).size) - 1)}
\* The second level blocks that lead to data.
Second(i) == IF InodeNow(i).block[NDIRECT + 1] = 0 THEN {}
             ELSE {<<"second", w, d.data[InodeNow(i).block[NDIRECT + 1]][w]>> :
                     w \in {v \in Word : NDIRECT + BS + v * BS < CountBlocksNeeded(InodeNow(i).size)}}
IndexBlocks(i) == {<<s, InodeNow(i).block[s]>> : s \in {t \in {NDIRECT, NDIRECT + 1} : InodeNow(i).block[t] # 0}}
Owned(i) == {<<i, o>> : o \in DataBlocks(i) \cup Second(i) \cup IndexBlocks(i)}
NumberOf(o) == o[2][Len(o[2])]

\* Every block a file or directory needs to reach its data is in the volume and
\* marked as used, and no block serves two purposes: the allocator, the
\* index blocks of write_block_pointers and the error paths never share a block.
BlocksOwned ==
  LET all == UNION {Owned(i) : i \in InUse} IN
  /\ \A o \in all : NumberOf(o) \in Block /\ NumberOf(o) \in d.used
  /\ \A o, p \in all : NumberOf(o) = NumberOf(p) => o = p

\* The free counts of the group descriptors and of the superblock are those of
\* the bitmaps, after every call, failed ones included.
CountsAgree ==
  /\ \A g \in Group : /\ d.bg_blocks[g] = CountUsed(g, d.used)
                      /\ d.bg_inodes[g] = INODES_PER_GROUP - Cardinality({i \in d.inodes_used : InodeGroup(i) = g})
  /\ d.sb_blocks = MapThenSumSet(LAMBDA g : d.bg_blocks[g], Group)
  /\ d.sb_inodes = MapThenSumSet(LAMBDA g : d.bg_inodes[g], Group)

\* The volume as the files and names a caller sees.
BlocksAt(dir) == {BlockAt(d, d.inode[dir], k) : k \in 0..(d.inode[dir].size \div BS - 1)}
Held(b) == {e \in Range(AsDir(d.data[b])) : e.inode # 0 /\ e.name \in UserNames}
Entries == UNION {{<<dir, e.name, e.inode>> : e \in UNION {Held(b) : b \in BlocksAt(dir)}} : dir \in Dirs}
Kind == [i \in Inode |-> IF i \in InUse THEN ReadInode(d, i).mode ELSE "none"]
Seen == [i \in Inode |-> IF Kind[i] = "file" THEN Contents(d, InodeNow(i)) ELSE <<>>]
Store == INSTANCE FileStore WITH Numbers <- Inode, Root <- ROOT,
                                 kind <- Kind, file <- Seen, entries <- Entries

\* Calls of the driver do to files and names what FileStore says and nothing
\* else: a write that runs out of blocks, a reopened file and a reused block
\* leave the contents of every file as they were.
ImplementsStore == Store!Spec

\* An entry that a caller finds names an inode in use of the type it records: what
\* ext2_file_delete and ext2_dir_delete free is the file of that name.
EntriesLive == \A dir \in Dirs : \A e \in Listing(d, dir) :
                 e.inode \in InUse /\ e.type = ReadInode(d, e.inode).mode
\* An entry names an inode in use of the type it records, and every inode in use
\* but the root has exactly one: no name outlives its file, no file its name. It
\* is a property of directories whose later blocks hold one entry: with more,
\* remove_entry can grow the wrong one (see PrevEntry), and add_entry then writes
\* behind the block.
EntriesSound ==
  /\ EntriesLive
  /\ \A i \in InUse \ {ROOT} : Cardinality({e \in Entries : e[3] = i}) = 1
=============================================================================
