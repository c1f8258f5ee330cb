------------------------------ MODULE Ext2Sound ------------------------------
(* What makes a volume of Ext2 sound: every block a file or directory needs   *)
(* to reach its data is in the volume, marked as used, and serves no other    *)
(* purpose. mkfs makes such volumes, and what the driver does is shown to     *)
(* keep them so.                                                              *)
EXTENDS Ext2Dir

\* A volume and an inode as records, whatever their blocks hold.
IsVolume(v) ==
  v = [used |-> v.used, bg_blocks |-> v.bg_blocks, sb_blocks |-> v.sb_blocks,
       inodes_used |-> v.inodes_used, bg_inodes |-> v.bg_inodes, sb_inodes |-> v.sb_inodes,
       bg_dirs |-> v.bg_dirs, inode |-> v.inode, data |-> v.data]
IsInode(x) == /\ x = [mode |-> x.mode, size |-> x.size, links |-> x.links, block |-> x.block]
              /\ x.size \in Nat

\* A sequence, whatever is in it.
IsSeq(q) == q \in Seq(Range(q))

\* Bits that allocate_block must never find free: those of no block of the
\* volume, and block 0, which stands for no block.
Reserved(used) == /\ 0 \in Block => 0 \in used
                  /\ \A g \in Group : Bits(g) \ Block \subseteq used

-----------------------------------------------------------------------------
(* The tree of blocks of a file. m has the blocks of the volume, p the      *)
(* pointers of an inode, u the bits that are set.                           *)

\* Blocks a file can have.
Limit == NDIRECT + BS + BS * BS

\* Word w of index block b, and the block of data with number k.
Look(m, b, w) == IF b = 0 THEN 0 ELSE m[b][w]
At(m, p, k) ==
  IF k < NDIRECT THEN p[k]
  ELSE IF k < NDIRECT + BS THEN Look(m, p[NDIRECT], k - NDIRECT)
  ELSE Look(m, Look(m, p[NDIRECT + 1], (k - NDIRECT - BS) \div BS), (k - NDIRECT - BS) % BS)

\* The index blocks, on all levels, and with the blocks of data before block n.
Tree(m, p) == ({p[NDIRECT], p[NDIRECT + 1]} \cup {Look(m, p[NDIRECT + 1], w) : w \in Word}) \ {0}
Hold(m, p, n) == Tree(m, p) \cup {At(m, p, k) : k \in 0..(n - 1)}

\* Index blocks are in use and rows of words, and each has one place in the tree.
Apart(m, p) ==
  /\ p[NDIRECT] # 0 => p[NDIRECT] # p[NDIRECT + 1]
  /\ \A w \in Word : Look(m, p[NDIRECT + 1], w) # 0 =>
       /\ Look(m, p[NDIRECT + 1], w) # p[NDIRECT] /\ Look(m, p[NDIRECT + 1], w) # p[NDIRECT + 1]
       /\ \A x \in Word : Look(m, p[NDIRECT + 1], x) = Look(m, p[NDIRECT + 1], w) => x = w
Shape(u, m, p) ==
  /\ DOMAIN p = Slots /\ DOMAIN m = Block
  /\ Tree(m, p) \subseteq u \cap Block
  /\ \A b \in Tree(m, p) : DOMAIN m[b] = Word
  /\ Apart(m, p)

\* Data blocks before block n are in use too, and serve no other purpose.
Mapped(u, m, p, n) ==
  /\ Shape(u, m, p) /\ n \in 0..Limit
  /\ \A k \in 0..(n - 1) : At(m, p, k) \in (u \cap Block) \ {0} /\ At(m, p, k) \notin Tree(m, p)
  /\ \A k, l \in 0..(n - 1) : At(m, p, k) = At(m, p, l) => k = l

-----------------------------------------------------------------------------
(* A volume *)

\* A block is a row of words, or entries of a directory.
Texts(m) == DOMAIN m = Block /\ \A b \in Block : DOMAIN m[b] = Word \/ IsSeq(m[b])

\* The blocks of inode x: of its tree, and of the data its size accounts for.
Holds(m, x) == Hold(m, x.block, CountBlocksNeeded(x.size))
Fit(u, m, x) == IsInode(x) /\ Mapped(u, m, x.block, CountBlocksNeeded(x.size))

\* The inodes X of the files S are sound and share no block.
WellKept(u, m, S, X) ==
  /\ Texts(m) /\ Reserved(u)
  /\ \A i \in S : Fit(u, m, X[i])
  /\ \A i, j \in S : i # j => Holds(m, X[i]) \cap Holds(m, X[j]) = {}
=============================================================================
