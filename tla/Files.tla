------------------------------- MODULE Files -------------------------------
(* The virtual file system (src/src/fs/vfs.c), descriptor tables              *)
(* (src/src/fs/fdm.c) and the system calls on files and directories           *)
(* (src/src/kernel/syscalls.c), above the ext2 volume. An entry of the file   *)
(* system in memory is known by its path, the names from the root on; the     *)
(* inode object of an entry is shared by all its open files.                  *)
EXTENDS Ext2Sound

CONSTANTS Procs, Boot,           \* processes, and the one the boot starts
          FD_ENTRY_COUNT,        \* slots of a descriptor table, on each of two levels
          Disk,                  \* the volume at boot
          Dot, DotDot, Dev, Vcon, Bin,  \* names with a meaning
          WholeUnits, Garbled,   \* names with no zero behind them; how such a name reads
          OpenPaths, DirPaths,   \* paths that programs open and change to
          UsedFds,               \* numbers they use
          Counts, MaxSize,       \* bounds: words per call, words in a file
          MaxOpen, MaxTables,    \* bounds: open files, tables of the second level
          MaxCalls,              \* bound: system calls in a behaviour
          Positions              \* what the memory of a new open file may hold

ASSUME FilesAssumption == /\ Boot \in Procs /\ FD_ENTRY_COUNT \in Nat \ {0} /\ MaxTables \in Nat
                          /\ UsedFds \subseteq 0..(FD_ENTRY_COUNT * FD_ENTRY_COUNT - 1)
                          /\ Counts \subseteq Nat /\ Positions \subseteq Nat
                          /\ \A path \in OpenPaths \cup DirPaths : path.names \in Seq(Names)
                          /\ {Dev, Vcon, Garbled} \cap {Dot, DotDot} = {}

ROOT_INODE == 2
Index == 0..(FD_ENTRY_COUNT - 1)
Fds == 0..(FD_ENTRY_COUNT * FD_ENTRY_COUNT - 1)

VARIABLES d,       \* the volume
          tree,    \* entries in memory: their path, type and inode number
          loaded,  \* paths of the entries whose children have been read
          inode,   \* inode object of every entry that has been opened
          cwd,     \* path of the working directory of each process
          top, table, tables,  \* first and second level of the tables; how many are in use
          desc,    \* open files: path, type and position
          live,    \* processes there are
          calls    \* system calls so far

fvars == <<d, tree, loaded, inode, cwd, top, table, tables, desc, live, calls>>

Node(path, type, ino) == [path |-> path, type |-> type, ino |-> ino]
NodeAt(t, path) == CHOOSE n \in t : n.path = path
PathsOf(t) == {n.path : n \in t}

\* vfs_init and vcon_init: the root, whose children are on the disk, and the
\* directory of the devices, which is never read from it.
AtBoot == {Node(<<>>, "dir", ROOT_INODE), Node(<<Dev>>, "dir", -1), Node(<<Dev, Vcon>>, "chrdev", -1)}
FInit ==
  /\ d = Disk
  /\ tree = AtBoot
  /\ loaded = {<<Dev>>}
  /\ inode = <<>>
  /\ cwd = [p \in Procs |-> <<>>]
  /\ top = [p \in Procs |-> [i \in Index |-> 0]]
  /\ table = [t \in 1..MaxTables |-> [i \in Index |-> 0]] /\ tables = 0
  /\ desc = <<>>
  /\ live = {Boot} /\ calls = 0

-----------------------------------------------------------------------------
\* The name vfs_entry_init copies ends at the first zero. A name that fills its
\* units has none behind it when the next entry follows at once.
NameRead(e) == IF e.name \in WholeUnits /\ e.rec = EntryLen(e.name) THEN Garbled ELSE e.name

\* vfs_populate_directory. A name that is in memory already is found first.
Named(v, i) == {e \in Listing(v, i) : e.name \notin {Dot, DotDot}}
Children(v, n) == {Node(Append(n.path, NameRead(e)), e.type, e.inode) : e \in Named(v, n.ino)}

\* The volume at boot is sound, and a file or directory other than the root is in
\* one directory, under one name that nothing else there reads as: the driver
\* makes no second link.
DiskDirs == {i \in Disk.inodes_used : IsDir(Disk, i)}
ASSUME DiskAssumption ==
  /\ IsVolume(Disk) /\ DOMAIN Disk.inode = Inode /\ Disk.inodes_used \subseteq Inode
  /\ WellKept(Disk.used, Disk.data, Disk.inodes_used, Disk.inode)
  /\ ROOT_INODE \in DiskDirs
  /\ \A i \in DiskDirs : \A e \in Named(Disk, i) :
       e.inode \in Disk.inodes_used \ {ROOT_INODE} /\ e.type = ReadInode(Disk, e.inode).mode
  /\ \A i, j \in DiskDirs : \A e \in Named(Disk, i), f \in Named(Disk, j) :
       e.inode = f.inode \/ (i = j /\ NameRead(e) = NameRead(f)) => i = j /\ e = f
LoadFlagFirst(s) == [s EXCEPT !.loaded = @ \cup {s.at}]
Load(s) ==
  IF s.at \in s.loaded THEN s
  ELSE [s EXCEPT !.loaded = @ \cup {s.at},
                 !.tree = IF NodeAt(@, s.at).type # "dir" THEN @
                          ELSE @ \cup {c \in Children(d, NodeAt(@, s.at)) : c.path \notin PathsOf(@)}]

\* One component of a path.
Step(l, to) == IF to \in PathsOf(l.tree) THEN [l EXCEPT !.at = to] ELSE [l EXCEPT !.ok = FALSE]
Follow(s, name) ==
  IF ~s.ok \/ name = Dot THEN s
  ELSE IF name = DotDot THEN [s EXCEPT !.at = IF @ = <<>> THEN @ ELSE Front(@)]
  ELSE Step(Load(s), Append(s.at, name))

\* vfs_find_entry: what was loaded on the way stays, found or not.
Find(t, l, start, path) ==
  FoldLeft(Follow, [tree |-> t, loaded |-> l, at |-> IF path.abs THEN <<>> ELSE start,
                    ok |-> path.abs \/ path.names # <<>>], path.names)

\* vfs_path: the names from the root on, each with a slash behind it.
PathTo(at) == [abs |-> TRUE, names |-> at]

-----------------------------------------------------------------------------
\* fdm_get and fdm_set. A table of the second level comes from the pool when its
\* first descriptor is set, to zero too; the model takes its memory for zeros.
fdm_get(p, n) == LET t == top[p][n \div FD_ENTRY_COUNT] IN
                 IF t = 0 THEN 0 ELSE table[t][n % FD_ENTRY_COUNT]

fdm_set(p, n, f) ==
  LET i == n \div FD_ENTRY_COUNT
      t == IF top[p][i] = 0 THEN tables + 1 ELSE top[p][i]
  IN  /\ t <= MaxTables
      /\ tables' = IF top[p][i] = 0 THEN t ELSE tables
      /\ top' = [top EXCEPT ![p][i] = t]
      /\ table' = [table EXCEPT ![t][n % FD_ENTRY_COUNT] = f]

\* fdm_copy: tables of the second level are copied, the open files shared.
InUseSlots(p) == {i \in Index : top[p][i] # 0}
fdm_copyShares(p, q) == top' = [top EXCEPT ![q] = top[p]] /\ UNCHANGED <<table, tables>>
fdm_copy(p, q) ==
  LET n == Cardinality(InUseSlots(p))
      new(i) == tables + Cardinality({j \in InUseSlots(p) : j <= i})
  IN  /\ tables + n <= MaxTables
      /\ tables' = tables + n
      /\ top' = [top EXCEPT ![q] = [i \in Index |-> IF i \in InUseSlots(p) THEN new(i) ELSE 0]]
      /\ table' = [t \in DOMAIN table |->
                     IF \E i \in InUseSlots(p) : new(i) = t
                     THEN table[top[p][CHOOSE i \in InUseSlots(p) : new(i) = t]] ELSE table[t]]

\* fdm_open_file: every open reads the inode again into the object of the entry;
\* the position is what the memory of the new object holds.
Reread(n) == IF n.ino = -1 THEN inode
             ELSE [x \in DOMAIN inode \cup {n.path} |->
                     IF x = n.path THEN ReadInode(d, n.ino) ELSE inode[x]]
NewFile(n, pos) == [path |-> n.path, type |-> n.type, num |-> n.ino, pos |-> pos]
fdm_open_file(n) ==
  /\ Len(desc) < MaxOpen
  /\ inode' = Reread(n)
  /\ \E pos \in Positions : desc' = Append(desc, NewFile(n, pos))

Remember(s) == tree' = s.tree /\ loaded' = s.loaded

\* sys_open opens the file twice and loses the first open file; the other gets
\* number 0, whatever had it, and 0 is returned, found or not.
sys_open(p, path) ==
  /\ \E s \in {Find(tree, loaded, cwd[p], path)} :
       /\ Remember(s)
       /\ \/ ~s.ok /\ UNCHANGED <<inode, desc, top, table, tables>>
          \/ s.ok /\ fdm_open_file(NodeAt(s.tree, s.at)) /\ fdm_set(p, 0, Len(desc) + 1)
  /\ UNCHANGED <<d, cwd, live>>

\* sys_close takes the number from a register of the kernel: any.
sys_close(p, n) == fdm_set(p, n, 0) /\ UNCHANGED <<d, tree, loaded, inode, cwd, desc, live>>

sys_dup2(p, old, new) ==
  fdm_set(p, new, fdm_get(p, old)) /\ UNCHANGED <<d, tree, loaded, inode, cwd, desc, live>>

\* The files part of process_fork.
process_fork(p, q) ==
  /\ q \notin live /\ live' = live \cup {q}
  /\ fdm_copy(p, q) /\ cwd' = [cwd EXCEPT ![q] = cwd[p]]
  /\ UNCHANGED <<d, tree, loaded, inode, desc>>

\* A file may become the working directory.
sys_chdir(p, path) ==
  /\ \E s \in {Find(tree, loaded, cwd[p], path)} :
       Remember(s) /\ cwd' = [cwd EXCEPT ![p] = IF s.ok THEN s.at ELSE @]
  /\ UNCHANGED <<d, inode, top, table, tables, desc, live>>

\* sys_execve of a program that is there: its file is opened and the loader reads
\* from its start. Nobody keeps the open file. What is executed when there is no
\* such program depends on the stack and is not modelled.
elfLoader_load(n) ==
  /\ n.type = "file"
  /\ inode' = Reread(n)
  /\ d' = FileRead(d, [num |-> n.ino, pos |-> 0, inode |-> ReadInode(d, n.ino)], 1).vol
sys_execve(p, name) ==
  /\ \E b \in {Find(tree, loaded, <<>>, [abs |-> FALSE, names |-> <<Bin>>])} :
     \E s \in {Find(b.tree, b.loaded, b.at, [abs |-> FALSE, names |-> <<name>>])} :
       /\ b.ok /\ s.ok
       /\ Remember(s)
       /\ elfLoader_load(NodeAt(s.tree, s.at))
  /\ UNCHANGED <<cwd, top, table, tables, desc, live>>

\* The regular file behind number n, in the form the driver takes.
IsFile(p, n) == fdm_get(p, n) # 0 /\ desc[fdm_get(p, n)].type = "file"
Descriptor(p, n) == LET f == desc[fdm_get(p, n)] IN
                    [num |-> f.num, pos |-> f.pos, inode |-> inode[f.path]]
\* What a call of the driver leaves in the open file and in the inode object.
TookOwnInode(p, n, r) ==
  /\ d' = r.vol
  /\ desc' = [desc EXCEPT ![fdm_get(p, n)].pos = r.file.pos]
  /\ UNCHANGED <<tree, loaded, inode, cwd, top, table, tables, live>>
Took(p, n, r) ==
  /\ d' = r.vol
  /\ desc' = [desc EXCEPT ![fdm_get(p, n)].pos = r.file.pos]
  /\ inode' = [inode EXCEPT ![desc[fdm_get(p, n)].path] = r.file.inode]
  /\ UNCHANGED <<tree, loaded, cwd, top, table, tables, live>>

\* Regular files only: terminals are in Console.
sys_write(p, n, count) ==
  /\ IsFile(p, n) /\ Descriptor(p, n).pos + count <= MaxSize
  /\ Took(p, n, FileWrite(d, Descriptor(p, n), count, Descriptor(p, n).num))
sys_input(p, n, count) == IsFile(p, n) /\ Took(p, n, FileRead(d, Descriptor(p, n), count))
sys_seek(p, n, offset, whence) ==
  IsFile(p, n) /\ Took(p, n, [vol |-> d, file |-> FileSeek(Descriptor(p, n), offset, whence)])

Call(p) ==
  \/ \E path \in OpenPaths : sys_open(p, path)
  \/ \E path \in DirPaths : sys_chdir(p, path)
  \/ \E name \in Names : sys_execve(p, name)
  \/ \E q \in Procs : process_fork(p, q)
  \/ \E n \in UsedFds : \/ sys_close(p, n) \/ \E m \in UsedFds \ {n} : sys_dup2(p, n, m)
                        \/ \E c \in Counts : sys_write(p, n, c) \/ sys_input(p, n, c)
                        \/ sys_seek(p, n, 0, "SEEK_SET")

FNext == calls < MaxCalls /\ calls' = calls + 1 /\ \E p \in live : Call(p)

FSpec == FInit /\ [][FNext]_fvars

-----------------------------------------------------------------------------
\* The two levels of tables are, for each process, one map of its own, which a
\* close or dup2 of another process never changes, and a position moves only by
\* a call on a number that leads to it.
Fd == INSTANCE FdMap WITH Numbers <- Fds,
        fd <- [p \in Procs |-> [n \in Fds |-> fdm_get(p, n)]],
        pos <- [f \in DOMAIN desc |-> desc[f].pos]
ImplementsFds == Fd!Spec

\* The inode object open files share says the same as the disk about the size of
\* the file and the blocks within it, so that an open in between, which reads the
\* inode again, takes nothing away from files that are open.
InodeCoherent ==
  \A x \in DOMAIN inode : LET n == NodeAt(tree, x).ino IN
    n # -1 => /\ inode[x].size = ReadInode(d, n).size
              /\ \A k \in 0..(CountBlocksNeeded(inode[x].size) - 1) :
                   BlockAt(d, inode[x], k) = BlockAt(d, ReadInode(d, n), k)

\* Reading directories lazily cannot be noticed: every path leads where it would
\* lead with all directories of the volume read from the start, to any depth, from
\* any working directory, and the path getcwd returns leads back to it.
Deeper(t) == t \cup {c \in UNION {Children(Disk, n) : n \in {x \in t : x.type = "dir" /\ x.ino # -1}} :
                       c.path \notin PathsOf(t)}
Levels[k \in 0..Cardinality(Disk.inodes_used)] == IF k = 0 THEN AtBoot ELSE Deeper(Levels[k - 1])
Whole == Levels[Cardinality(Disk.inodes_used)]
Lead(s) == <<s.ok, IF s.ok THEN s.at ELSE <<>> >>
LookupsAgree ==
  \A p \in live :
    /\ \A w \in {Whole} : \A path \in OpenPaths \cup DirPaths :
         Lead(Find(tree, loaded, cwd[p], path)) = Lead(Find(w, PathsOf(w), cwd[p], path))
    /\ Lead(Find(tree, loaded, cwd[p], PathTo(cwd[p]))) = <<TRUE, cwd[p]>>

\* vfs_find_entry finds every name that is in a directory of the volume.
NamesFound ==
  \A n \in tree : n.type = "dir" /\ n.ino # -1 =>
    \A e \in Listing(d, n.ino) :
      Find(tree, loaded, n.path, [abs |-> FALSE, names |-> <<e.name>>]).ok
=============================================================================
