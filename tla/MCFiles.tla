------------------------------ MODULE MCFiles ------------------------------
EXTENDS Files

CONSTANTS ProgName, ToolName, FileName, Missing

MCNameLen == [n \in Names |-> 1]
P(abs, names) == [abs |-> abs, names |-> names]
MCOpenPaths == {P(TRUE, <<FileName>>), P(FALSE, <<Dot, ProgName>>)}
MCDirPaths == {P(FALSE, <<Bin>>), P(FALSE, <<Missing>>), P(FALSE, <<DotDot, Dev>>)}

\* Inodes: 2 the root, 3 the directory of programs, 4 a program, 5 an empty file, 6 a tool.
DirOf(b) == [mode |-> "dir", size |-> BS, links |-> 2, block |-> [s \in Slots |-> IF s = 0 THEN b ELSE 0]]
MCDisk ==
  [used |-> {1, 2, 3, 4, TOTAL_BLOCKS}, bg_blocks |-> [g \in Group |-> TOTAL_BLOCKS - 5], sb_blocks |-> TOTAL_BLOCKS - 5,
   inodes_used |-> 1..6, bg_inodes |-> [g \in Group |-> 0], sb_inodes |-> 0, bg_dirs |-> [g \in Group |-> 2],
   inode |-> [i \in Inode |-> CASE i = 2 -> DirOf(2) [] i = 3 -> DirOf(3)
                                [] i = 4 -> [DirOf(4) EXCEPT !.mode = "file", !.size = 1, !.links = 1]
                                [] i \in {5, 6} -> [EmptyInode EXCEPT !.mode = "file", !.links = 1]
                                [] OTHER -> EmptyInode],
   data |-> [b \in Block |-> CASE b = 2 -> <<Entry(2, 3, "dir", Dot), Entry(2, 3, "dir", DotDot),
                                             Entry(3, 3, "dir", Bin), Entry(5, UNITS - 9, "file", FileName)>>
                               [] b = 3 -> <<Entry(3, 3, "dir", Dot), Entry(2, 3, "dir", DotDot),
                                             Entry(4, 3, "file", ProgName), Entry(6, UNITS - 9, "file", ToolName)>>
                               [] b = 4 -> [w \in Word |-> 4]
                               [] OTHER -> Zeros]]
=============================================================================
