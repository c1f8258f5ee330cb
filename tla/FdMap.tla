------------------------------- MODULE FdMap -------------------------------
(* What descriptor tables promise to processes: each has its own map from     *)
(* numbers to open files. Open files, and the positions in them, are shared   *)
(* by the numbers that dup2 and fork made of one.                             *)
EXTENDS Integers, Sequences

CONSTANTS Procs, Numbers

VARIABLES fd,   \* fd[p][n]: open file of number n in process p, 0 if none
          pos   \* position in each open file, in the order they were opened

\* No number is in use when the first process starts.
Init == fd = [p \in Procs |-> [n \in Numbers |-> 0]] /\ pos = <<>>

Open(p) == /\ Len(pos') = Len(pos) + 1 /\ SubSeq(pos', 1, Len(pos)) = pos
           /\ fd' = [fd EXCEPT ![p][0] = Len(pos')]
Close(p, n) == fd' = [fd EXCEPT ![p][n] = 0] /\ UNCHANGED pos
Dup2(p, old, new) == fd' = [fd EXCEPT ![p][new] = fd[p][old]] /\ UNCHANGED pos
Fork(p, q) == fd' = [fd EXCEPT ![q] = fd[p]] /\ UNCHANGED pos
Move(p, n) == /\ fd[p][n] # 0 /\ UNCHANGED fd
              /\ \E to \in {pos'[fd[p][n]]} : pos' = [pos EXCEPT ![fd[p][n]] = to]

Next == \E p \in Procs : \/ Open(p) \/ \E q \in Procs : Fork(p, q)
                         \/ \E n \in Numbers : \/ Close(p, n) \/ Move(p, n)
                                               \/ \E m \in Numbers : Dup2(p, n, m)

Spec == Init /\ [][Next]_<<fd, pos>>
=============================================================================
