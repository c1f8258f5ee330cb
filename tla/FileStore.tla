----------------------------- MODULE FileStore -----------------------------
(* What the ext2 driver promises its callers: numbered files, each a sequence *)
(* of words, and directories that give them names. A call that fails changes  *)
(* nothing; one that succeeds changes the file or the name it was given.      *)
EXTENDS Integers, Sequences

CONSTANTS Numbers,  \* what files and directories are known by
          Root

VARIABLES kind,     \* "none", "file" or "dir" of each number
          file,     \* the words of each file
          entries   \* triples <<directory, name, number>>

Taken(dir, name) == \E e \in entries : e[1] = dir /\ e[2] = name

Init == /\ kind = [i \in Numbers |-> IF i = Root THEN "dir" ELSE "none"]
        /\ file = [i \in Numbers |-> <<>>]
        /\ entries = {}

Make(dir, name, i, what) ==
  /\ kind[dir] = "dir" /\ ~Taken(dir, name) /\ kind[i] = "none"
  /\ kind' = [kind EXCEPT ![i] = what]
  /\ entries' = entries \cup {<<dir, name, i>>}
  /\ UNCHANGED file

\* A directory goes only when nothing is in it.
Remove(e) ==
  /\ e \in entries /\ \A x \in entries : x[1] # e[3]
  /\ kind' = [kind EXCEPT ![e[3]] = "none"]
  /\ file' = [file EXCEPT ![e[3]] = <<>>]
  /\ entries' = entries \ {e}

Rename(e, dir, name) ==
  /\ e \in entries /\ kind[dir] = "dir" /\ ~Taken(dir, name)
  /\ entries' = (entries \ {e}) \cup {<<dir, name, e[3]>>}
  /\ UNCHANGED <<kind, file>>

\* A write puts one word over a range that starts in the file and may pass its end.
Written(old, new) ==
  /\ Len(new) >= Len(old)
  /\ \E from \in 1..(Len(old) + 1), to \in 1..Len(new) :
       /\ from <= to /\ (Len(new) > Len(old) => to = Len(new))
       /\ \A p \in DOMAIN new : new[p] = IF p \in from..to THEN new[from] ELSE old[p]

\* What remains is as it was; what a longer file gains is not specified.
Truncated(old, new) == \A p \in DOMAIN new \cap DOMAIN old : new[p] = old[p]

Change ==
  /\ UNCHANGED <<kind, entries>>
  /\ \E old \in {file}, new \in {file'} : old # new /\ \E i \in Numbers :
       /\ kind[i] = "file" /\ \A j \in Numbers \ {i} : new[j] = old[j]
       /\ Written(old[i], new[i]) \/ Truncated(old[i], new[i])

Next == \/ \E e \in entries' \ entries, what \in {"file", "dir"} : Make(e[1], e[2], e[3], what)
        \/ \E e \in entries \ entries' : \/ Remove(e)
                                        \/ \E x \in entries' \ entries : Rename(e, x[1], x[2])
        \/ Change

Spec == Init /\ [][Next]_<<kind, file, entries>>
=============================================================================
