------------------------------- MODULE PidMap -------------------------------
(* What the tables PID_MAP, PGID_MAP and SID_MAP promise their callers: a     *)
(* partial function from numbers to objects, with the result of each call.    *)
CONSTANTS Keys, Objects, NULL

VARIABLES map, ret

Init == map = [k \in Keys |-> NULL] /\ ret = NULL

\* A number that is taken is refused, and so is any when memory has run out.
Insert(k, o) ==
  \/ map[k] = NULL /\ map' = [map EXCEPT ![k] = o] /\ ret' = TRUE
  \/ UNCHANGED map /\ ret' = FALSE

Lookup(k) == UNCHANGED map /\ ret' = map[k]

Delete(k) == map' = [map EXCEPT ![k] = NULL] /\ ret' = (map[k] # NULL)

Next == \E k \in Keys : \/ \E o \in Objects : Insert(k, o)
                        \/ Lookup(k)
                        \/ Delete(k)

Spec == Init /\ [][Next]_<<map, ret>>
=============================================================================
