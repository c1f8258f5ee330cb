------------------------------ MODULE PidTable ------------------------------
(* The hash table of src/src/kernel/pidHashTable.c: chains of nodes that are  *)
(* cut from pages and kept in a free list once they have been used. A chain   *)
(* and the free list are the sequences of their nodes from the head on.       *)
EXTENDS Integers, Sequences, FiniteSets, SequencesExt

CONSTANTS Keys,           \* numbers used as keys (pids, group and session ids)
          Objects,        \* what they stand for
          NULL,
          PID_HASH_SIZE,  \* buckets
          NODES_PER_PAGE,
          MaxPages        \* bound: frames pages_allocatePage has for the table

ASSUME PidTableAssumption == /\ Keys \subseteq Nat /\ NULL \notin Objects
                             /\ PID_HASH_SIZE \in Nat \ {0}
                             /\ NODES_PER_PAGE \in Nat \ {0} /\ MaxPages \in Nat

VARIABLES buckets,          \* chain of nodes of each bucket
          free_nodes, pages_allocated,
          node,             \* pid and proc of each node
          ret,              \* result of the last call
          cr3               \* page table that is loaded

tvars == <<buckets, free_nodes, pages_allocated, node, ret, cr3>>

Nodes == 1..(MaxPages * NODES_PER_PAGE)

pid_hash(pid) == pid % PID_HASH_SIZE

TInit == /\ buckets = [h \in 0..(PID_HASH_SIZE - 1) |-> <<>>]
         /\ free_nodes = <<>> /\ pages_allocated = 0
         /\ node = [n \in Nodes |-> [pid |-> 0, proc |-> NULL]]
         /\ ret = NULL /\ cr3 = "caller"

\* The nodes of the next page go into the list one by one, each before the last.
PageNodes == [i \in 1..NODES_PER_PAGE |-> (pages_allocated + 1) * NODES_PER_PAGE + 1 - i]

\* The free list alloc_node finds, after it has taken a page if there was none.
Refill == IF free_nodes = <<>> /\ pages_allocated < MaxPages THEN PageNodes ELSE free_nodes

\* Positions of the node for pid in its chain: the walk stops at the first.
Found(pid) == {i \in DOMAIN buckets[pid_hash(pid)] : node[buckets[pid_hash(pid)][i]].pid = pid}
First(pid) == CHOOSE i \in Found(pid) : \A j \in Found(pid) : i <= j

\* Returns with the kernel's page table loaded (pidHashTable.c:143).
InsertDuplicate(pid, proc) ==
  /\ Found(pid) # {}
  /\ ret' = FALSE /\ cr3' = "kernel"
  /\ UNCHANGED <<buckets, free_nodes, pages_allocated, node>>

InsertNoMemory(pid, proc) ==
  /\ Found(pid) = {} /\ Refill = <<>>
  /\ ret' = FALSE
  /\ UNCHANGED <<buckets, free_nodes, pages_allocated, node, cr3>>

InsertAnyBucket(pid, proc) ==
  /\ Found(pid) = {} /\ Refill # <<>>
  /\ LET n == Head(Refill) IN
     /\ node' = [node EXCEPT ![n] = [pid |-> pid, proc |-> proc]]
     /\ buckets' = [buckets EXCEPT ![0] = <<n>> \o @]
     /\ free_nodes' = Tail(Refill)
  /\ pages_allocated' = IF free_nodes = <<>> THEN pages_allocated + 1 ELSE pages_allocated
  /\ ret' = TRUE /\ UNCHANGED cr3
Insert(pid, proc) ==
  /\ Found(pid) = {} /\ Refill # <<>>
  /\ LET n == Head(Refill) IN
     /\ node' = [node EXCEPT ![n] = [pid |-> pid, proc |-> proc]]
     /\ buckets' = [buckets EXCEPT ![pid_hash(pid)] = <<n>> \o @]
     /\ free_nodes' = Tail(Refill)
  /\ pages_allocated' = IF free_nodes = <<>> THEN pages_allocated + 1 ELSE pages_allocated
  /\ ret' = TRUE /\ UNCHANGED cr3

\* What the walk of a lookup returns.
lookup(pid) == IF Found(pid) = {} THEN NULL ELSE node[buckets[pid_hash(pid)][First(pid)]].proc

Lookup(pid) == /\ ret' = lookup(pid)
               /\ UNCHANGED <<buckets, free_nodes, pages_allocated, node, cr3>>

DeleteMissing(pid) == /\ Found(pid) = {} /\ ret' = FALSE
                      /\ UNCHANGED <<buckets, free_nodes, pages_allocated, node, cr3>>

DeleteKeepsLink(pid) ==
  /\ Found(pid) # {}
  /\ free_nodes' = <<buckets[pid_hash(pid)][First(pid)]>> \o free_nodes
  /\ ret' = TRUE /\ UNCHANGED <<buckets, pages_allocated, node, cr3>>
Delete(pid) ==
  /\ Found(pid) # {}
  /\ buckets' = [buckets EXCEPT ![pid_hash(pid)] = RemoveAt(@, First(pid))]
  /\ free_nodes' = <<buckets[pid_hash(pid)][First(pid)]>> \o free_nodes
  /\ ret' = TRUE /\ UNCHANGED <<pages_allocated, node, cr3>>

TNext == \E pid \in Keys :
           \/ \E o \in Objects : InsertDuplicate(pid, o) \/ InsertNoMemory(pid, o) \/ Insert(pid, o)
           \/ Lookup(pid)
           \/ DeleteMissing(pid) \/ Delete(pid)

TSpec == TInit /\ [][TNext]_tvars

-----------------------------------------------------------------------------
\* Every node that was cut from a page is in exactly one chain or in the free
\* list, once, whatever was inserted and deleted: no node is lost by
\* pid_hash_delete, and none is handed out while a chain still runs through it.
NodesAccounted ==
  LET places == UNION {{h} \X DOMAIN buckets[h] : h \in DOMAIN buckets} IN
  \A n \in 1..(pages_allocated * NODES_PER_PAGE) :
     Cardinality({p \in places : buckets[p[1]][p[2]] = n})
       + Cardinality({i \in DOMAIN free_nodes : free_nodes[i] = n}) = 1

\* The table is the function its users take it for (scheduler.c:37,
\* process.c:93-175 and syscalls.c look pids, groups and sessions up in one):
\* insert, lookup and delete answer as PidMap does, through collisions in a
\* bucket, deletions in the middle of a chain and nodes that are used again.
Map == INSTANCE PidMap WITH map <- [k \in Keys |-> lookup(k)]
ImplementsMap == Map!Spec
=============================================================================
