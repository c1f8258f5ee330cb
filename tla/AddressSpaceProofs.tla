------------------------- MODULE AddressSpaceProofs --------------------------
(***************************************************************************)
(* Proofs about module AddressSpace, for any number of processes, tables,  *)
(* frames and pages.                                                       *)
(***************************************************************************)
EXTENDS AddressSpace, TLAPS

\* The tables that processes and the CPU use have been made; no two processes have the
\* same, and the CPU uses none of a process that waits for it.
TablesOwned ==
  /\ cr3 \in made /\ \A p \in Proc : page_table[p] \in made
  /\ \A p, q \in live : page_table[p] = page_table[q] => p = q
  /\ \A q \in live : page_table[q] = cr3 => q = CURRENT

\* A table that has not been made is empty, and none was copied from it or from itself.
Unmade ==
  /\ \A t \in Table \ made : \A v \in VPage : tables[t][v] = Absent
  /\ \A t \in Table : lineage[t] \subseteq made \ {t}

\* What is mapped has been handed out.
MappedInUse == \A t \in Table, v \in VPage : Present(t, v) => tables[t][v].frame \in frames

\* Another entry that leads to a frame with a writable entry is a read-only copy of it.
SharedDown ==
  \A t, u \in Table, v, w \in VPage :
     (/\ Present(t, v) /\ tables[t][v].writable
      /\ Present(u, w) /\ tables[u][w].frame = tables[t][v].frame
      /\ ~(t = u /\ v = w)) => ~tables[u][w].writable /\ t \in lineage[u]

AInv == ATypeOK /\ TablesOwned /\ Unmade /\ MappedInUse /\ SharedDown

-----------------------------------------------------------------------------
\* The allocator's answers are new.
LEMMA NewIsNew ==
  ASSUME ATypeOK
  PROVE  /\ frames # Frame => NewFrame \in Frame \ frames
         /\ made # Table => NewTable \in Table \ made
  BY DEF ATypeOK, NewFrame, NewTable

\* The entry pageTable_addPage makes.
NewEntry(f) == [frame |-> f, writable |-> TRUE, cow |-> FALSE]

LEMMA NewEntryIs ==
  \A f \in Frame : /\ NewEntry(f) \in Entry /\ NewEntry(f) # Absent
                   /\ NewEntry(f).frame = f /\ NewEntry(f).writable = TRUE
<1> TAKE f \in Frame
<1>1. NewEntry(f) \in Entry
  BY DEF Entry, NewEntry
<1>2. NewEntry(f) # Absent
  BY <1>1, AbsentAssumption
<1>3. NewEntry(f).frame = f /\ NewEntry(f).writable = TRUE
  BY DEF NewEntry
<1> QED BY <1>1, <1>2, <1>3

\* What pageTable_addPage does to a table.
LEMMA AddPageIs ==
  \A pages \in [VPage -> Entry \cup {Absent}], v \in VPage, f \in Frame :
     /\ AddPage(pages, v, f) \in [VPage -> Entry \cup {Absent}]
     /\ AddPage(pages, v, f)[v] # Absent
     /\ AddPage(pages, v, f)[v].frame = f
     /\ AddPage(pages, v, f)[v].writable = TRUE
     /\ \A w \in VPage \ {v} : AddPage(pages, v, f)[w] = pages[w]
<1> TAKE pages \in [VPage -> Entry \cup {Absent}], v \in VPage, f \in Frame
<1>1. AddPage(pages, v, f) = [pages EXCEPT ![v] = NewEntry(f)]
  BY DEF AddPage, NewEntry
<1> QED BY <1>1, NewEntryIs

\* The copy of a table: the same frames in the same places, and nothing writable.
LEMMA CopyIs ==
  \A pages \in [VPage -> Entry \cup {Absent}] :
     /\ PageTableFork(pages) \in [VPage -> Entry \cup {Absent}]
     /\ \A v \in VPage :
           /\ PageTableFork(pages)[v] = Absent <=> pages[v] = Absent
           /\ pages[v] # Absent =>
                 /\ PageTableFork(pages)[v].frame = pages[v].frame
                 /\ PageTableFork(pages)[v].writable = FALSE
<1> TAKE pages \in [VPage -> Entry \cup {Absent}]
<1> SUFFICES ASSUME NEW v \in VPage
             PROVE  /\ CopyEntry(pages[v]) \in Entry \cup {Absent}
                    /\ CopyEntry(pages[v]) = Absent <=> pages[v] = Absent
                    /\ pages[v] # Absent => /\ CopyEntry(pages[v]).frame = pages[v].frame
                                            /\ CopyEntry(pages[v]).writable = FALSE
  BY DEF PageTableFork
<1>1. CASE pages[v] = Absent
  BY <1>1 DEF CopyEntry
<1>2. CASE pages[v] # Absent
  <2>1. pages[v].frame \in Frame /\ (pages[v].cow \/ pages[v].writable) \in BOOLEAN
    BY <1>2 DEF Entry
  <2>2. CopyEntry(pages[v]) = [frame |-> pages[v].frame, writable |-> FALSE,
                               cow |-> pages[v].cow \/ pages[v].writable]
    BY <1>2 DEF CopyEntry
  <2>3. CopyEntry(pages[v]) \in Entry
    BY <2>1, <2>2 DEF Entry
  <2>4. CopyEntry(pages[v]).frame = pages[v].frame /\ CopyEntry(pages[v]).writable = FALSE
    BY <2>2
  <2> QED BY <1>2, <2>3, <2>4, AbsentAssumption
<1> QED BY <1>1, <1>2

-----------------------------------------------------------------------------
\* The first program.
LEMMA AInitKeeps ==
  ASSUME AInit
  PROVE  AInv
<1> DEFINE t == CHOOSE u \in Table : TRUE
           i == CHOOSE f \in Frame : TRUE
           s == CHOOSE f \in Frame \ {i} : TRUE
           e == Program(i, s)
<1>1. t \in Table /\ i \in Frame /\ s \in Frame /\ s # i
  <2>1. t \in Table /\ i \in Frame
    BY RoomAssumption
  <2>2. \E f \in Frame : f \in Frame \ {i}
    BY RoomAssumption
  <2> QED BY <2>1, <2>2
<1>2. PICK p \in Proc :
         /\ live = {p} /\ CURRENT = p /\ cr3 = t
         /\ page_table = [q \in Proc |-> t]
         /\ heap_end = [q \in Proc |-> HeapStart]
         /\ tables = [u \in Table |-> IF u = t THEN e ELSE NoPages]
         /\ memory = [f \in Frame |-> Zero]
         /\ frames = {i, s} /\ made = {t}
         /\ lineage = [u \in Table |-> {}]
  BY DEF AInit
<1>3. Image \in VPage /\ Stack \in VPage /\ Image # Stack /\ HeapStart \in HeapStart..HeapStart + MaxHeap
  BY MaxHeapAssumption DEF Image, Stack, VPage, HeapStart
<1>4. NoPages \in [VPage -> Entry \cup {Absent}] /\ \A v \in VPage : NoPages[v] = Absent
  BY DEF NoPages
<1>5. /\ e \in [VPage -> Entry \cup {Absent}]
      /\ e[Image].frame = i /\ e[Stack].frame = s
      /\ \A v \in VPage \ {Image, Stack} : e[v] = Absent
  <2> DEFINE a == AddPage(NoPages, Image, i)
  <2>1. /\ a \in [VPage -> Entry \cup {Absent}] /\ a[Image].frame = i
        /\ \A v \in VPage \ {Image} : a[v] = Absent
    BY <1>1, <1>3, <1>4, AddPageIs
  <2>2. e = AddPage(a, Stack, s)
    BY DEF Program
  <2> HIDE DEF a, e
  <2>3. /\ e \in [VPage -> Entry \cup {Absent}] /\ e[Stack].frame = s
        /\ \A v \in VPage \ {Stack} : e[v] = a[v]
    BY <1>1, <1>3, <2>1, <2>2, AddPageIs
  <2> QED BY <1>3, <2>1, <2>3
<1> HIDE DEF t, i, s, e
<1>6. ATypeOK
  BY <1>1, <1>2, <1>3, <1>4, <1>5, ZeroAssumption DEF ATypeOK
<1>7. TablesOwned
  BY <1>1, <1>2 DEF TablesOwned
<1>8. Unmade
  BY <1>1, <1>2, <1>4 DEF Unmade
<1>9. \A u \in Table, v \in VPage : Present(u, v) => u = t /\ v \in {Image, Stack}
  BY <1>1, <1>2, <1>4, <1>5 DEF Present
<1>10. MappedInUse
  <2>1. tables[t][Image].frame = i /\ tables[t][Stack].frame = s
    BY <1>1, <1>2, <1>5
  <2> QED BY <1>2, <1>9, <2>1 DEF MappedInUse
<1>11. SharedDown
  <2>1. tables[t][Image].frame = i /\ tables[t][Stack].frame = s
    BY <1>1, <1>2, <1>5
  <2> QED BY <1>1, <1>9, <2>1 DEF SharedDown
<1> QED BY <1>6, <1>7, <1>8, <1>10, <1>11 DEF AInv

\* What a step that maps a new frame at page v of one table, the table of the process on
\* the CPU, keeps: the copy of a page and mmap.
LEMMA MapKeeps ==
  ASSUME AInv, NEW v \in VPage, frames # Frame,
         frames' = frames \cup {NewFrame},
         tables' = [tables EXCEPT ![page_table[CURRENT]] =
                      AddPage(tables[page_table[CURRENT]], v, NewFrame)],
         memory' \in [Frame -> Value],
         heap_end' \in [Proc -> HeapStart..HeapStart + MaxHeap],
         live' = live, CURRENT' = CURRENT, cr3' = cr3, page_table' = page_table,
         made' = made, lineage' = lineage
  PROVE  AInv'
<1> DEFINE T == page_table[CURRENT]
           F == NewFrame
           E == AddPage(tables[T], v, F)
<1>1. F \in Frame \ frames
  BY NewIsNew DEF AInv
<1>2. /\ T \in Table /\ T \in made /\ CURRENT \in live /\ live \subseteq Proc
      /\ tables \in [Table -> [VPage -> Entry \cup {Absent}]]
      /\ frames \subseteq Frame
  <2>1. /\ CURRENT \in live /\ live \subseteq Proc /\ page_table \in [Proc -> Table]
        /\ tables \in [Table -> [VPage -> Entry \cup {Absent}]] /\ frames \subseteq Frame
    BY DEF AInv, ATypeOK
  <2> QED BY <2>1 DEF AInv, TablesOwned
<1>3. /\ E \in [VPage -> Entry \cup {Absent}] /\ E[v] # Absent
      /\ E[v].frame = F /\ E[v].writable = TRUE
      /\ \A w \in VPage \ {v} : E[w] = tables[T][w]
  <2>1. tables[T] \in [VPage -> Entry \cup {Absent}] /\ F \in Frame
    BY <1>1, <1>2
  <2> HIDE DEF T, F
  <2> QED BY ONLY <2>1, v \in VPage, AddPageIs
<1>4. tables' = [tables EXCEPT ![T] = E]
  OBVIOUS
<1>5. frames' = frames \cup {F}
  OBVIOUS
<1> HIDE DEF T, F, E
<1>6. /\ \A t \in Table \ {T} : tables'[t] = tables[t]
      /\ tables'[T] = E
      /\ tables' \in [Table -> [VPage -> Entry \cup {Absent}]]
  BY <1>2, <1>3, <1>4
<1>7. ATypeOK'
  BY <1>1, <1>2, <1>5, <1>6 DEF AInv, ATypeOK
<1>8. TablesOwned'
  BY DEF AInv, TablesOwned
<1>9. Unmade'
  BY <1>2, <1>6 DEF AInv, Unmade
<1>10. \A t \in Table, w \in VPage :
          \/ t = T /\ w = v /\ tables'[t][w].frame = F
          \/ ~(t = T /\ w = v) /\ tables'[t][w] = tables[t][w]
  BY <1>3, <1>6
<1>11. MappedInUse'
  BY <1>5, <1>10 DEF AInv, MappedInUse, Present
<1>12. SharedDown'
  <2> SUFFICES ASSUME NEW t \in Table, NEW u \in Table, NEW a \in VPage, NEW b \in VPage,
                      tables'[t][a] # Absent, tables'[t][a].writable,
                      tables'[u][b] # Absent, tables'[u][b].frame = tables'[t][a].frame,
                      ~(t = u /\ a = b)
               PROVE  ~tables'[u][b].writable /\ t \in lineage[u]
    BY DEF SharedDown, Present
  <2>1. \A x \in Table, w \in VPage : tables[x][w] # Absent => tables[x][w].frame # F
    BY <1>1 DEF AInv, MappedInUse, Present
  <2>2. ~(t = T /\ a = v) /\ ~(u = T /\ b = v)
    BY <1>10, <2>1
  <2>3. tables'[t][a] = tables[t][a] /\ tables'[u][b] = tables[u][b]
    BY <1>10, <2>2
  <2> QED BY <2>3 DEF AInv, SharedDown, Present
<1> QED BY <1>7, <1>8, <1>9, <1>11, <1>12 DEF AInv

\* What a step that gives the process on the CPU, or a new one, a new table keeps, when
\* that table has new frames only: execve.
LEMMA LoadKeeps ==
  ASSUME AInv, made # Table,
         NEW pages \in [VPage -> Entry \cup {Absent}],
         \A v \in VPage : pages[v] # Absent => pages[v].frame \in frames' \ frames,
         \A v, w \in VPage : (/\ pages[v] # Absent /\ pages[w] # Absent
                              /\ pages[v].frame = pages[w].frame) => v = w,
         frames \subseteq frames', frames' \subseteq Frame,
         made' = made \cup {NewTable},
         tables' = [tables EXCEPT ![NewTable] = pages],
         page_table' = [page_table EXCEPT ![CURRENT] = NewTable],
         heap_end' = [heap_end EXCEPT ![CURRENT] = HeapStart],
         memory' \in [Frame -> Value],
         live' = live, CURRENT' = CURRENT, cr3' = cr3, lineage' = lineage
  PROVE  AInv'
<1> DEFINE N == NewTable
<1>1. N \in Table \ made
  BY NewIsNew DEF AInv
<1>2. /\ CURRENT \in live /\ live \subseteq Proc /\ page_table \in [Proc -> Table]
      /\ tables \in [Table -> [VPage -> Entry \cup {Absent}]] /\ made \subseteq Table
      /\ heap_end \in [Proc -> HeapStart..HeapStart + MaxHeap]
      /\ HeapStart \in HeapStart..HeapStart + MaxHeap
  BY MaxHeapAssumption DEF AInv, ATypeOK, HeapStart
<1>3. /\ made' = made \cup {N} /\ tables' = [tables EXCEPT ![N] = pages]
      /\ page_table' = [page_table EXCEPT ![CURRENT] = N]
  OBVIOUS
<1> HIDE DEF N
<1>4. ATypeOK'
  <2>1. /\ tables' \in [Table -> [VPage -> Entry \cup {Absent}]] /\ made' \subseteq Table
        /\ page_table' \in [Proc -> Table]
        /\ heap_end' \in [Proc -> HeapStart..HeapStart + MaxHeap]
    BY <1>1, <1>2, <1>3
  <2> QED BY <2>1 DEF AInv, ATypeOK
<1>5. \A p \in Proc : page_table'[p] = IF p = CURRENT THEN N ELSE page_table[p]
  BY <1>2, <1>3
<1>6. TablesOwned'
  BY <1>1, <1>2, <1>3, <1>5 DEF AInv, TablesOwned
<1>7. /\ \A t \in Table \ {N} : tables'[t] = tables[t]
      /\ tables'[N] = pages
  BY <1>1, <1>2, <1>3
<1>8. Unmade'
  BY <1>1, <1>3, <1>7 DEF AInv, Unmade
<1>9. MappedInUse'
  BY <1>7 DEF AInv, MappedInUse, Present
<1>10. SharedDown'
  <2> SUFFICES ASSUME NEW t \in Table, NEW u \in Table, NEW a \in VPage, NEW b \in VPage,
                      tables'[t][a] # Absent, tables'[t][a].writable,
                      tables'[u][b] # Absent, tables'[u][b].frame = tables'[t][a].frame,
                      ~(t = u /\ a = b)
               PROVE  ~tables'[u][b].writable /\ t \in lineage[u]
    BY DEF SharedDown, Present
  <2>1. \A x \in Table, w \in VPage : tables[x][w] # Absent => tables[x][w].frame \in frames
    BY DEF AInv, MappedInUse, Present
  <2>2. t # N /\ u # N
    BY <1>7, <2>1
  <2>3. tables'[t][a] = tables[t][a] /\ tables'[u][b] = tables[u][b]
    BY <1>7, <2>2
  <2> QED BY <2>3 DEF AInv, SharedDown, Present
<1> QED BY <1>4, <1>6, <1>8, <1>9, <1>10 DEF AInv

\* execve, of a program and of another file.
LEMMA ExecveKeeps ==
  ASSUME AInv, Execve \/ ExecveNoProgram
  PROVE  AInv'
<1> DEFINE i == NewFrame
           s == CHOOSE f \in Frame \ (frames \cup {i}) : TRUE
<1>1. Image \in VPage /\ Stack \in VPage /\ Image # Stack
  BY MaxHeapAssumption DEF Image, Stack, VPage, HeapStart
<1>2. NoPages \in [VPage -> Entry \cup {Absent}] /\ \A v \in VPage : NoPages[v] = Absent
  BY DEF NoPages
<1>3. frames # Frame /\ i \in Frame \ frames /\ frames \subseteq Frame /\ memory \in [Frame -> Value]
  BY NewIsNew DEF AInv, ATypeOK, Execve, ExecveNoProgram
<1>4. CASE Execve
  <2>1. s \in Frame \ (frames \cup {i})
    <3>1. frames \cup {i} # Frame /\ frames \cup {i} \subseteq Frame
      BY <1>3, <1>4 DEF Execve
    <3>2. \E f \in Frame \ (frames \cup {i}) : TRUE
      BY <3>1
    <3> QED BY <3>2
  <2> DEFINE pages == Program(i, s)
             a == AddPage(NoPages, Image, i)
  <2>2. /\ made # Table
        /\ frames' = frames \cup {i, s}
        /\ made' = made \cup {NewTable}
        /\ tables' = [tables EXCEPT ![NewTable] = pages]
        /\ memory' = [memory EXCEPT ![i] = Zero]
        /\ page_table' = [page_table EXCEPT ![CURRENT] = NewTable]
        /\ heap_end' = [heap_end EXCEPT ![CURRENT] = HeapStart]
        /\ live' = live /\ CURRENT' = CURRENT /\ cr3' = cr3 /\ lineage' = lineage
    BY <1>4 DEF Execve
  <2>3. pages = AddPage(a, Stack, s)
    BY DEF Program
  <2> HIDE DEF pages
  <2>4. /\ a \in [VPage -> Entry \cup {Absent}] /\ a[Image].frame = i
        /\ \A v \in VPage \ {Image} : a[v] = Absent
    BY <1>1, <1>2, <1>3, AddPageIs
  <2> HIDE DEF a
  <2>5. /\ pages \in [VPage -> Entry \cup {Absent}] /\ pages[Stack].frame = s
        /\ \A v \in VPage \ {Stack} : pages[v] = a[v]
    BY <1>1, <2>1, <2>3, <2>4, AddPageIs
  <2>6. /\ pages[Image].frame = i /\ pages[Stack].frame = s
        /\ \A v \in VPage : pages[v] # Absent => v \in {Image, Stack}
    BY <1>1, <2>4, <2>5
  <2>7. memory' \in [Frame -> Value]
    BY <1>3, <2>2, ZeroAssumption
  <2>8. \A v \in VPage : pages[v] # Absent => pages[v].frame \in frames' \ frames
    BY <1>3, <2>1, <2>2, <2>6
  <2>9. \A v, w \in VPage : (/\ pages[v] # Absent /\ pages[w] # Absent
                             /\ pages[v].frame = pages[w].frame) => v = w
    BY <2>1, <2>6
  <2> QED BY <1>3, <2>1, <2>2, <2>5, <2>7, <2>8, <2>9, LoadKeeps
<1>5. CASE ExecveNoProgram
  <2> DEFINE pages == AddPage(NoPages, Stack, i)
  <2>1. /\ made # Table
        /\ frames' = frames \cup {i}
        /\ made' = made \cup {NewTable}
        /\ tables' = [tables EXCEPT ![NewTable] = pages]
        /\ memory' = memory
        /\ page_table' = [page_table EXCEPT ![CURRENT] = NewTable]
        /\ heap_end' = [heap_end EXCEPT ![CURRENT] = HeapStart]
        /\ live' = live /\ CURRENT' = CURRENT /\ cr3' = cr3 /\ lineage' = lineage
    BY <1>5 DEF ExecveNoProgram
  <2> HIDE DEF i
  <2>2. /\ pages \in [VPage -> Entry \cup {Absent}] /\ pages[Stack].frame = i
        /\ \A v \in VPage \ {Stack} : pages[v] = Absent
    BY <1>1, <1>2, <1>3, AddPageIs
  <2> HIDE DEF pages
  <2> QED BY <1>3, <2>1, <2>2, LoadKeeps
<1> QED BY <1>4, <1>5

\* fork: the frames the copy shares are read-only in it, and its lineage names every
\* table they are writable in.
LEMMA ForkKeeps ==
  ASSUME AInv, NEW c \in Proc, Fork(c)
  PROVE  AInv'
<1> DEFINE P == page_table[CURRENT]
           N == NewTable
           pages == PageTableFork(tables[P])
<1>1. /\ c \notin live /\ made # Table
      /\ made' = made \cup {N}
      /\ tables' = [tables EXCEPT ![N] = pages]
      /\ page_table' = [page_table EXCEPT ![c] = N]
      /\ heap_end' = [heap_end EXCEPT ![c] = heap_end[CURRENT]]
      /\ live' = live \cup {c}
      /\ CURRENT' = c /\ cr3' = N
      /\ lineage' = [lineage EXCEPT ![N] = lineage[P] \cup {P}]
      /\ memory' = memory /\ frames' = frames
  BY DEF Fork
<1>2. N \in Table \ made
  BY <1>1, NewIsNew DEF AInv
<1>3. /\ CURRENT \in live /\ live \subseteq Proc /\ page_table \in [Proc -> Table]
      /\ tables \in [Table -> [VPage -> Entry \cup {Absent}]] /\ made \subseteq Table
      /\ heap_end \in [Proc -> HeapStart..HeapStart + MaxHeap]
      /\ memory \in [Frame -> Value] /\ frames \subseteq Frame
      /\ lineage \in [Table -> SUBSET Table]
  BY DEF AInv, ATypeOK
<1>4. P \in made /\ P \in Table /\ P # N
  BY <1>2, <1>3 DEF AInv, TablesOwned
<1>5. /\ pages \in [VPage -> Entry \cup {Absent}]
      /\ \A v \in VPage : /\ pages[v] = Absent <=> tables[P][v] = Absent
                          /\ pages[v] # Absent => /\ pages[v].frame = tables[P][v].frame
                                                  /\ pages[v].writable = FALSE
  <2>1. tables[P] \in [VPage -> Entry \cup {Absent}]
    BY <1>3, <1>4
  <2> HIDE DEF P
  <2> QED BY <2>1, CopyIs
<1> HIDE DEF P, N, pages
<1>6. /\ \A t \in Table \ {N} : tables'[t] = tables[t] /\ lineage'[t] = lineage[t]
      /\ tables'[N] = pages /\ lineage'[N] = lineage[P] \cup {P}
      /\ \A p \in Proc \ {c} : page_table'[p] = page_table[p]
      /\ page_table'[c] = N
  BY <1>1, <1>2, <1>3
<1>7. ATypeOK'
  <2>1. /\ live' \subseteq Proc /\ CURRENT' \in live' /\ cr3' \in Table
        /\ page_table' \in [Proc -> Table]
        /\ heap_end' \in [Proc -> HeapStart..HeapStart + MaxHeap]
    BY <1>1, <1>2, <1>3
  <2>2. /\ tables' \in [Table -> [VPage -> Entry \cup {Absent}]]
        /\ memory' \in [Frame -> Value]
        /\ frames' \subseteq Frame /\ made' \subseteq Table
    BY <1>1, <1>2, <1>3, <1>5
  <2>3. lineage' \in [Table -> SUBSET Table]
    <3>1. lineage[P] \cup {P} \in SUBSET Table
      BY <1>3, <1>4
    <3> QED BY <1>1, <1>3, <3>1
  <2> QED BY <2>1, <2>2, <2>3 DEF ATypeOK
<1>8. TablesOwned'
  BY <1>1, <1>2, <1>3, <1>6 DEF AInv, TablesOwned
<1>9. Unmade'
  <2>1. \A t \in Table \ made' : \A v \in VPage : tables'[t][v] = Absent
    BY <1>1, <1>2, <1>6 DEF AInv, Unmade
  <2>2. \A t \in Table : lineage[t] \subseteq made \ {t}
    BY DEF AInv, Unmade
  <2>3. \A t \in Table : lineage'[t] \subseteq made' \ {t}
    BY <1>1, <1>2, <1>4, <1>6, <2>2
  <2> QED BY <2>1, <2>3 DEF Unmade
<1>10. MappedInUse'
  BY <1>1, <1>4, <1>5, <1>6 DEF AInv, MappedInUse, Present
<1>11. SharedDown'
  <2> SUFFICES ASSUME NEW t \in Table, NEW u \in Table, NEW a \in VPage, NEW b \in VPage,
                      tables'[t][a] # Absent, tables'[t][a].writable,
                      tables'[u][b] # Absent, tables'[u][b].frame = tables'[t][a].frame,
                      ~(t = u /\ a = b)
               PROVE  ~tables'[u][b].writable /\ t \in lineage'[u]
    BY DEF SharedDown, Present
  <2>1. t # N
    BY <1>5, <1>6
  <2>2. tables'[t] = tables[t]
    BY <1>6, <2>1
  <2>3. \A x \in Table, w \in VPage :
           (/\ tables[t][a] # Absent /\ tables[t][a].writable
            /\ tables[x][w] # Absent /\ tables[x][w].frame = tables[t][a].frame
            /\ ~(t = x /\ a = w)) => ~tables[x][w].writable /\ t \in lineage[x]
    BY DEF AInv, SharedDown, Present
  <2>4. CASE u # N
    <3>1. tables'[u] = tables[u] /\ lineage'[u] = lineage[u]
      BY <1>6, <2>4
    <3> QED BY <2>2, <2>3, <3>1
  <2>5. CASE u = N
    <3>1. pages[b] # Absent /\ pages[b].frame = tables[t][a].frame
      BY <1>6, <2>2, <2>5
    <3>2. /\ ~pages[b].writable /\ tables[P][b] # Absent
          /\ tables[P][b].frame = tables[t][a].frame
      BY <1>5, <3>1
    <3>3. t = P \/ t \in lineage[P]
      BY <1>4, <2>2, <2>3, <3>2
    <3> QED BY <1>6, <2>5, <3>2, <3>3
  <2> QED BY <2>4, <2>5
<1> QED BY <1>7, <1>8, <1>9, <1>10, <1>11 DEF AInv

\* A switch and the end of a process change the CPU only.
LEMMA LeaveKeeps ==
  ASSUME AInv, Leave \/ \E q \in Proc : Switch(q)
  PROVE  AInv'
<1>1. /\ live' \subseteq live /\ CURRENT' \in live' /\ cr3' = page_table[CURRENT']
      /\ page_table' = page_table /\ heap_end' = heap_end /\ tables' = tables
      /\ memory' = memory /\ frames' = frames /\ made' = made /\ lineage' = lineage
  BY DEF Leave, Switch, SwitchTo
<1>2. ATypeOK'
  BY <1>1 DEF AInv, ATypeOK
<1>3. TablesOwned'
  BY <1>1 DEF AInv, ATypeOK, TablesOwned
<1>4. Unmade' /\ MappedInUse' /\ SharedDown'
  BY <1>1 DEF AInv, Unmade, MappedInUse, SharedDown, Present
<1> QED BY <1>2, <1>3, <1>4 DEF AInv

\* A store changes what a frame holds.
LEMMA StoreKeeps ==
  ASSUME AInv, NEW v \in VPage, NEW x \in Value, Store(v, x)
  PROVE  AInv'
<1>1. /\ live' = live /\ CURRENT' = CURRENT /\ cr3' = cr3
      /\ page_table' = page_table /\ heap_end' = heap_end /\ tables' = tables
      /\ frames' = frames /\ made' = made /\ lineage' = lineage
      /\ memory' = [memory EXCEPT ![tables[cr3][v].frame] = x]
  BY DEF Store
<1>2. memory' \in [Frame -> Value]
  BY <1>1 DEF AInv, ATypeOK
<1>3. ATypeOK'
  BY <1>1, <1>2 DEF AInv, ATypeOK
<1>4. TablesOwned' /\ Unmade' /\ MappedInUse' /\ SharedDown'
  BY <1>1 DEF AInv, TablesOwned, Unmade, MappedInUse, SharedDown, Present
<1> QED BY <1>3, <1>4 DEF AInv

\* The copy of a page at a fault.
LEMMA CopyOnWriteKeeps ==
  ASSUME AInv, NEW v \in VPage, CopyOnWrite(v), tables[page_table[CURRENT]][v] # Absent
  PROVE  AInv'
<1>1. /\ frames # Frame
      /\ frames' = frames \cup {NewFrame}
      /\ tables' = [tables EXCEPT ![page_table[CURRENT]] =
                      AddPage(tables[page_table[CURRENT]], v, NewFrame)]
      /\ live' = live /\ CURRENT' = CURRENT /\ cr3' = cr3 /\ page_table' = page_table
      /\ heap_end' = heap_end /\ made' = made /\ lineage' = lineage
  BY DEF CopyOnWrite
<1>2. /\ memory' \in [Frame -> Value]
      /\ \A f \in frames : memory'[f] = memory[f]
  <2> DEFINE T == page_table[CURRENT]
  <2>1. /\ CURRENT \in Proc /\ page_table \in [Proc -> Table]
        /\ tables \in [Table -> [VPage -> Entry \cup {Absent}]]
        /\ memory \in [Frame -> Value] /\ frames \subseteq Frame
    BY DEF AInv, ATypeOK
  <2>2. memory' = [memory EXCEPT ![NewFrame] = memory[tables[T][v].frame]]
    BY DEF CopyOnWrite
  <2>3. NewFrame \in Frame \ frames
    BY <1>1, NewIsNew DEF AInv
  <2>4. tables[T][v] \in Entry
    BY <2>1
  <2>5. memory[tables[T][v].frame] \in Value
    BY <2>1, <2>4 DEF Entry
  <2> HIDE DEF T
  <2> QED BY <2>1, <2>2, <2>3, <2>5
<1>3. heap_end' \in [Proc -> HeapStart..HeapStart + MaxHeap]
  BY <1>1 DEF AInv, ATypeOK
<1> QED BY <1>1, <1>2, <1>3, MapKeeps

\* mmap.
LEMMA MmapKeeps ==
  ASSUME AInv, Mmap
  PROVE  AInv'
<1>1. /\ heap_end[CURRENT] \in VPage /\ frames # Frame
      /\ frames' = frames \cup {NewFrame}
      /\ tables' = [tables EXCEPT ![page_table[CURRENT]] =
                      AddPage(tables[page_table[CURRENT]], heap_end[CURRENT], NewFrame)]
      /\ heap_end' = [heap_end EXCEPT ![CURRENT] = heap_end[CURRENT] + 1]
      /\ live' = live /\ CURRENT' = CURRENT /\ cr3' = cr3 /\ page_table' = page_table
      /\ memory' = memory /\ made' = made /\ lineage' = lineage
  BY DEF Mmap
<1>2. /\ CURRENT \in Proc /\ memory \in [Frame -> Value]
      /\ heap_end \in [Proc -> HeapStart..HeapStart + MaxHeap]
  BY DEF AInv, ATypeOK
<1>3. heap_end[CURRENT] + 1 \in HeapStart..HeapStart + MaxHeap
  BY <1>1, <1>2, MaxHeapAssumption DEF VPage, HeapStart
<1>4. heap_end' \in [Proc -> HeapStart..HeapStart + MaxHeap] /\ memory' \in [Frame -> Value]
  BY <1>1, <1>2, <1>3
<1> QED BY <1>1, <1>4, MapKeeps

\* Every step keeps the invariant.
LEMMA ANextKeeps ==
  ASSUME AInv, [ANext]_avars
  PROVE  AInv'
<1>1. CASE \E v \in VPage : PageFault(v)
  <2>1. PICK v \in VPage : PageFault(v)
    BY <1>1
  <2>2. \/ CopyOnWrite(v) /\ tables[page_table[CURRENT]][v] # Absent
        \/ Leave
    BY <2>1 DEF PageFault
  <2> QED BY <2>2, CopyOnWriteKeeps, LeaveKeeps
<1>2. CASE \E v \in VPage, x \in Value : Store(v, x)
  BY <1>2, StoreKeeps
<1>3. CASE \E q \in Proc : Switch(q)
  BY <1>3, LeaveKeeps
<1>4. CASE \E q \in Proc : Fork(q)
  BY <1>4, ForkKeeps
<1>5. CASE Exit
  BY <1>5, LeaveKeeps DEF Exit
<1>6. CASE Mmap
  BY <1>6, MmapKeeps
<1>7. CASE Execve \/ ExecveNoProgram
  BY <1>7, ExecveKeeps
<1>8. CASE UNCHANGED avars
  BY <1>8 DEF avars, AInv, ATypeOK, TablesOwned, Unmade, MappedInUse, SharedDown, Present
<1> QED BY <1>1, <1>2, <1>3, <1>4, <1>5, <1>6, <1>7, <1>8 DEF ANext

-----------------------------------------------------------------------------
\* The invariant holds in every reachable state: tables are owned by one process each,
\* and a frame that is writable somewhere is read-only in every copy, each of which knows
\* where it was copied from (pageTable_fork and the page fault of exception_handler).
THEOREM AddressSpaceInvariance == ASpec => []AInv
<1>1. AInit => AInv
  BY AInitKeeps
<1>2. AInv /\ [ANext]_avars => AInv'
  BY ANextKeeps
<1> QED BY <1>1, <1>2, PTL DEF ASpec

\* A frame is never writable through two entries, for any number of processes, tables
\* and frames.
THEOREM WriterUnique == ASpec => []OneWriter
<1>1. AInv => OneWriter
  BY DEF AInv, SharedDown, OneWriter
<1> QED BY <1>1, AddressSpaceInvariance, PTL

-----------------------------------------------------------------------------
\* A process whose table is not touched reads what it read before, as long as the frames
\* in use hold what they held.
LEMMA ViewKept ==
  ASSUME AInv, NEW q \in Proc, NEW v \in VPage,
         \A f \in frames : memory'[f] = memory[f],
         page_table'[q] = page_table[q],
         tables'[page_table[q]] = tables[page_table[q]]
  PROVE  View(page_table[q], v)' = View(page_table[q], v)
<1>1. page_table[q] \in Table
  BY DEF AInv, ATypeOK
<1>2. Present(page_table[q], v) => tables[page_table[q]][v].frame \in frames
  BY <1>1 DEF AInv, MappedInUse
<1> QED BY <1>2 DEF View, Present

\* The copy of a page leaves the frames in use as they are.
LEMMA CopyOnWriteFrames ==
  ASSUME AInv, NEW v \in VPage, CopyOnWrite(v)
  PROVE  /\ \A f \in frames : memory'[f] = memory[f]
         /\ memory'[NewFrame] = memory[tables[page_table[CURRENT]][v].frame]
<1>1. memory \in [Frame -> Value] /\ frames \subseteq Frame
  BY DEF AInv, ATypeOK
<1>2. NewFrame \in Frame \ frames
  BY NewIsNew DEF AInv, CopyOnWrite
<1>3. memory' = [memory EXCEPT ![NewFrame] = memory[tables[page_table[CURRENT]][v].frame]]
  BY DEF CopyOnWrite
<1> QED BY <1>1, <1>2, <1>3

\* A step changes what another process reads only if the CPU uses a table that the table
\* of the other was copied from.
LEMMA DownStep ==
  ASSUME AInv, ANext, NEW q \in live \ {CURRENT}, NEW v \in VPage,
         View(page_table[q], v)' # View(page_table[q], v)
  PROVE  cr3 \in lineage[page_table[q]]
<1>1. /\ CURRENT \in live /\ live \subseteq Proc /\ page_table \in [Proc -> Table]
      /\ tables \in [Table -> [VPage -> Entry \cup {Absent}]]
      /\ memory \in [Frame -> Value] /\ frames \subseteq Frame /\ cr3 \in Table
  BY DEF AInv, ATypeOK
<1>2. /\ page_table[q] # page_table[CURRENT] /\ page_table[q] # cr3
      /\ page_table[q] \in made
  BY <1>1 DEF AInv, TablesOwned
<1>3. made # Table => NewTable # page_table[q]
  BY <1>2, NewIsNew DEF AInv
<1>4. ~(/\ \A f \in frames : memory'[f] = memory[f]
        /\ page_table'[q] = page_table[q]
        /\ tables'[page_table[q]] = tables[page_table[q]])
  BY <1>1, ViewKept
<1>5. CASE \E w \in VPage, x \in Value : Store(w, x)
  <2>1. PICK w \in VPage, x \in Value : Store(w, x)
    BY <1>5
  <2> DEFINE f == tables[cr3][w].frame
             T == page_table[q]
  <2>2. /\ tables[cr3][w] # Absent /\ tables[cr3][w].writable
        /\ memory' = [memory EXCEPT ![f] = x] /\ page_table' = page_table /\ tables' = tables
    BY <2>1 DEF Store, Present
  <2>3. tables[T][v] # Absent /\ tables[T][v].frame = f
    <3> HIDE DEF f
    <3>1. tables[T][v] # Absent
      BY <2>2 DEF View, Present
    <3>2. memory'[tables[T][v].frame] # memory[tables[T][v].frame]
      BY <2>2, <3>1 DEF View, Present
    <3> QED BY <1>1, <2>2, <3>1, <3>2
  <2>4. T \in Table
    BY <1>1
  <2> QED BY <1>1, <1>2, <2>2, <2>3, <2>4 DEF AInv, SharedDown, Present
<1>6. CASE \E w \in VPage : CopyOnWrite(w)
  <2>1. PICK w \in VPage : CopyOnWrite(w)
    BY <1>6
  <2>2. page_table' = page_table /\ tables'[page_table[q]] = tables[page_table[q]]
    BY <1>1, <1>2, <2>1 DEF CopyOnWrite
  <2> QED BY <1>4, <2>1, <2>2, CopyOnWriteFrames
<1>7. CASE Leave \/ \E p \in Proc : Switch(p)
  BY <1>4, <1>7 DEF Leave, Switch
<1>8. CASE \E c \in Proc : Fork(c)
  <2>1. PICK c \in Proc : Fork(c)
    BY <1>8
  <2>2. memory' = memory /\ c # q /\ made # Table /\ page_table'[q] = page_table[q]
    BY <1>1, <2>1 DEF Fork
  <2>3. tables'[page_table[q]] = tables[page_table[q]]
    BY <1>1, <1>3, <2>1, <2>2 DEF Fork
  <2> QED BY <1>4, <2>2, <2>3
<1>9. CASE Mmap
  BY <1>1, <1>2, <1>4, <1>9 DEF Mmap
<1>10. CASE Execve
  <2>1. NewFrame \in Frame \ frames
    BY <1>10, NewIsNew DEF AInv, Execve
  <2>2. /\ made # Table /\ memory' = [memory EXCEPT ![NewFrame] = Zero]
        /\ page_table' = [page_table EXCEPT ![CURRENT] = NewTable]
        /\ \E pages : tables' = [tables EXCEPT ![NewTable] = pages]
    BY <1>10 DEF Execve
  <2> QED BY <1>1, <1>3, <1>4, <2>1, <2>2
<1>11. CASE ExecveNoProgram
  BY <1>1, <1>3, <1>4, <1>11 DEF ExecveNoProgram
<1>12. CASE \E w \in VPage : PageFault(w)
  BY <1>6, <1>7, <1>12 DEF PageFault
<1> QED BY <1>5, <1>7, <1>8, <1>9, <1>10, <1>11, <1>12 DEF ANext, Exit

\* What a process reads is changed by itself, or through a table that its own was copied
\* from: never by a child, a sibling or a stranger (pageTable_fork, the page fault of
\* exception_handler and process_execvp).
THEOREM StoresGoDown == ASpec => WritesGoDown
<1>1. AInv /\ [ANext]_avars =>
         [\A q \in live \ {CURRENT}, v \in VPage :
            View(page_table[q], v)' # View(page_table[q], v)
               => cr3 \in lineage[page_table[q]]]_avars
  BY DownStep
<1> QED BY <1>1, AddressSpaceInvariance, PTL DEF ASpec, WritesGoDown

\* A fault that copies a page changes nothing that anybody reads.
LEMMA FaultFaithful ==
  ASSUME AInv, NEW w \in VPage, PageFault(w), live' = live,
         NEW q \in live, NEW v \in VPage
  PROVE  View(page_table[q], v)' = View(page_table[q], v)
<1> DEFINE T == page_table[CURRENT]
           F == NewFrame
           E == AddPage(tables[T], w, F)
<1>1. /\ CURRENT \in live /\ live \subseteq Proc /\ page_table \in [Proc -> Table]
      /\ tables \in [Table -> [VPage -> Entry \cup {Absent}]]
  BY DEF AInv, ATypeOK
<1>2. CopyOnWrite(w) /\ tables[T][w] # Absent
  <2>1. ~Leave
    BY <1>1 DEF Leave
  <2> QED BY <2>1 DEF PageFault
<1>3. /\ page_table' = page_table /\ tables' = [tables EXCEPT ![T] = E]
      /\ memory'[F] = memory[tables[T][w].frame]
      /\ \A f \in frames : memory'[f] = memory[f]
  BY <1>2, CopyOnWriteFrames DEF CopyOnWrite
<1>4. F \in Frame /\ T \in Table
  BY <1>1, <1>2, NewIsNew DEF AInv, CopyOnWrite
<1>5. CASE page_table[q] # T
  <2>1. tables'[page_table[q]] = tables[page_table[q]]
    BY <1>1, <1>3, <1>5
  <2> QED BY <1>1, <1>3, <2>1, ViewKept
<1>6. CASE page_table[q] = T
  <2>1. tables[T] \in [VPage -> Entry \cup {Absent}]
    BY <1>1, <1>4
  <2> HIDE DEF T, F
  <2>2. /\ E[w] # Absent /\ E[w].frame = F
        /\ \A u \in VPage \ {w} : E[u] = tables[T][u]
    BY <1>4, <2>1, AddPageIs
  <2> HIDE DEF E
  <2>3. tables'[T] = E
    BY <1>1, <1>3, <1>4
  <2>4. \A u \in VPage : tables[T][u] # Absent => tables[T][u].frame \in frames
    BY <1>4 DEF AInv, MappedInUse, Present
  <2>5. CASE v = w
    BY <1>2, <1>3, <1>6, <2>2, <2>3, <2>5 DEF View, Present
  <2>6. CASE v # w
    BY <1>3, <1>6, <2>2, <2>3, <2>4, <2>6 DEF View, Present
  <2> QED BY <2>5, <2>6
<1> QED BY <1>5, <1>6

\* The child reads what its parent reads.
LEMMA ForkFaithful ==
  ASSUME AInv, NEW c \in Proc, Fork(c), NEW v \in VPage
  PROVE  View(page_table[c], v)' = View(page_table[CURRENT], v)
<1> DEFINE P == page_table[CURRENT]
           N == NewTable
           pages == PageTableFork(tables[P])
<1>1. /\ page_table \in [Proc -> Table] /\ P \in Table
      /\ tables \in [Table -> [VPage -> Entry \cup {Absent}]]
  BY DEF AInv, ATypeOK
<1>2. N \in Table
  BY NewIsNew DEF AInv, Fork
<1>3. /\ page_table' = [page_table EXCEPT ![c] = N]
      /\ tables' = [tables EXCEPT ![N] = pages] /\ memory' = memory
  BY DEF Fork
<1>4. /\ pages[v] = Absent <=> tables[P][v] = Absent
      /\ pages[v] # Absent => pages[v].frame = tables[P][v].frame
  <2>1. tables[P] \in [VPage -> Entry \cup {Absent}]
    BY <1>1
  <2> HIDE DEF P
  <2> QED BY <2>1, CopyIs
<1> HIDE DEF N, pages
<1>5. page_table'[c] = N /\ tables'[N] = pages
  BY <1>1, <1>2, <1>3
<1> QED BY <1>3, <1>4, <1>5 DEF View, Present

\* Copying is invisible, for any number of processes, tables, frames and pages.
THEOREM CopyingInvisible == ASpec => CopiesFaithful
<1>1. AInv /\ [ANext]_avars =>
         [ /\ (\E v \in VPage : PageFault(v)) /\ live' = live =>
                \A q \in live, v \in VPage : View(page_table[q], v)' = View(page_table[q], v)
           /\ \A c \in Proc : Fork(c) =>
                \A v \in VPage : View(page_table[c], v)' = View(page_table[CURRENT], v) ]_avars
  BY FaultFaithful, ForkFaithful
<1> QED BY <1>1, AddressSpaceInvariance, PTL DEF ASpec, CopiesFaithful
==============================================================================
