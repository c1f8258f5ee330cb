----------------------------- MODULE AddressSpace ----------------------------
(***************************************************************************)
(* The memory of processes: memory/pageTable.c, the page fault of          *)
(* arch/idt.c, and the calls that build and change address spaces (fork,   *)
(* mmap, execve).                                                          *)
(*                                                                         *)
(* The four levels of a page table, which serve both page sizes, are one   *)
(* function from pages to entries here.  A page table is never freed, nor  *)
(* is a frame.  The CPU translates with the table in cr3, the handlers     *)
(* look at the one in process_t, and the two need not be the same.         *)
(* Frames are those of the allocator, module Paging, which hands each out  *)
(* once; the memory at the low addresses that process_execvp writes the    *)
(* arguments to, with the kernel's table loaded, is not among them.        *)
(***************************************************************************)
EXTENDS Naturals, FiniteSets

CONSTANTS
  Proc,      \* the process_t objects
  Table,     \* the page tables; bound: how many are made
  Frame,     \* physical pages; bound: as many as are used before memory runs out
  Value,     \* what a page may hold
  Zero,      \* what memory holds at first, and a program's image when it is loaded
  Absent,    \* an entry without PAGE_PRESENT
  MaxHeap    \* bound: pages of a heap

ASSUME ZeroAssumption == Zero \in Value
ASSUME MaxHeapAssumption == MaxHeap \in Nat
ASSUME RoomAssumption == Table # {} /\ \E i, s \in Frame : i # s

\* The virtual pages: image and stack, which execve maps, and the heap.
Image == 0
Stack == 1
HeapStart == 2
VPage == 0..HeapStart + MaxHeap - 1

\* An entry of a page table: its frame and the bits PAGE_WRITABLE and PAGE_COW.
Entry == [frame : Frame, writable : BOOLEAN, cow : BOOLEAN]
ASSUME AbsentAssumption == Absent \notin Entry \cup Value

VARIABLES
  live,        \* the processes in the ring
  CURRENT,     \* *CURRENT_PROCESS
  cr3,         \* the table the CPU uses
  page_table,  \* process_t.page_table
  heap_end,    \* process_t.heap_end
  tables,      \* the contents of the page tables
  memory,      \* the contents of the frames
  frames,      \* the frames that have been handed out
  made,        \* the tables that have been made
  lineage      \* history: the tables a table was copied from, directly or not

avars == <<live, CURRENT, cr3, page_table, heap_end, tables, memory, frames, made, lineage>>

\* pages_allocatePage, for a frame and for a table; which one is up to the allocator
NewFrame == CHOOSE f \in Frame \ frames : TRUE
NewTable == CHOOSE t \in Table \ made : TRUE

NoPages == [v \in VPage |-> Absent]
Present(t, v) == tables[t][v] # Absent

-----------------------------------------------------------------------------
(* pageTable.c *)

\* pageTable_addPage with flags 4, as for every page of a process
AddPage(pages, v, f) ==
  [pages EXCEPT ![v] = [frame |-> f, writable |-> TRUE, cow |-> FALSE]]

\* Faulty variant of CopyEntry: the copy of a writable page stays writable.
CopyEntryShared(e) ==
  IF e = Absent THEN Absent
  ELSE [frame |-> e.frame, writable |-> e.writable, cow |-> e.cow \/ e.writable]

\* copy_table_level, for a leaf: the copy of a writable page is read-only and marked
\* copy-on-write.  The original is not.
CopyEntry(e) ==
  IF e = Absent THEN Absent
  ELSE [frame |-> e.frame, writable |-> FALSE, cow |-> e.cow \/ e.writable]

\* pageTable_fork
PageTableFork(pages) == [v \in VPage |-> CopyEntry(pages[v])]

-----------------------------------------------------------------------------
(* The actions: what the process on the CPU does, and the timer *)

\* A store of the program, to a page that the CPU finds writable
Store(v, x) ==
  /\ Present(cr3, v) /\ tables[cr3][v].writable
  /\ memory' = [memory EXCEPT ![tables[cr3][v].frame] = x]
  /\ UNCHANGED <<live, CURRENT, cr3, page_table, heap_end, tables, frames, made, lineage>>

\* Process q gets the CPU, with its table.
SwitchTo(q) == CURRENT' = q /\ cr3' = page_table[q]

\* The timer interrupt, and calls that block
Switch(q) ==
  /\ q \in live /\ SwitchTo(q)
  /\ UNCHANGED <<live, page_table, heap_end, tables, memory, frames, made, lineage>>

\* Faulty variant of Leave: the CPU stays with the process that ended.

\* process_exit: nothing of the address space is given back.
Leave == /\ live' = live \ {CURRENT}
         /\ \E q \in live' : SwitchTo(q)
         /\ UNCHANGED <<page_table, heap_end, tables, memory, frames, made, lineage>>

Exit == Leave

\* Faulty variant of CopyOnWrite: the shared frame is made writable.
CopyOnWriteInPlace(v) ==
  /\ tables' = [tables EXCEPT ![page_table[CURRENT]] = AddPage(@, v, @[v].frame)]
  /\ UNCHANGED <<live, CURRENT, cr3, page_table, heap_end, memory, frames, made, lineage>>

\* Faulty variant of CopyOnWrite: the frame is mapped without being filled.
CopyOnWriteEmpty(v) ==
  /\ frames # Frame
  /\ frames' = frames \cup {NewFrame}
  /\ tables' = [tables EXCEPT ![page_table[CURRENT]] = AddPage(@, v, NewFrame)]
  /\ UNCHANGED <<live, CURRENT, cr3, page_table, heap_end, memory, made, lineage>>

\* The copy-on-write branch of the page fault, in the table of process_t
CopyOnWrite(v) ==
  /\ frames # Frame
  /\ frames' = frames \cup {NewFrame}
  /\ memory' = [memory EXCEPT ![NewFrame] = memory[tables[page_table[CURRENT]][v].frame]]
  /\ tables' = [tables EXCEPT ![page_table[CURRENT]] = AddPage(@, v, NewFrame)]
  /\ UNCHANGED <<live, CURRENT, cr3, page_table, heap_end, made, lineage>>

\* A store to a page that the CPU finds absent or read-only: #PF.  The instruction is
\* executed again after a copy; otherwise the process gets SIGSEGV or SIGBUS.
PageFault(v) ==
  LET e == tables[page_table[CURRENT]][v]
  IN  /\ ~(Present(cr3, v) /\ tables[cr3][v].writable)
      /\ IF e # Absent /\ e.cow THEN CopyOnWrite(v) ELSE Leave

\* sys_fork: the child c gets the CPU.
Fork(c) ==
  LET parent == page_table[CURRENT]
      t == NewTable
  IN  /\ c \notin live /\ made # Table
      /\ made' = made \cup {t}
      /\ tables' = [tables EXCEPT ![t] = PageTableFork(tables[parent])]
      /\ page_table' = [page_table EXCEPT ![c] = t]
      /\ heap_end' = [heap_end EXCEPT ![c] = heap_end[CURRENT]]
      /\ live' = live \cup {c}
      /\ CURRENT' = c /\ cr3' = t
      /\ lineage' = [lineage EXCEPT ![t] = lineage[parent] \cup {parent}]
      /\ UNCHANGED <<memory, frames>>

\* sys_mmap of one page; the frame is not cleared
Mmap ==
  LET v == heap_end[CURRENT]
  IN  /\ v \in VPage /\ frames # Frame
      /\ frames' = frames \cup {NewFrame}
      /\ tables' = [tables EXCEPT ![page_table[CURRENT]] = AddPage(@, v, NewFrame)]
      /\ heap_end' = [heap_end EXCEPT ![CURRENT] = v + 1]
      /\ UNCHANGED <<live, CURRENT, cr3, page_table, memory, made, lineage>>

\* A program in memory: its image and its stack.  The page for the arguments is mapped
\* as the stack is, and is one with it here.
Program(i, s) == AddPage(AddPage(NoPages, Image, i), Stack, s)

\* sys_execve, process_execvp and elfLoader_load.  The CPU goes back to the old table:
\* INTERRUPT_INFO->cr3 is not set.
Execve ==
  LET i == NewFrame
      s == CHOOSE f \in Frame \ (frames \cup {i}) : TRUE
  IN  /\ made # Table /\ frames # Frame /\ frames \cup {i} # Frame
      /\ frames' = frames \cup {i, s}
      /\ made' = made \cup {NewTable}
      /\ tables' = [tables EXCEPT ![NewTable] = Program(i, s)]
      /\ memory' = [memory EXCEPT ![i] = Zero]
      /\ page_table' = [page_table EXCEPT ![CURRENT] = NewTable]
      /\ heap_end' = [heap_end EXCEPT ![CURRENT] = HeapStart]
      /\ UNCHANGED <<live, CURRENT, cr3, lineage>>

\* The same for a file that is no program: elfLoader_load returns early, which nobody
\* looks at, and only the stack is mapped.
ExecveNoProgram ==
  /\ made # Table /\ frames # Frame
  /\ frames' = frames \cup {NewFrame}
  /\ made' = made \cup {NewTable}
  /\ tables' = [tables EXCEPT ![NewTable] = AddPage(NoPages, Stack, NewFrame)]
  /\ page_table' = [page_table EXCEPT ![CURRENT] = NewTable]
  /\ heap_end' = [heap_end EXCEPT ![CURRENT] = HeapStart]
  /\ UNCHANGED <<live, CURRENT, cr3, memory, lineage>>

\* elfLoader_systemd
AInit ==
  \E p \in Proc :
     LET t == CHOOSE u \in Table : TRUE
         i == CHOOSE f \in Frame : TRUE
         s == CHOOSE f \in Frame \ {i} : TRUE
     IN  /\ live = {p} /\ CURRENT = p /\ cr3 = t
         /\ page_table = [q \in Proc |-> t]
         /\ heap_end = [q \in Proc |-> HeapStart]
         /\ tables = [u \in Table |-> IF u = t THEN Program(i, s) ELSE NoPages]
         /\ memory = [f \in Frame |-> Zero]
         /\ frames = {i, s}
         /\ made = {t}
         /\ lineage = [u \in Table |-> {}]

ANext == \/ \E v \in VPage : PageFault(v) \/ \E x \in Value : Store(v, x)
         \/ \E q \in Proc : Switch(q) \/ Fork(q)
         \/ Exit \/ Mmap \/ Execve \/ ExecveNoProgram

ASpec == AInit /\ [][ANext]_avars

-----------------------------------------------------------------------------
(* Properties *)

\* The type invariant.
ATypeOK ==
  /\ live \subseteq Proc /\ CURRENT \in live /\ cr3 \in Table
  /\ page_table \in [Proc -> Table]
  /\ heap_end \in [Proc -> HeapStart..HeapStart + MaxHeap]
  /\ tables \in [Table -> [VPage -> Entry \cup {Absent}]]
  /\ memory \in [Frame -> Value]
  /\ frames \subseteq Frame /\ made \subseteq Table
  /\ lineage \in [Table -> SUBSET Table]

\* What a read of page v through table t returns.
View(t, v) == IF Present(t, v) THEN memory[tables[t][v].frame] ELSE Absent

\* A frame is writable through one entry of one table only, however many processes
\* share it and in whatever order they fork, fault and end.
OneWriter ==
  \A t, u \in Table, v, w \in VPage :
     (/\ Present(t, v) /\ tables[t][v].writable
      /\ Present(u, w) /\ tables[u][w].writable
      /\ tables[t][v].frame = tables[u][w].frame) => t = u /\ v = w

\* Nothing the process on the CPU does changes what another process reads, unless the
\* other one's table was copied from the table the CPU uses: a child never changes the
\* memory of its parent, its siblings or strangers, even where execve has left the CPU
\* with a table that the process no longer has.
WritesGoDown ==
  [][\A q \in live \ {CURRENT}, v \in VPage :
        View(page_table[q], v)' # View(page_table[q], v)
           => cr3 \in lineage[page_table[q]]]_avars

\* Copying a page, at a fault, and a table, at a fork, is invisible: no process reads
\* anything else afterwards, and the child reads what its parent does.
CopiesFaithful ==
  [][ /\ (\E v \in VPage : PageFault(v)) /\ live' = live =>
           \A q \in live, v \in VPage : View(page_table[q], v)' = View(page_table[q], v)
      /\ \A c \in Proc : Fork(c) =>
           \A v \in VPage : View(page_table[c], v)' = View(page_table[CURRENT], v) ]_avars

\* What copy-on-write is for: after a fork, what one of the two processes writes is not
\* seen by the other.
Private ==
  [][\A q \in live \ {CURRENT}, v \in VPage :
        View(page_table[q], v)' = View(page_table[q], v)]_avars
==============================================================================
