-------------------------------- MODULE Pool --------------------------------
(* An object pool of src/src/memory/kpool.c: objects are cut one behind the   *)
(* other from pages mapped as they are needed; objects given back wait on a   *)
(* stack that grows down from the end of the region, on pages of its own.     *)
(* Addresses count units of 8 bytes from the start of the pool.               *)
EXTENDS Integers, Sequences, FiniteSets, SequencesExt

CONSTANTS PAGE,       \* units of a page
          START,      \* where the first object starts, behind the aligned header
          OBJ,        \* obj_size
          MaxObjects  \* bound: objects cut from the pool

ASSUME PoolAssumption == /\ PAGE \in Nat \ {0} /\ START \in 0..(PAGE - 1)
                         /\ OBJ \in 1..PAGE /\ MaxObjects \in Nat

VARIABLES alloc_ptr,
          mapped,       \* pages mapped for objects; the header's page is page 0
          free_stack,   \* objects given back, the last one first
          stack_pages,  \* pages mapped for the stack (free_stack_limit)
          out           \* objects in use

ovars == <<alloc_ptr, mapped, free_stack, stack_pages, out>>

OInit == /\ alloc_ptr = START /\ mapped = {0}
         /\ free_stack = <<>> /\ stack_pages = 0 /\ out = {}

\* pool_allocate takes from the stack first.
AllocateFreed ==
  /\ free_stack # <<>>
  /\ free_stack' = Tail(free_stack) /\ out' = out \cup {Head(free_stack)}
  /\ UNCHANGED <<alloc_ptr, mapped, stack_pages>>

\* ALIGN_UP(address, PAGE_SIZE_4KB), as a page number.
PageUp(a) == (a + PAGE - 1) \div PAGE

\* A page is mapped when the object crosses from one to the next.
AllocateNewRoundsDown ==
  /\ free_stack = <<>> /\ alloc_ptr < START + MaxObjects * OBJ
  /\ mapped' = IF alloc_ptr \div PAGE # (alloc_ptr + OBJ - 1) \div PAGE
               THEN mapped \cup {alloc_ptr \div PAGE} ELSE mapped
  /\ out' = out \cup {alloc_ptr} /\ alloc_ptr' = alloc_ptr + OBJ
  /\ UNCHANGED <<free_stack, stack_pages>>
AllocateNew ==
  /\ free_stack = <<>> /\ alloc_ptr < START + MaxObjects * OBJ
  /\ mapped' = IF alloc_ptr \div PAGE # (alloc_ptr + OBJ - 1) \div PAGE
               THEN mapped \cup {PageUp(alloc_ptr)} ELSE mapped
  /\ out' = out \cup {alloc_ptr} /\ alloc_ptr' = alloc_ptr + OBJ
  /\ UNCHANGED <<free_stack, stack_pages>>

\* The stack gets a page when its top has reached the end of the last one.
FreeObject(o) ==
  /\ stack_pages' = IF Len(free_stack) = stack_pages * PAGE THEN stack_pages + 1 ELSE stack_pages
  /\ free_stack' = <<o>> \o free_stack /\ out' = out \ {o}
  /\ UNCHANGED <<alloc_ptr, mapped>>

ONext == AllocateFreed \/ AllocateNew \/ \E o \in out : FreeObject(o)

OSpec == OInit /\ [][ONext]_ovars

-----------------------------------------------------------------------------
PagesOf(o) == (o \div PAGE)..((o + OBJ - 1) \div PAGE)

\* An object in use lies on pages that are mapped and apart from every other
\* object, in use or given back; what waits on the stack waits there once and in
\* a slot that is mapped. A page is mapped only for an object that crosses into
\* it, and pool_free tests the limit of the stack for equality only: both must
\* hold through any order of calls (kpool.c:46-51, 62-67).
ObjectsSound ==
  /\ \A o \in out : PagesOf(o) \subseteq mapped
  /\ \A o, q \in out \cup Range(free_stack) : o # q => o + OBJ <= q \/ q + OBJ <= o
  /\ Range(free_stack) \cap out = {} /\ IsInjective(free_stack)
  /\ Len(free_stack) <= stack_pages * PAGE
=============================================================================
