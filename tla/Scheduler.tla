------------------------------ MODULE Scheduler ------------------------------
(***************************************************************************)
(* The round-robin scheduler (kernel/scheduler.c).                         *)
(*                                                                         *)
(* Every process_t lives in a slot of PROCESS_POOL; the scheduler links    *)
(* the slots of the scheduled processes into a doubly linked ring (`next`, *)
(* `last`) and keeps the pointer *PROCESSES into it.  The functions of     *)
(* scheduler.c are called one after the other inside a handler, so they    *)
(* are operators here: each takes the kernel's state s, a record that has  *)
(* (at least) the fields                                                   *)
(*    next, last   process_t.next, process_t.last                          *)
(*    blocked      the slots with PROCESS_BLOCKING set in process_t.flags  *)
(*    zombie       the slots with PROCESS_ZOMBIE set                       *)
(*    pid, PID_MAP process_t.pid, and the pid -> slot table                *)
(*    PROCESSES    *PROCESSES                                              *)
(*    COUNT        *PROCESS_COUNT                                          *)
(*    hung         the kernel is in a loop it never leaves, interrupts off *)
(* and returns the state after the call.                                   *)
(***************************************************************************)
EXTENDS Integers, FiniteSets

CONSTANTS
  Slot,   \* the process_t objects of PROCESS_POOL
  NULL    \* the null pointer

ASSUME NullIsNoSlot == NULL \notin Slot
ASSUME SlotsFinite == IsFiniteSet(Slot)

(***************************************************************************)
(* The processes the do-while of scheduler_nextProcess looks at when it    *)
(* starts from p: p->next, and the successor of every blocked one of them. *)
(***************************************************************************)
Visited(s, p) ==
  {q \in Slot : \A S \in SUBSET Slot :
                   (/\ s.next[p] \in S
                    /\ \A x \in S \cap s.blocked : s.next[x] \in S) => q \in S}

(***************************************************************************)
(* scheduler_nextProcess: *PROCESSES moves to the first visited process    *)
(* that is not blocked.  When every visited process is blocked the loop    *)
(* never ends, and interrupts are off.                                     *)
(***************************************************************************)
NextProcess(s) ==
  IF s.PROCESSES = NULL THEN s
  ELSE LET runnable == Visited(s, s.PROCESSES) \ s.blocked
       IN  IF runnable = {}
           THEN [s EXCEPT !.hung = TRUE]
           ELSE [s EXCEPT !.PROCESSES = CHOOSE q \in runnable : TRUE]

\* Faulty variant of Schedule: the pid is not entered.
ScheduleUnknown(s, p) ==
  LET at == s.PROCESSES
      t  == [s EXCEPT !.COUNT = @ + 1, !.PROCESSES = p]
  IN  IF at = NULL
      THEN [t EXCEPT !.next[p] = p, !.last[p] = p]
      ELSE [t EXCEPT !.last = [@ EXCEPT ![s.next[at]] = p, ![p] = at],
                     !.next = [@ EXCEPT ![p] = s.next[at], ![at] = p]]

\* Faulty variant of Schedule: the successor pointer of *PROCESSES is not updated.
ScheduleOneWay(s, p) ==
  LET at == s.PROCESSES
      t  == [s EXCEPT !.PID_MAP[s.pid[p]] = p, !.COUNT = @ + 1, !.PROCESSES = p]
  IN  IF at = NULL
      THEN [t EXCEPT !.next[p] = p, !.last[p] = p]
      ELSE [t EXCEPT !.last = [@ EXCEPT ![s.next[at]] = p, ![p] = at],
                     !.next[p] = s.next[at]]

(***************************************************************************)
(* scheduler_schedule(p): enter p in PID_MAP and link it behind            *)
(* *PROCESSES, which then points at p.                                     *)
(***************************************************************************)
Schedule(s, p) ==
  LET at == s.PROCESSES
      t  == [s EXCEPT !.PID_MAP[s.pid[p]] = p, !.COUNT = @ + 1, !.PROCESSES = p]
  IN  IF at = NULL
      THEN [t EXCEPT !.next[p] = p, !.last[p] = p]
      ELSE [t EXCEPT !.last = [@ EXCEPT ![s.next[at]] = p, ![p] = at],
                     !.next = [@ EXCEPT ![p] = s.next[at], ![at] = p]]

\* Faulty variant of ScheduleEnd: the predecessor keeps its pointer to p.
ScheduleEndHalf(s, p) ==
  LET t == [s EXCEPT !.COUNT = @ - 1]
      u == IF p = s.PROCESSES THEN NextProcess(t) ELSE t
  IN  IF u.hung THEN u
      ELSE [u EXCEPT !.last[u.next[p]] = u.last[p]]

\* Faulty variant of ScheduleEnd: *PROCESS_COUNT is not decremented.
ScheduleEndMiscount(s, p) ==
  LET u == IF p = s.PROCESSES THEN NextProcess(s) ELSE s
      l == [u.last EXCEPT ![u.next[p]] = u.last[p]]
  IN  IF u.hung THEN u
      ELSE [u EXCEPT !.last = l, !.next[l[p]] = u.next[p]]

(***************************************************************************)
(* schedule_end(p): *PROCESSES moves on if it points at p, then p is       *)
(* unlinked; its own two pointers keep their values.  The test for the     *)
(* last process, process == process->next == process->last, compares the   *)
(* truth value of its first half with a pointer: it is false for every     *)
(* process, and its branch (kfree, *PROCESSES = 0) is never taken.         *)
(***************************************************************************)
ScheduleEnd(s, p) ==
  LET t == [s EXCEPT !.COUNT = @ - 1]
      u == IF p = s.PROCESSES THEN NextProcess(t) ELSE t
      l == [u.last EXCEPT ![u.next[p]] = u.last[p]]
  IN  IF u.hung THEN u
      ELSE [u EXCEPT !.last = l, !.next[l[p]] = u.next[p]]

Block(s, p) == [s EXCEPT !.blocked = @ \cup {p}]

Unblock(s, p) == [s EXCEPT !.blocked = @ \ {p}]

-----------------------------------------------------------------------------
(***************************************************************************)
(* What it means for the links of s to form one ring through exactly the   *)
(* slots R: next stays in R, last undoes it, and R has no part that next   *)
(* never leaves.                                                           *)
(***************************************************************************)
Ring(s, R) ==
  /\ \A p \in R : /\ s.next[p] \in R /\ s.last[p] \in R
                  /\ s.last[s.next[p]] = p
                  /\ s.next[s.last[p]] = p
  /\ \A S \in SUBSET R :
        S # {} /\ (\A p \in S : s.next[p] \in S) => S = R
=============================================================================
