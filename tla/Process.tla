------------------------------- MODULE Process -------------------------------
(***************************************************************************)
(* Process management: kernel/process.c, the process system calls of       *)
(* kernel/syscalls.c, the interrupt handlers of arch/idt.c that deliver    *)
(* ticks, faults and signals, and the part of drivers/vcon.c that blocks   *)
(* and wakes the reader of the terminal.                                   *)
(*                                                                         *)
(* There is one CPU and every IDT gate clears the interrupt flag, so a     *)
(* handler runs from its stub to its iretq without being interrupted: it   *)
(* is one action.  A stub calls the handler and then check_signal, so the  *)
(* action is the composition of the two.  What interleaves is the order in *)
(* which processes make system calls, faults occur and devices interrupt.  *)
(***************************************************************************)
EXTENDS Scheduler, Sequences, SequencesExt

CONSTANTS
  MaxPid,   \* bound: largest process id given out (the code's counter is 64 bits)
  MaxMembers, \* bound: length of a group's list when a process joins a group
  Idle,     \* pids of processes that only loop: {1} for the child of systemd
  Calls,    \* the system calls and events that occur
  Kills     \* the arguments <<pid, signal>> of sys_kill

ASSUME MaxPidAssumption == MaxPid \in Nat /\ MaxPid >= 1
ASSUME MaxMembersAssumption == MaxMembers \in Nat
ASSUME IdleAssumption == Idle \subseteq {1}

Pid == 0..MaxPid

StopSignals == {"SIGSTOP", "SIGTSTP", "SIGTTIN", "SIGTTOU"}
CoreSignals == {"SIGQUIT", "SIGILL", "SIGABRT", "SIGFPE", "SIGSEGV", "SIGBUS",
                "SIGXCPU", "SIGTRAP", "SIGXFSZ", "SIGSYS"}
TermSignals == {"SIGTERM", "SIGHUP", "SIGINT", "SIGPIPE", "SIGSTKFLT", "SIGVTALRM",
                "SIGALRM", "SIGUSR1", "SIGPROF", "SIGPWR", "SIGUSR2", "SIGIO"}
Signals == StopSignals \cup CoreSignals \cup TermSignals \cup
           {"SIGKILL", "SIGCONT", "SIGCHLD", "SIGURG", "SIGWINCH"}

\* What exception_handler sends for the exceptions that push an error code.
TrapSignals == {"SIGSEGV", "SIGBUS", "SIGILL"}

CallNames == {"fork", "exit", "waitpid", "setpgid", "getpgid", "setsid", "getsid",
              "tcsetpgrp", "tcgetpgrp", "input", "write", "trap", "nosys", "divide", "ctrl"}

ASSUME CallsAssumption == Calls \subseteq CallNames
ASSUME KillsAssumption == Kills \subseteq Int \X Signals

\* The exit status the parent gets: exit code, or the signal with or without 1 << 7.
Status == {"none", "exit", "signal", "core"}

VARIABLES
  k,        \* the kernel globals (memory/kglobals.h) and the process_t of every slot
  PGID_MAP  \* the group lists by group id: processes[] of every process_group_t

vars == <<k, PGID_MAP>>

CURRENT == k.CURRENT

-----------------------------------------------------------------------------
(* process.c *)

\* Faulty variant of Bury: wakes the process that wait leads to without testing wait.
BuryAnyParent(s, p, status) ==
  LET w == s.PID_MAP[s.wait[p]]
  IN  Unblock([s EXCEPT !.stat[w] = status, !.rax[w] = s.pid[p], !.free = @ \cup {p}], w)

\* Faulty variant of Bury: the parent gets its answer and stays blocked.
BurySilently(s, p, status) ==
  LET w == s.PID_MAP[s.wait[p]]
  IN  IF s.wait[p] # 0
      THEN [s EXCEPT !.stat[w] = status, !.rax[w] = s.pid[p], !.free = @ \cup {p}]
      ELSE [s EXCEPT !.zombie = @ \cup {p}]

\* The end of process_exit: a parent that waits gets the answer of its waitpid and
\* the slot of p is given back; without one p becomes a zombie.
Bury(s, p, status) ==
  LET w == s.PID_MAP[s.wait[p]]
  IN  IF s.wait[p] # 0
      THEN Unblock([s EXCEPT !.stat[w] = status, !.rax[w] = s.pid[p],
                             !.free = @ \cup {p}], w)
      ELSE [s EXCEPT !.zombie = @ \cup {p}]

\* Faulty variant of ProcessExit: the CPU stays with the process that has left the ring.
ProcessExitInPlace(s, p, status) ==
  LET e == ScheduleEnd([s EXCEPT !.status[p] = status], s.CURRENT)
  IN  IF e.hung THEN e ELSE Bury(e, p, status)

\* Faulty variant of ProcessExit: the process that is buried is read after the switch.
ProcessExitNext(s, p, status) ==
  LET e == ScheduleEnd([s EXCEPT !.status[p] = status], s.CURRENT)
  IN  IF e.hung THEN e ELSE Bury([e EXCEPT !.CURRENT = e.PROCESSES], e.PROCESSES, status)

\* process_exit: it is always the CURRENT process that leaves the ring; p is the
\* one that is buried.
ProcessExit(s, p, status) ==
  LET e == ScheduleEnd([s EXCEPT !.status[p] = status], s.CURRENT)
  IN  IF e.hung THEN e ELSE Bury([e EXCEPT !.CURRENT = e.PROCESSES], p, status)

\* process_signal: a signal of the last case is left with the CURRENT process.
Signal(s, p, sig) ==
  CASE sig = "SIGKILL"     -> ProcessExit(s, p, "signal")
    [] sig = "SIGCONT"     -> Unblock(s, p)
    [] sig \in StopSignals -> Block(s, p)
    [] OTHER               -> [s EXCEPT !.signal[s.CURRENT] = sig]

\* process_group_signal
GroupSignal(s, group, sig) == FoldLeft(LAMBDA t, p : Signal(t, p, sig), s, group)

\* Faulty variant of CheckSignal: only a signal that ends the process is cleared.
CheckSignalKeeps(s) ==
  LET sig == s.signal[s.CURRENT]
      t   == CASE sig \in CoreSignals -> ProcessExit(s, s.CURRENT, "core")
               [] sig \in TermSignals -> ProcessExit(s, s.CURRENT, "signal")
               [] OTHER               -> s
  IN  IF s.hung \/ sig \notin CoreSignals \cup TermSignals THEN s
      ELSE [t EXCEPT !.signal[t.CURRENT] = "SIGNONE"]

\* check_signal, which every stub calls when its handler returns.  After an exit
\* CURRENT is the next process, and it is that one's signal that is cleared.
CheckSignal(s) ==
  LET sig == s.signal[s.CURRENT]
      t   == CASE sig \in CoreSignals -> ProcessExit(s, s.CURRENT, "core")
               [] sig \in TermSignals -> ProcessExit(s, s.CURRENT, "signal")
               [] OTHER               -> s
  IN  IF s.hung \/ sig = "SIGNONE" THEN s
      ELSE [t EXCEPT !.signal[t.CURRENT] = "SIGNONE"]

\* A null pointer read in a handler: the page fault it raises is a SIGSEGV to
\* CURRENT, and the handler is abandoned.
Fault(s) == Signal(s, s.CURRENT, "SIGSEGV")

\* Faulty variant of ProcessFork: the answer to the parent is read from the pid counter
\* after it has moved on.
ProcessForkLatePid(s, c) ==
  LET p == s.CURRENT
      child == [s EXCEPT !.free = @ \ {c}, !.pid[c] = s.PID, !.PID = @ + 1,
                         !.pgid[c] = s.pgid[p], !.wait[c] = 0,
                         !.rax = [@ EXCEPT ![c] = 0, ![p] = s.PID + 1],
                         !.blocked = @ \ {c}, !.zombie = @ \ {c},
                         !.signal[c] = "SIGNONE"]
      t == Schedule(child, c)
  IN  [t EXCEPT !.CURRENT = t.PROCESSES]

\* process_fork with the child in slot c: a copy of CURRENT with a page table, a
\* descriptor table and a pid of its own, which is scheduled and runs first.
ProcessFork(s, c) ==
  LET p == s.CURRENT
      child == [s EXCEPT !.free = @ \ {c},
                         !.pid[c] = s.PID,
                         !.PID = @ + 1,
                         !.pgid[c] = s.pgid[p],
                         !.wait[c] = 0,
                         !.status[c] = s.status[p],
                         !.stat[c] = s.stat[p],
                         !.rax = [@ EXCEPT ![c] = 0, ![p] = s.PID],
                         !.blocked = @ \ {c},
                         !.zombie = @ \ {c},
                         !.signal[c] = "SIGNONE",
                         !.next[c] = s.next[p],
                         !.last[c] = s.last[p]]
      t == Schedule(child, c)
  IN  [t EXCEPT !.CURRENT = t.PROCESSES]

\* Faulty variant of RemoveEntry: the count drops, the entry is not overwritten.
RemoveEntryKeeps(s, group, i, pid) ==
  IF i <= Len(group) /\ s.pid[group[i]] = pid THEN Front(group) ELSE group

\* One turn of the loop of process_remove_from_group: the last entry replaces
\* entry i when that is a process with the pid looked for.
RemoveEntry(s, group, i, pid) ==
  IF i <= Len(group) /\ s.pid[group[i]] = pid
  THEN [j \in 1..Len(group) - 1 |-> group[IF j = i THEN Len(group) ELSE j]]
  ELSE group

\* process_remove_from_group: the lists after p has left the group it names as its own
RemoveFromGroup(s, groups, p) ==
  LET g == groups[s.pgid[p]]
  IN  IF s.pgid[p] = 0 THEN groups
      ELSE [groups EXCEPT ![s.pgid[p]] =
              FoldLeft(LAMBDA grp, i : RemoveEntry(s, grp, i, s.pid[p]),
                       g, [i \in 1..Len(g) |-> i])]

\* process_add_to_group, with process_create_group for a group seen first; the
\* process's pgid is set by the caller, SetGroup
AddToGroup(groups, p, pgid) ==
  [groups EXCEPT ![pgid] = IF @ = NULL THEN <<p>> ELSE Append(@, p)]

-----------------------------------------------------------------------------
(* Handlers: the state when the handler returns, before check_signal *)

\* The timer interrupt, and every system call that gives up the CPU.
Switch(s) == LET t == NextProcess(s) IN [t EXCEPT !.CURRENT = t.PROCESSES]

BlockCurrent(s) == Switch(Block(s, s.CURRENT))

\* Faulty variant of Waitpid: a zombie is not recognised.
WaitpidLate(s, pid) ==
  LET p == s.PID_MAP[pid]
  IN  IF p = NULL THEN Fault(s)
      ELSE BlockCurrent([s EXCEPT !.wait[p] = s.pid[s.CURRENT]])

\* Faulty variant of Waitpid: the status of a zombie is not passed on.
WaitpidNoStatus(s, pid) ==
  LET p == s.PID_MAP[pid]
  IN  CASE p = NULL -> Fault(s)
        [] p \in s.zombie -> [s EXCEPT !.rax[s.CURRENT] = s.pid[p]]
        [] OTHER -> BlockCurrent([s EXCEPT !.wait[p] = s.pid[s.CURRENT]])

\* sys_waitpid
Waitpid(s, pid) ==
  LET p == s.PID_MAP[pid]
  IN  CASE p = NULL -> Fault(s)
        [] p \in s.zombie -> [s EXCEPT !.stat[s.CURRENT] = s.status[p],
                                       !.rax[s.CURRENT] = s.pid[p]]
        [] OTHER -> BlockCurrent([s EXCEPT !.wait[p] = s.pid[s.CURRENT]])

\* sys_getpgid and sys_getsid, which answer pid 0 with the caller's own id and every
\* other pid with that pid.
GetId(s, pid, own) ==
  LET p == s.PID_MAP[pid]
  IN  IF pid # 0 /\ p = NULL THEN Fault(s)
      ELSE [s EXCEPT !.rax[s.CURRENT] = IF pid = 0 THEN own ELSE s.pid[p]]

\* sys_tcsetpgrp; sys_tcgetpgrp calls the same operation with group 0
Tcsetpgrp(s, pgrp) ==
  [s EXCEPT !.grp = IF pgrp = 0 THEN s.pgid[s.CURRENT] ELSE pgrp]

Tcgetpgrp(s) == [s EXCEPT !.grp = 0]

\* sys_input on the terminal, and vcon_input
Input(s) ==
  IF s.grp # s.pgid[s.CURRENT] THEN Signal(s, s.CURRENT, "SIGTTIN")
  ELSE BlockCurrent([s EXCEPT !.cononical = TRUE, !.reader = s.CURRENT])

\* sys_write on the terminal; what is printed is not modelled here
Write(s) ==
  IF s.grp # s.pgid[s.CURRENT] THEN Signal(s, s.CURRENT, "SIGTTOU") ELSE s

\* sys_kill; process_signal_all never advances in its list, and so never returns
Kill(s, groups, pid, sig) ==
  CASE pid = -1 -> [s EXCEPT !.hung = TRUE]
    [] pid < -1 -> IF -pid \notin Pid \/ groups[-pid] = NULL THEN Fault(s)
                   ELSE GroupSignal(s, groups[-pid], sig)
    [] OTHER    -> IF pid \notin Pid \/ s.PID_MAP[pid] = NULL THEN Fault(s)
                   ELSE Signal(s, s.PID_MAP[pid], sig)

\* keyboard_isr and vcon_keyboard_handle for the key that ends a line
Newline(s) == Unblock([s EXCEPT !.cononical = FALSE], s.reader)

-----------------------------------------------------------------------------
(* The actions: a process in user mode traps into the kernel, or a device does. *)

\* bound: a process that is left on the CPU after its exit can exit again, which takes
\* PROCESS_COUNT below zero; once it is there nothing else happens.
CountBounded == k.COUNT >= 0

Running(call) == ~k.hung /\ CountBounded /\ call \in Calls /\ k.pid[CURRENT] \notin Idle

SysFork == /\ Running("fork") /\ k.PID <= MaxPid
           /\ \E c \in k.free : k' = CheckSignal(ProcessFork(k, c))
           /\ UNCHANGED PGID_MAP

SysExit == /\ Running("exit")
           /\ k' = CheckSignal(ProcessExit(k, CURRENT, "exit"))
           /\ UNCHANGED PGID_MAP

SysWaitpid == /\ Running("waitpid")
              /\ \E pid \in Pid : k' = CheckSignal(Waitpid(k, pid))
              /\ UNCHANGED PGID_MAP

\* A group list never shrinks by an exit, and joining twice enters a process twice.
GroupsBounded == \A g \in Pid : PGID_MAP[g] # NULL => Len(PGID_MAP[g]) < MaxMembers

\* The body of sys_setpgid and sys_setsid.  They differ in the test before the
\* removal: no process has a session id, so sys_setsid never removes.
SetGroup(pid, pgid, remove) ==
  LET p == IF pid = 0 THEN CURRENT ELSE k.PID_MAP[pid]
      g == IF pgid = 0 THEN k.pid[p] ELSE pgid
      groups == IF remove THEN RemoveFromGroup(k, PGID_MAP, p) ELSE PGID_MAP
  IN  \/ /\ p = NULL
         /\ k' = CheckSignal(Fault(k))
         /\ UNCHANGED PGID_MAP
      \/ /\ p # NULL
         /\ k' = CheckSignal([k EXCEPT !.pgid[p] = g])
         /\ PGID_MAP' = AddToGroup(groups, p, g)

SysSetpgid == /\ Running("setpgid") /\ GroupsBounded
              /\ \E pid, pgid \in Pid : SetGroup(pid, pgid, TRUE)

SysSetsid == /\ Running("setsid") /\ GroupsBounded
             /\ \E pid, sid \in Pid : SetGroup(pid, sid, FALSE)

SysGetpgid == /\ Running("getpgid")
              /\ \E pid \in Pid : k' = CheckSignal(GetId(k, pid, k.pgid[CURRENT]))
              /\ UNCHANGED PGID_MAP

SysGetsid == /\ Running("getsid")
             /\ \E pid \in Pid : k' = CheckSignal(GetId(k, pid, 0))
             /\ UNCHANGED PGID_MAP

SysTcsetpgrp == /\ Running("tcsetpgrp")
                /\ \E pgrp \in Pid : k' = CheckSignal(Tcsetpgrp(k, pgrp))
                /\ UNCHANGED PGID_MAP

SysTcgetpgrp == /\ Running("tcgetpgrp")
                /\ k' = CheckSignal(Tcgetpgrp(k))
                /\ UNCHANGED PGID_MAP

SysInput == /\ Running("input")
            /\ k' = CheckSignal(Input(k))
            /\ UNCHANGED PGID_MAP

SysWrite == /\ Running("write")
            /\ k' = CheckSignal(Write(k))
            /\ UNCHANGED PGID_MAP

SysKill == /\ ~k.hung /\ k.pid[CURRENT] \notin Idle
           /\ \E c \in Kills : k' = CheckSignal(Kill(k, PGID_MAP, c[1], c[2]))
           /\ UNCHANGED PGID_MAP

\* sys_do_nothing: a system call number that is not in use
SysDoNothing == /\ Running("nosys")
                /\ k' = CheckSignal(Signal(k, CURRENT, "SIGSYS"))
                /\ UNCHANGED PGID_MAP

\* An exception with an error code: isr_err calls exception_handler.
Exception == /\ Running("trap")
             /\ \E sig \in TrapSignals : k' = CheckSignal(Signal(k, CURRENT, sig))
             /\ UNCHANGED PGID_MAP

\* An exception without one, such as a divide error: isr_no_err calls
\* interrupt_handler, whose default case executes hlt with interrupts off.
DivideError == /\ Running("divide")
               /\ k' = [k EXCEPT !.hung = TRUE]
               /\ UNCHANGED PGID_MAP

Tick == /\ ~k.hung
        /\ k' = CheckSignal(Switch(k))
        /\ UNCHANGED PGID_MAP

KeyNewline == /\ ~k.hung /\ k.cononical
              /\ k' = CheckSignal(Newline(k))
              /\ UNCHANGED PGID_MAP

\* vcon_keyboard_handle for ctrl-c, ctrl-/ and ctrl-z: the number of the foreground
\* group is used as the address of its process_group_t.  Nothing is mapped at so low
\* an address, so reading its process_count is a page fault, whoever is on the CPU.
KeyInterrupt == /\ ~k.hung /\ CountBounded /\ "ctrl" \in Calls
                /\ k' = CheckSignal(Fault(k))
                /\ UNCHANGED PGID_MAP

-----------------------------------------------------------------------------
\* elfLoader_systemd and launch_system_processes: zeroed globals, the process 0
\* in slot a, scheduled and made current.  Fields of unused slots are never read.
Launch(a) ==
  LET zeroed == [next |-> [p \in Slot |-> p], last |-> [p \in Slot |-> p],
                 blocked |-> {}, zombie |-> {}, free |-> Slot \ {a},
                 pid |-> [p \in Slot |-> 0], pgid |-> [p \in Slot |-> 0],
                 wait |-> [p \in Slot |-> 0], rax |-> [p \in Slot |-> 0],
                 status |-> [p \in Slot |-> "none"], stat |-> [p \in Slot |-> "none"],
                 signal |-> [p \in Slot |-> "SIGNONE"],
                 PID |-> 1, PID_MAP |-> [i \in Pid |-> NULL],
                 PROCESSES |-> NULL, CURRENT |-> NULL, COUNT |-> 0, hung |-> FALSE,
                 grp |-> 0, cononical |-> FALSE, reader |-> NULL]
  IN  Switch(Schedule(zeroed, a))

\* Where the runs start: systemd has made its first system call, fork.
Init == /\ \E a, c \in Slot : a # c /\ k = ProcessFork(Launch(a), c)
        /\ PGID_MAP = [i \in Pid |-> NULL]

Next ==
  \/ SysFork \/ SysExit \/ SysWaitpid \/ SysSetpgid \/ SysGetpgid \/ SysSetsid \/ SysGetsid
  \/ SysTcsetpgrp \/ SysTcgetpgrp \/ SysInput \/ SysWrite \/ SysKill
  \/ SysDoNothing \/ Exception \/ DivideError \/ Tick \/ KeyNewline \/ KeyInterrupt

Spec == Init /\ [][Next]_vars

-----------------------------------------------------------------------------
(* Properties *)

\* The states of the kernel: the type of k.
Kernel ==
  [next : [Slot -> Slot], last : [Slot -> Slot],
   blocked : SUBSET Slot, zombie : SUBSET Slot, free : SUBSET Slot,
   pid : [Slot -> Pid], pgid : [Slot -> Pid], wait : [Slot -> Pid],
   rax : [Slot -> Pid], status : [Slot -> Status], stat : [Slot -> Status],
   signal : [Slot -> Signals \cup {"SIGNONE"}],
   PID : 0..MaxPid + 1, PID_MAP : [Pid -> Slot \cup {NULL}],
   PROCESSES : Slot \cup {NULL}, CURRENT : Slot \cup {NULL}, COUNT : Int,
   hung : BOOLEAN,
   grp : Pid, cononical : BOOLEAN, reader : Slot \cup {NULL}]

\* The type invariant.
TypeOK == k \in Kernel

\* The processes that have been created and have not exited.
LiveOf(s) == Slot \ (s.free \cup s.zombie)
Live == LiveOf(k)

\* The next and last pointers of the processes that are alive form one ring
\* through exactly those: whatever the order of forks and exits,
\* scheduler_schedule and schedule_end lose no process and keep
\* none that has exited.
RingOfLive == Ring(k, Live)

\* PROCESS_COUNT is the number of processes that are alive.
CountsLive == k.COUNT = Cardinality(Live)

\* The process on the CPU is the one *PROCESSES points at and is alive: no
\* process runs on after it has exited.
CurrentAlive == CURRENT = k.PROCESSES /\ CURRENT \in Live

\* PID_MAP finds every process that is alive under its own pid, although
\* pid_hash_delete is never called and slots are used again.
PidMapFindsLive == \A p \in Live : k.PID_MAP[k.pid[p]] = p

\* scheduler_nextProcess always finds a process that can run.
NeverHung == ~k.hung

\* A signal is acted on in the handler that raised it: none is pending for a
\* process that waits for the CPU, so none hits a process at a later switch.
NoSignalLeft == \A p \in Live : k.signal[p] = "SIGNONE"

\* A blocked process becomes runnable only when the terminal holds it as the reader
\* of a line that is now complete, or when a process for which it is the waiting
\* parent ends (no SIGCONT is sent in the runs that check this).
WokenForAReason ==
  [][\A p \in Live \cap k.blocked :
        p \notin k'.blocked =>
           \/ k.cononical /\ ~k'.cononical /\ k.reader = p
           \/ \E c \in Live : c \notin Live' /\ k.wait[c] = k.pid[p]]_vars

\* Whatever traps or interrupts, a handler ends at most the process that was on the
\* CPU when it was entered: process_exit, which switches CURRENT before it buries,
\* and a fork into a slot used before leave every other process as it is.
OnlyCallerEnds ==
  [][\A p \in Live \ {CURRENT} : p \in Live' /\ k'.pid[p] = k.pid[p]]_vars

\* A signal that ends a process ends the one it is sent to: the caller of kill goes
\* on, unless the target is the caller.
SignalHitsTarget ==
  [][\A c \in Kills :
        LET p == k.PID_MAP[c[1]]
        IN  (k' = CheckSignal(Kill(k, PGID_MAP, c[1], c[2])) /\ p \in Live \ {CURRENT})
              => CURRENT \in Live']_vars

\* A process that moves to another group leaves the list of the old one: as long as
\* nobody calls setsid and no slot is used again (no exit is waited for), it is on no
\* list but that of its own group, although process_remove_from_group shifts entries
\* around while it walks over them.  (Group 0 is the code's "no group": a process is
\* never removed from its list.)
OneGroupEach ==
  \A p \in Live, g \in Pid :
     g # 0 /\ PGID_MAP[g] # NULL /\ p \in ToSet(PGID_MAP[g]) => k.pgid[p] = g
=============================================================================
