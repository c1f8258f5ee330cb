------------------------------ MODULE Userland -------------------------------
(***************************************************************************)
(* The programs that run on the kernel: systemd, which forks an idle loop  *)
(* and becomes getty; getty, which logs a user in and starts the shell;    *)
(* the shell, which starts commands; and the commands.  Each program is    *)
(* the sequence of its system calls; the calls are those of module         *)
(* Process.  What the programs compute is left open: a login may succeed   *)
(* or not, a line may be a builtin, `exit` or a command, a command may     *)
(* return or fault.  The calls on descriptors (open, dup2) leave every     *)
(* process with the terminal on its descriptor 0 and are not modelled      *)
(* here.                                                                   *)
(***************************************************************************)
EXTENDS Process

\* PROCESS_POOL has room for systemd.
ASSUME PoolAssumption == Slot # {}

VARIABLES
  prog,   \* prog[p]: the program in slot p's memory, where it is, and the child it waits for
  ended   \* history: ended[pid] is how that process ended

uvars == <<vars, prog, ended>>

Programs == {"systemd", "getty", "shell", "command"}
Places == {"fork", "branch", "setpgid", "tcsetpgrp", "exec", "idle", "prompt", "read",
           "eval", "wait", "retake", "work", "exit"}

\* The process on the CPU is at place `at`; it makes a call and is then at `to`.
At(at) == ~k.hung /\ prog[CURRENT].at = at
Goto(to) == prog' = [prog EXCEPT ![CURRENT].at = to] /\ UNCHANGED ended
Call(returned) == k' = CheckSignal(returned) /\ UNCHANGED PGID_MAP

\* The slot PROCESS_POOL hands out: the pool is deterministic, and which of the free
\* slots it is does not matter here (module Process tries them all).
PoolSlot(free) == CHOOSE c \in free : TRUE

\* systemd, getty and shell: fork(); parent and child go on from the same place.
Fork ==
  /\ At("fork") /\ k.PID <= MaxPid /\ k.free # {}
  /\ LET c == PoolSlot(k.free)
         branch == [prog[CURRENT] EXCEPT !.at = "branch"]
     IN  /\ k' = CheckSignal(ProcessFork(k, c))
         /\ prog' = [prog EXCEPT ![CURRENT] = branch, ![c] = branch]
  /\ UNCHANGED <<PGID_MAP, ended>>

\* `if (pid)` in systemd, `if (pid == 0)` in getty and shell: in systemd it is the
\* child that is left to loop, in the others it is the child that goes on to exec.
Branch ==
  /\ At("branch")
  /\ LET pid == k.rax[CURRENT]
         to == IF prog[CURRENT].name = "systemd"
               THEN IF pid # 0 THEN "setpgid" ELSE "idle"
               ELSE IF pid = 0 THEN "setpgid" ELSE "wait"
     IN  prog' = [prog EXCEPT ![CURRENT] = [@ EXCEPT !.at = to, !.child = pid]]
  /\ UNCHANGED <<vars, ended>>

Setpgid == /\ At("setpgid") /\ Goto("tcsetpgrp")
           /\ SetGroup(0, 0, TRUE)

TakeTerminal == /\ At("tcsetpgrp") /\ Goto("exec")
                /\ Call(Tcsetpgrp(k, 0))

\* execve of getty by systemd, of the shell by getty, of a command by the shell.
\* process_execvp replaces the memory and clears the pending signal.
Exec ==
  /\ At("exec")
  /\ LET name == CASE prog[CURRENT].name = "systemd" -> "getty"
                   [] prog[CURRENT].name = "getty"   -> "shell"
                   [] OTHER                          -> "command"
     IN  prog' = [prog EXCEPT ![CURRENT] =
                    [name |-> name, at |-> IF name = "command" THEN "work" ELSE "prompt",
                     child |-> 0]]
  /\ k' = CheckSignal([k EXCEPT !.signal[CURRENT] = "SIGNONE"])
  /\ UNCHANGED <<PGID_MAP, ended>>

\* The shell's child names a program that is not in /bin: sys_execve ignores that
\* vfs_find_entry failed and opens the pointer it never set.  The outcome in which that
\* pointer is not mapped ends the child; the one in which it leads to an old entry is Exec.
ExecMissing ==
  /\ At("exec") /\ prog[CURRENT].name = "shell"
  /\ ended' = [ended EXCEPT ![k.pid[CURRENT]] = "core"]
  /\ Call(Fault(k))
  /\ UNCHANGED prog

\* printf of the prompt, fgets of the answer
Prompt == At("prompt") /\ Goto("read") /\ Call(Write(k))
Read == At("read") /\ Goto("eval") /\ Call(Input(k))

\* getty: the login is wrong or right; shell: the line is a builtin, `exit`, a command.
Eval ==
  /\ At("eval")
  /\ \E to \in {"prompt", "fork", "exit"} :
        /\ to = "exit" => prog[CURRENT].name = "shell"
        /\ to = "fork" => k.PID <= MaxPid
        /\ Goto(to)
  /\ UNCHANGED vars

\* Faulty variant of Retake: the parent does not take the terminal back.
RetakeNothing == At("retake") /\ Goto("prompt") /\ Call(k)

\* waitpid(pid, &status, 0) and tcsetpgrp(0, 0) in the parent
Wait == At("wait") /\ Goto("retake") /\ Call(Waitpid(k, prog[CURRENT].child))
Retake == At("retake") /\ Goto("prompt") /\ Call(Tcsetpgrp(k, 0))

\* a command prints ...
Work == At("work") /\ Goto("exit") /\ Call(Write(k))

\* ... and it, or a shell told to exit, ends; a command may fault instead.
Exit ==
  /\ At("exit")
  /\ \/ /\ k' = CheckSignal(ProcessExit(k, CURRENT, "exit"))
        /\ ended' = [ended EXCEPT ![k.pid[CURRENT]] = "exit"]
     \/ /\ prog[CURRENT].name = "command"
        /\ k' = CheckSignal(Signal(k, CURRENT, "SIGSEGV"))
        /\ ended' = [ended EXCEPT ![k.pid[CURRENT]] = "core"]
  /\ UNCHANGED <<PGID_MAP, prog>>

Step == \/ Fork \/ Branch \/ Setpgid \/ TakeTerminal \/ Exec \/ ExecMissing \/ Prompt \/ Read
        \/ Eval \/ Wait \/ Retake \/ Work \/ Exit

Timer == Tick /\ UNCHANGED <<prog, ended>>
Enter == KeyNewline /\ UNCHANGED <<prog, ended>>

UInit ==
  /\ k = Launch(PoolSlot(Slot))
  /\ PGID_MAP = [i \in Pid |-> NULL]
  /\ prog = [p \in Slot |-> [name |-> "systemd", at |-> "fork", child |-> 0]]
  /\ ended = [i \in Pid |-> "none"]

UNext == Step \/ Timer \/ Enter

\* ENABLED Step, spelled out so that TLC need not compute the successors for it.
CanStep == /\ ~k.hung
           /\ prog[CURRENT].at # "idle"
           /\ prog[CURRENT].at = "fork" => k.PID <= MaxPid /\ k.free # {}

(***************************************************************************)
(* The timer keeps interrupting, and a process that keeps getting the CPU  *)
(* keeps executing instructions: a quantum is longer than an instruction.  *)
(* Nothing is assumed of the user at the keyboard.                         *)
(***************************************************************************)
USpec == /\ UInit /\ [][UNext]_uvars
         /\ WF_uvars(Timer)
         /\ \A p \in Slot : []<>(CURRENT = p /\ CanStep) => []<><<CURRENT = p /\ Step>>_uvars

-----------------------------------------------------------------------------
(* Properties *)

\* When waitpid has returned to the shell, it has returned the child it was called
\* for, with the status that child ended with: whichever came first, the call or
\* the exit, and whichever process ran in between.
WaitAnswered ==
  \A p \in Live \ k.blocked :
     prog[p].at = "retake" => /\ k.rax[p] = prog[p].child
                              /\ k.stat[p] = ended[prog[p].child]

\* Every blocked process, the pid-0 process aside, has somebody who will wake it:
\* the line discipline, which holds it as its reader, or a process that is alive
\* and has it as the parent that waits.
NoLostWakeup ==
  \A p \in Live \cap k.blocked :
     \/ k.cononical /\ k.reader = p
     \/ \E c \in Live : k.wait[c] = k.pid[p]
     \/ k.pid[p] = 0

\* No process of this userland ever touches the terminal from the background:
\* sys_write and sys_input never stop the caller, although three programs hand the
\* terminal's group around with tcsetpgrp while the timer switches between them.
NeverStopped ==
  \A p \in Live : prog[p].at \in {"prompt", "read", "work"} => k.pgid[p] = k.grp

\* A shell that waits for a command gets back to its prompt.
CommandsReturn ==
  \A p \in Slot :
     (p \in Live /\ prog[p].name = "shell" /\ prog[p].at = "retake")
        ~> (prog[p].name = "shell" /\ prog[p].at = "prompt")

=============================================================================
