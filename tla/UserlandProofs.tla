--------------------------- MODULE UserlandProofs ----------------------------
(***************************************************************************)
(* The programs of the userland and the kernel together: a waitpid returns *)
(* its child's status, every sleeper has somebody to wake it, and nobody   *)
(* touches the terminal from the background, for any number of processes.  *)
(* The argument is about who is in front: a process that has forked leaves *)
(* the terminal to its child until that has ended.                         *)
(***************************************************************************)
EXTENDS Userland, ProcessProofs

\* The child process p has forked and not waited for to the end, by its pid. s is the
\* kernel and g says where the programs are.
HasChild(s, g, p) ==
  \/ g[p].at = "branch" /\ g[p].name # "systemd" /\ s.rax[p] # 0
  \/ g[p].at = "wait"
  \/ g[p].at = "retake" /\ p \in s.blocked
Kid(s, g, p) == IF g[p].at = "branch" THEN s.rax[p] ELSE g[p].child

\* p leaves the terminal to its child: it is alive, or p is the process with pid 0,
\* which a waitpid puts to sleep for ever.
Covered(s, g, p) == /\ HasChild(s, g, p)
                    /\ s.PID_MAP[Kid(s, g, p)] \in LiveOf(s) \/ (s.pid[p] = 0 /\ p \in s.blocked)
InFront(s, g, p) == p \in LiveOf(s) /\ s.pid[p] # 1 /\ ~Covered(s, g, p)

Shapes(g, e) == /\ g \in [Slot -> [name : Programs, at : Places, child : Pid]]
                /\ e \in [Pid -> Status]
Kernels(s) == s.free \cap s.zombie = {} /\ s.CURRENT \notin s.blocked
\* A zombie keeps its pid and how it ended.
Zombies(s, e) == \A z \in s.zombie : /\ s.PID_MAP[s.pid[z]] = z /\ s.pid[z] < s.PID
                                     /\ s.status[z] = e[s.pid[z]]
\* systemd is not the one that forks users' programs; its child is the idle loop.
Systemd(s, g) ==
  \A p \in LiveOf(s) :
     /\ g[p].name = "systemd" => g[p].at \in {"branch", "setpgid", "tcsetpgrp", "exec", "idle"}
     /\ s.pid[p] = 1 => /\ g[p].name = "systemd"
                        /\ g[p].at = "idle" \/ (g[p].at = "branch" /\ s.rax[p] = 0)
OneInFront(s, g) == \A p, q \in LiveOf(s) : InFront(s, g, p) /\ InFront(s, g, q) => p = q
\* A child is there, alive or a zombie; alive and with its parent's pid if that sleeps.
Children(s, g) ==
  \A p \in LiveOf(s) : HasChild(s, g, p) =>
     LET c == s.PID_MAP[Kid(s, g, p)]
     IN  /\ c \in LiveOf(s) \cup s.zombie /\ s.pid[c] = Kid(s, g, p)
         /\ p \in s.blocked /\ s.pid[p] # 0 => c \in LiveOf(s) /\ s.wait[c] = s.pid[p]
OneParent(s, g) == \A p, q \in LiveOf(s) :
                      HasChild(s, g, p) /\ HasChild(s, g, q) /\ Kid(s, g, p) = Kid(s, g, q) => p = q
Parents(s, g) ==
  \A c \in LiveOf(s) : s.wait[c] # 0 =>
     LET w == s.PID_MAP[s.wait[c]]
     IN  /\ w \in LiveOf(s) \cap s.blocked /\ s.pid[w] = s.wait[c]
         /\ g[w].at = "retake" /\ g[w].child = s.pid[c]
Sleepers(s, g) ==
  \A p \in LiveOf(s) \cap s.blocked :
     g[p].at = "retake" \/ (g[p].at = "eval" /\ s.cononical /\ s.reader = p)
Reader(s, g) == s.cononical => s.reader \in LiveOf(s) \cap s.blocked /\ g[s.reader].at = "eval"
Answered(s, g, e) ==
  \A p \in LiveOf(s) \ s.blocked : g[p].at = "retake" =>
     /\ s.rax[p] = g[p].child /\ s.stat[p] = e[g[p].child] /\ g[p].child < s.PID
     /\ \A q \in LiveOf(s) : s.pid[q] # g[p].child
Foreground(s, g) ==
  \A p \in LiveOf(s) : g[p].at \in {"exec", "prompt", "read", "eval", "work"} => s.pgid[p] = s.grp

Family(s, g) == OneInFront(s, g) /\ Children(s, g) /\ OneParent(s, g) /\ Parents(s, g)
Asleep(s, g) == Sleepers(s, g) /\ Reader(s, g)
Users(s, g, e) == /\ Shapes(g, e) /\ Kernels(s) /\ Zombies(s, e) /\ Systemd(s, g)
                  /\ Family(s, g) /\ Asleep(s, g) /\ Answered(s, g, e) /\ Foreground(s, g)

\* Before systemd has forked.
Booting(s, g, e) == /\ Launched(PoolSlot(Slot), s)
                    /\ g = [p \in Slot |-> [name |-> "systemd", at |-> "fork", child |-> 0]]
                    /\ e = [i \in Pid |-> "none"]

UserlandInv == Booting(k, prog, ended) \/ (Settled(k) /\ Users(k, prog, ended))

-----------------------------------------------------------------------------
\* What Settled says of pids and places.
LEMMA SettledPids ==
  ASSUME NEW s, Settled(s)
  PROVE  /\ LiveOf(s) \subseteq Slot /\ s.pid \in [Slot -> Pid] /\ s.rax \in [Slot -> Pid]
         /\ s.wait \in [Slot -> Pid] /\ s.stat \in [Slot -> Status]
         /\ s.PID_MAP \in [Pid -> Slot \cup {NULL}] /\ s.PID \in Int /\ s.PID >= 2
         /\ \A i \in Pid : i \in Int
         /\ \A p \in LiveOf(s) : s.PID_MAP[s.pid[p]] = p /\ s.pid[p] < s.PID
         /\ LiveOf(s) \cap s.zombie = {} /\ LiveOf(s) \cap s.free = {} /\ s.free \subseteq Slot
<1>1. s \in Kernel /\ PidsKnown(s)
  BY DEF Settled, Core
<1>2. /\ s.pid \in [Slot -> Pid] /\ s.rax \in [Slot -> Pid] /\ s.wait \in [Slot -> Pid]
      /\ s.stat \in [Slot -> Status] /\ s.PID_MAP \in [Pid -> Slot \cup {NULL}]
      /\ s.PID \in 0..MaxPid + 1 /\ s.free \subseteq Slot
  BY <1>1 DEF Kernel
<1>3. s.PID \in Int /\ \A i \in Pid : i \in Int
  BY <1>2, MaxPidAssumption DEF Pid
<1>4. s.PID >= 2 /\ \A p \in LiveOf(s) : s.PID_MAP[s.pid[p]] = p /\ s.pid[p] < s.PID
  BY <1>1 DEF PidsKnown
<1>5. LiveOf(s) \subseteq Slot /\ LiveOf(s) \cap s.zombie = {} /\ LiveOf(s) \cap s.free = {}
  BY DEF LiveOf
<1> QED BY <1>2, <1>3, <1>4, <1>5

\* A process that makes a call which is not a waitpid has no child and is in front.
LEMMA Alone ==
  ASSUME NEW s, NEW g, NEW e, Users(s, g, e), NEW p \in LiveOf(s),
         g[p].at \notin {"branch", "wait", "idle"}, g[p].at = "retake" => p \notin s.blocked
  PROVE  /\ ~HasChild(s, g, p) /\ s.pid[p] # 1 /\ InFront(s, g, p)
         /\ g[p].at \notin {"setpgid", "tcsetpgrp", "exec"} => g[p].name # "systemd"
<1>1. ~HasChild(s, g, p)
  BY DEF HasChild
<1>2. s.pid[p] # 1 /\ (g[p].at \notin {"setpgid", "tcsetpgrp", "exec"} => g[p].name # "systemd")
  BY DEF Users, Systemd
<1> QED BY <1>1, <1>2 DEF InFront, Covered

\* t is s as far as the family, the sleepers and the answers go.
SameFamily(s, t) ==
  /\ LiveOf(t) = LiveOf(s) /\ t.free = s.free /\ t.zombie = s.zombie /\ t.blocked = s.blocked
  /\ t.pid = s.pid /\ t.PID = s.PID /\ t.PID_MAP = s.PID_MAP /\ t.status = s.status
  /\ t.wait = s.wait /\ t.rax = s.rax /\ t.stat = s.stat
  /\ t.cononical = s.cononical /\ t.reader = s.reader

\* A step of the process c to another place, in which it has the child it had before.
LEMMA PlaceStep ==
  ASSUME NEW s, NEW t, NEW g, NEW h, NEW e, Settled(s), Users(s, g, e), SameFamily(s, t),
         t.CURRENT \notin t.blocked, Shapes(h, e), NEW c \in LiveOf(s) \ s.blocked,
         \A p \in LiveOf(s) \ {c} : h[p] = g[p],
         HasChild(t, h, c) <=> HasChild(s, g, c),
         HasChild(s, g, c) => Kid(t, h, c) = Kid(s, g, c),
         h[c] = g[c] \/ h[c].at # "retake", Systemd(t, h), Foreground(t, h)
  PROVE  Users(t, h, e)
<1>1. /\ LiveOf(t) = LiveOf(s) /\ t.blocked = s.blocked /\ t.pid = s.pid /\ t.PID = s.PID
      /\ t.PID_MAP = s.PID_MAP /\ t.wait = s.wait /\ t.rax = s.rax /\ t.stat = s.stat
      /\ t.cononical = s.cononical /\ t.reader = s.reader /\ t.zombie = s.zombie
      /\ t.free = s.free /\ t.status = s.status
  BY DEF SameFamily
<1>2. \A p \in LiveOf(s) : /\ HasChild(t, h, p) <=> HasChild(s, g, p)
                           /\ HasChild(s, g, p) => Kid(t, h, p) = Kid(s, g, p)
  <2>1. ASSUME NEW p \in LiveOf(s), p # c
        PROVE  (HasChild(t, h, p) <=> HasChild(s, g, p)) /\ Kid(t, h, p) = Kid(s, g, p)
    BY <1>1, <2>1 DEF HasChild, Kid
  <2> QED BY <2>1
<1>3. \A p \in LiveOf(s) : InFront(t, h, p) <=> InFront(s, g, p)
  BY <1>1, <1>2 DEF InFront, Covered
<1>4. OneInFront(t, h)
  BY <1>1, <1>3 DEF Users, Family, OneInFront
<1>5. Children(t, h)
  BY <1>1, <1>2 DEF Users, Family, Children
<1>6. OneParent(t, h)
  BY <1>1, <1>2 DEF Users, Family, OneParent
<1>7. \A p \in LiveOf(s) \cap s.blocked : h[p] = g[p]
  OBVIOUS
<1>8. Parents(t, h)
  BY <1>1, <1>7 DEF Users, Family, Parents
<1>9. Sleepers(t, h) /\ Reader(t, h)
  BY <1>1, <1>7 DEF Users, Asleep, Sleepers, Reader
<1>10. Answered(t, h, e)
  BY <1>1 DEF Users, Answered
<1>11. Zombies(t, e) /\ Kernels(t)
  BY <1>1 DEF Users, Zombies, Kernels
<1> QED BY <1>4, <1>5, <1>6, <1>8, <1>9, <1>10, <1>11 DEF Users, Family, Asleep

\* The process c has moved to the place `to`.
Gone(g, c, to, h) == /\ h[c].at = to /\ h[c].name = g[c].name /\ h[c].child = g[c].child
                     /\ \A p \in Slot \ {c} : h[p] = g[p]

LEMMA GotoGone ==
  ASSUME NEW g, NEW e, Shapes(g, e), NEW c \in Slot, NEW to \in Places
  PROVE  Gone(g, c, to, [g EXCEPT ![c].at = to]) /\ Shapes([g EXCEPT ![c].at = to], e)
BY DEF Shapes, Gone

\* fgets: the process on the CPU, which is in front, becomes the reader of the terminal.
\* There was none before, because a reader is in front too.
LEMMA ReadStep ==
  ASSUME NEW s, NEW t, NEW g, NEW h, NEW e, Settled(s), Users(s, g, e), Shapes(h, e),
         g[s.CURRENT].at = "read", Gone(g, s.CURRENT, "eval", h),
         LiveOf(t) = LiveOf(s), t.free = s.free, t.zombie = s.zombie, t.pid = s.pid, t.PID = s.PID,
         t.PID_MAP = s.PID_MAP, t.status = s.status, t.wait = s.wait, t.rax = s.rax, t.stat = s.stat,
         t.cononical, t.reader = s.CURRENT, t.blocked = s.blocked \cup {s.CURRENT},
         t.pgid = s.pgid, t.grp = s.grp, t.CURRENT \notin t.blocked
  PROVE  Users(t, h, e)
<1> DEFINE c == s.CURRENT
<1>1. c \in LiveOf(s) /\ c \in Slot /\ LiveOf(s) \subseteq Slot /\ c \notin s.blocked
  BY SettledCurrent, SettledPids DEF Users, Kernels
<1>2. ~HasChild(s, g, c) /\ ~HasChild(t, h, c) /\ InFront(s, g, c) /\ s.pid[c] # 1 /\ g[c].name # "systemd"
  BY <1>1, Alone DEF HasChild, Gone
<1>3. \A p \in LiveOf(s) : p # c => h[p] = g[p] /\ (p \in t.blocked <=> p \in s.blocked)
  BY <1>1 DEF Gone
<1>4. ~s.cononical
  <2>1. SUFFICES ASSUME s.cononical PROVE FALSE
    OBVIOUS
  <2>2. s.reader \in LiveOf(s) \cap s.blocked /\ g[s.reader].at = "eval"
    BY <2>1 DEF Users, Asleep, Reader
  <2>3. InFront(s, g, s.reader)
    BY <2>2, Alone
  <2> QED BY <1>1, <1>2, <2>2, <2>3 DEF Users, Family, OneInFront
<1>5. \A p \in LiveOf(s) : /\ HasChild(t, h, p) <=> HasChild(s, g, p)
                           /\ HasChild(s, g, p) => Kid(t, h, p) = Kid(s, g, p)
  BY <1>2, <1>3 DEF HasChild, Kid
<1>6. \A p \in LiveOf(s) : InFront(t, h, p) <=> InFront(s, g, p)
  BY <1>2, <1>3, <1>5 DEF InFront, Covered
<1>7. OneInFront(t, h)
  BY <1>6 DEF Users, Family, OneInFront
<1>8. Children(t, h)
  BY <1>2, <1>3, <1>5 DEF Users, Family, Children
<1>9. OneParent(t, h)
  BY <1>5 DEF Users, Family, OneParent
<1>10. Parents(t, h)
  BY <1>1, <1>3 DEF Users, Family, Parents
<1>11. Sleepers(t, h) /\ Reader(t, h)
  BY <1>1, <1>3, <1>4 DEF Users, Asleep, Sleepers, Reader, Gone
<1>12. Answered(t, h, e)
  BY <1>1, <1>3 DEF Users, Answered
<1>13. Zombies(t, e) /\ Kernels(t)
  BY DEF Users, Zombies, Kernels
<1>14. Systemd(t, h)
  BY <1>2, <1>3 DEF Users, Systemd, Gone
<1>15. Foreground(t, h)
  BY <1>1, <1>3 DEF Users, Foreground
<1> QED BY <1>7, <1>8, <1>9, <1>10, <1>11, <1>12, <1>13, <1>14, <1>15 DEF Users, Family, Asleep

\* The end of a line wakes the reader, which waits for no child.
LEMMA EnterStep ==
  ASSUME NEW s, NEW t, NEW g, NEW e, Settled(s), Users(s, g, e), s.cononical,
         LiveOf(t) = LiveOf(s), t.free = s.free, t.zombie = s.zombie, t.pid = s.pid, t.PID = s.PID,
         t.PID_MAP = s.PID_MAP, t.status = s.status, t.wait = s.wait, t.rax = s.rax, t.stat = s.stat,
         ~t.cononical, t.blocked = s.blocked \ {s.reader},
         t.pgid = s.pgid, t.grp = s.grp, t.CURRENT = s.CURRENT
  PROVE  Users(t, g, e)
<1> DEFINE r == s.reader
<1>1. r \in LiveOf(s) \cap s.blocked /\ g[r].at = "eval"
  BY DEF Users, Asleep, Reader
<1>2. \A p \in LiveOf(s) : /\ HasChild(t, g, p) <=> HasChild(s, g, p)
                           /\ Kid(t, g, p) = Kid(s, g, p)
                           /\ HasChild(s, g, p) => p # r
  BY <1>1 DEF HasChild, Kid
<1>3. \A p \in LiveOf(s) : InFront(t, g, p) <=> InFront(s, g, p)
  BY <1>2 DEF InFront, Covered
<1>4. OneInFront(t, g)
  BY <1>3 DEF Users, Family, OneInFront
<1>5. Children(t, g)
  BY <1>2 DEF Users, Family, Children
<1>6. OneParent(t, g)
  BY <1>2 DEF Users, Family, OneParent
<1>7. Parents(t, g)
  BY <1>1 DEF Users, Family, Parents
<1>8. Sleepers(t, g) /\ Reader(t, g)
  BY <1>1 DEF Users, Asleep, Sleepers, Reader
<1>9. Answered(t, g, e)
  BY <1>1 DEF Users, Answered
<1>10. Zombies(t, e) /\ Kernels(t)
  BY DEF Users, Zombies, Kernels
<1>11. Systemd(t, g) /\ Foreground(t, g)
  BY DEF Users, Systemd, Foreground
<1> QED BY <1>4, <1>5, <1>6, <1>7, <1>8, <1>9, <1>10, <1>11 DEF Users, Family, Asleep

\* t is s after a waitpid for z: z is a zombie and has answered, or the caller sleeps.
Reaped(s, z, t) ==
  LET c == s.CURRENT
  IN  /\ LiveOf(t) = LiveOf(s) /\ t.free = s.free /\ t.zombie = s.zombie
      /\ t.pid = s.pid /\ t.PID = s.PID /\ t.PID_MAP = s.PID_MAP /\ t.status = s.status
      /\ t.wait = s.wait /\ t.blocked = s.blocked
      /\ t.rax = [s.rax EXCEPT ![c] = s.pid[z]] /\ t.stat = [s.stat EXCEPT ![c] = s.status[z]]
      /\ t.cononical = s.cononical /\ t.reader = s.reader
      /\ t.pgid = s.pgid /\ t.grp = s.grp /\ t.CURRENT = c
Sleeps(s, z, t) ==
  LET c == s.CURRENT
  IN  /\ LiveOf(t) = LiveOf(s) /\ t.free = s.free /\ t.zombie = s.zombie
      /\ t.pid = s.pid /\ t.PID = s.PID /\ t.PID_MAP = s.PID_MAP /\ t.status = s.status
      /\ t.wait = [s.wait EXCEPT ![z] = s.pid[c]] /\ t.blocked = s.blocked \cup {c}
      /\ t.rax = s.rax /\ t.stat = s.stat /\ t.cononical = s.cononical /\ t.reader = s.reader
      /\ t.pgid = s.pgid /\ t.grp = s.grp /\ t.CURRENT \notin t.blocked

\* waitpid for a child that is a zombie: the answer is there at once.
LEMMA WaitZombieStep ==
  ASSUME NEW s, NEW t, NEW g, NEW h, NEW e, Settled(s), Users(s, g, e), Shapes(h, e),
         g[s.CURRENT].at = "wait", Gone(g, s.CURRENT, "retake", h),
         NEW z \in s.zombie, s.PID_MAP[g[s.CURRENT].child] = z, Reaped(s, z, t)
  PROVE  Users(t, h, e)
<1> DEFINE c == s.CURRENT
<1>0. /\ LiveOf(t) = LiveOf(s) /\ t.free = s.free /\ t.zombie = s.zombie /\ t.pid = s.pid
      /\ t.PID = s.PID /\ t.PID_MAP = s.PID_MAP /\ t.status = s.status /\ t.wait = s.wait
      /\ t.blocked = s.blocked /\ t.cononical = s.cononical /\ t.reader = s.reader
      /\ t.pgid = s.pgid /\ t.grp = s.grp /\ t.CURRENT = c
  BY DEF Reaped
<1>1. c \in LiveOf(s) /\ c \in Slot /\ LiveOf(s) \subseteq Slot /\ c \notin s.blocked
  BY SettledCurrent, SettledPids DEF Users, Kernels
<1>2. /\ HasChild(s, g, c) /\ Kid(s, g, c) = g[c].child /\ ~HasChild(t, h, c)
      /\ s.pid[z] = g[c].child /\ z \notin LiveOf(s)
  <2>1. HasChild(s, g, c) /\ Kid(s, g, c) = g[c].child /\ ~HasChild(t, h, c)
    BY <1>0, <1>1 DEF HasChild, Kid, Gone
  <2>2. s.pid[z] = g[c].child
    BY <1>1, <2>1 DEF Users, Family, Children
  <2> QED BY <2>1, <2>2, SettledPids
<1>3. /\ \A p \in LiveOf(s) : p # c => h[p] = g[p] /\ t.rax[p] = s.rax[p] /\ t.stat[p] = s.stat[p]
      /\ t.rax[c] = s.pid[z] /\ t.stat[c] = s.status[z]
      /\ h[c].at = "retake" /\ h[c].name = g[c].name /\ h[c].child = g[c].child
  BY <1>1, SettledPids DEF Gone, Reaped
<1>4. \A p \in LiveOf(s) : p # c => /\ HasChild(t, h, p) <=> HasChild(s, g, p)
                                    /\ Kid(t, h, p) = Kid(s, g, p)
  BY <1>0, <1>3 DEF HasChild, Kid
<1>5. \A p \in LiveOf(s) : InFront(t, h, p) <=> InFront(s, g, p)
  <2>1. ~Covered(s, g, c) /\ ~Covered(t, h, c)
    BY <1>1, <1>2 DEF Covered
  <2> QED BY <1>0, <1>4, <2>1 DEF InFront, Covered
<1>6. OneInFront(t, h)
  BY <1>0, <1>5 DEF Users, Family, OneInFront
<1>7. Children(t, h)
  BY <1>0, <1>2, <1>4 DEF Users, Family, Children
<1>8. OneParent(t, h)
  BY <1>0, <1>2, <1>4 DEF Users, Family, OneParent
<1>9. Parents(t, h)
  <2>1. \A p \in LiveOf(s) \cap s.blocked : h[p] = g[p]
    BY <1>1, <1>3
  <2> QED BY <1>0, <2>1 DEF Users, Family, Parents
<1>10. Sleepers(t, h) /\ Reader(t, h)
  BY <1>0, <1>1, <1>3 DEF Users, Asleep, Sleepers, Reader
<1>11. Answered(t, h, e)
  <2>1. s.status[z] = e[s.pid[z]] /\ s.pid[z] < s.PID
    BY DEF Users, Zombies
  <2>2. \A q \in LiveOf(s) : s.pid[q] # g[c].child
    BY <1>2, SettledPids
  <2> QED BY <1>0, <1>2, <1>3, <2>1, <2>2 DEF Users, Answered
<1>12. Zombies(t, e) /\ Kernels(t)
  BY <1>0 DEF Users, Zombies, Kernels
<1>13. Systemd(t, h)
  <2>1. g[c].name # "systemd" /\ s.pid[c] # 1
    BY <1>1 DEF Users, Systemd
  <2> QED BY <1>0, <1>3, <2>1 DEF Users, Systemd
<1>14. Foreground(t, h)
  BY <1>0, <1>3 DEF Users, Foreground
<1> QED BY <1>6, <1>7, <1>8, <1>9, <1>10, <1>11, <1>12, <1>13, <1>14 DEF Users, Family, Asleep

\* waitpid for a child that is alive: the caller sleeps, and the child knows its parent.
LEMMA WaitLiveStep ==
  ASSUME NEW s, NEW t, NEW g, NEW h, NEW e, NEW z, Settled(s), Users(s, g, e), Shapes(h, e),
         g[s.CURRENT].at = "wait", Gone(g, s.CURRENT, "retake", h),
         z \notin s.zombie, s.PID_MAP[g[s.CURRENT].child] = z, Sleeps(s, z, t)
  PROVE  Users(t, h, e)
<1> DEFINE c == s.CURRENT
<1>0. /\ LiveOf(t) = LiveOf(s) /\ t.free = s.free /\ t.zombie = s.zombie /\ t.pid = s.pid
      /\ t.PID = s.PID /\ t.PID_MAP = s.PID_MAP /\ t.status = s.status /\ t.rax = s.rax
      /\ t.stat = s.stat /\ t.cononical = s.cononical /\ t.reader = s.reader
      /\ t.pgid = s.pgid /\ t.grp = s.grp /\ t.CURRENT \notin t.blocked
  BY DEF Sleeps
<1>1. c \in LiveOf(s) /\ c \in Slot /\ LiveOf(s) \subseteq Slot /\ c \notin s.blocked /\ c \in t.blocked
  BY SettledCurrent, SettledPids DEF Users, Kernels, Sleeps
<1>2. HasChild(s, g, c) /\ Kid(s, g, c) = g[c].child /\ HasChild(t, h, c) /\ Kid(t, h, c) = g[c].child
  BY <1>1 DEF HasChild, Kid, Gone
<1>3. z \in LiveOf(s) /\ s.pid[z] = g[c].child
  BY <1>1, <1>2 DEF Users, Family, Children
<1>4. /\ t.wait[z] = s.pid[c] /\ \A p \in LiveOf(s) : p # z => t.wait[p] = s.wait[p]
      /\ h[c].at = "retake" /\ h[c].name = g[c].name /\ h[c].child = g[c].child
      /\ \A p \in LiveOf(s) : p # c => h[p] = g[p] /\ (p \in t.blocked <=> p \in s.blocked)
  <2>1. t.wait[z] = s.pid[c] /\ \A p \in LiveOf(s) : p # z => t.wait[p] = s.wait[p]
    BY <1>1, <1>3, SettledPids DEF Sleeps
  <2>2. \A p \in LiveOf(s) : p # c => h[p] = g[p] /\ (p \in t.blocked <=> p \in s.blocked)
    BY <1>1 DEF Gone, Sleeps
  <2> QED BY <2>1, <2>2 DEF Gone
<1>5. \A p \in LiveOf(s) : /\ HasChild(t, h, p) <=> HasChild(s, g, p)
                           /\ HasChild(s, g, p) => Kid(t, h, p) = Kid(s, g, p)
  <2>1. ASSUME NEW p \in LiveOf(s), p # c
        PROVE  (HasChild(t, h, p) <=> HasChild(s, g, p)) /\ Kid(t, h, p) = Kid(s, g, p)
    BY <1>0, <1>4, <2>1 DEF HasChild, Kid
  <2> QED BY <1>2, <2>1
<1>6. \A p \in LiveOf(s) : InFront(t, h, p) <=> InFront(s, g, p)
  <2>1. Covered(s, g, c) /\ Covered(t, h, c)
    BY <1>0, <1>2, <1>3 DEF Covered
  <2> QED BY <1>0, <1>4, <1>5, <2>1 DEF InFront, Covered
<1>7. OneInFront(t, h)
  BY <1>0, <1>6 DEF Users, Family, OneInFront
<1>8. Children(t, h)
  <2>1. ASSUME NEW p \in LiveOf(t), HasChild(t, h, p)
        PROVE  LET x == t.PID_MAP[Kid(t, h, p)]
               IN  /\ x \in LiveOf(t) \cup t.zombie /\ t.pid[x] = Kid(t, h, p)
                   /\ p \in t.blocked /\ t.pid[p] # 0 => x \in LiveOf(t) /\ t.wait[x] = t.pid[p]
    <3>1. CASE p = c
      BY <1>0, <1>2, <1>3, <1>4, <3>1
    <3>2. CASE p # c
      <4> DEFINE x == s.PID_MAP[Kid(s, g, p)]
      <4>1. HasChild(s, g, p) /\ Kid(t, h, p) = Kid(s, g, p) /\ p \in LiveOf(s)
        BY <1>0, <1>5, <2>1
      <4>2. /\ x \in LiveOf(s) \cup s.zombie /\ s.pid[x] = Kid(s, g, p)
            /\ p \in s.blocked /\ s.pid[p] # 0 => x \in LiveOf(s) /\ s.wait[x] = s.pid[p]
        BY <4>1 DEF Users, Family, Children
      <4>3. x # z
        <5>1. x = z => Kid(s, g, p) = Kid(s, g, c)
          BY <1>2, <1>3, <4>2
        <5> QED BY <1>1, <1>2, <3>2, <4>1, <5>1 DEF Users, Family, OneParent
      <4> QED BY <1>0, <1>4, <3>2, <4>1, <4>2, <4>3
    <3> QED BY <3>1, <3>2
  <2> QED BY <2>1 DEF Children
<1>9. OneParent(t, h)
  BY <1>0, <1>5 DEF Users, Family, OneParent
<1>10. Parents(t, h)
  <2>1. ASSUME NEW x \in LiveOf(t), t.wait[x] # 0
        PROVE  LET w == t.PID_MAP[t.wait[x]]
               IN  /\ w \in LiveOf(t) \cap t.blocked /\ t.pid[w] = t.wait[x]
                   /\ h[w].at = "retake" /\ h[w].child = t.pid[x]
    <3>1. CASE x = z
      <4>1. t.wait[x] = s.pid[c] /\ s.PID_MAP[s.pid[c]] = c
        BY <1>1, <1>4, <3>1, SettledPids
      <4> QED BY <1>0, <1>1, <1>3, <1>4, <3>1, <4>1
    <3>2. CASE x # z
      <4> DEFINE w == s.PID_MAP[s.wait[x]]
      <4>1. x \in LiveOf(s) /\ t.wait[x] = s.wait[x] /\ s.wait[x] # 0
        BY <1>0, <1>4, <2>1, <3>2
      <4>2. /\ w \in LiveOf(s) \cap s.blocked /\ s.pid[w] = s.wait[x]
            /\ g[w].at = "retake" /\ g[w].child = s.pid[x]
        BY <4>1 DEF Users, Family, Parents
      <4>3. w # c
        BY <1>1, <4>2
      <4> QED BY <1>0, <1>4, <4>1, <4>2, <4>3
    <3> QED BY <3>1, <3>2
  <2> QED BY <2>1 DEF Parents
<1>11. Sleepers(t, h)
  BY <1>0, <1>4 DEF Users, Asleep, Sleepers
<1>12. Reader(t, h)
  BY <1>0, <1>1, <1>4 DEF Users, Asleep, Reader
<1>13. Answered(t, h, e)
  BY <1>0, <1>1, <1>4 DEF Users, Answered
<1>14. Zombies(t, e) /\ Kernels(t)
  BY <1>0 DEF Users, Zombies, Kernels
<1>15. Systemd(t, h)
  <2>1. g[c].name # "systemd" /\ s.pid[c] # 1
    BY <1>1 DEF Users, Systemd
  <2> QED BY <1>0, <1>4, <2>1 DEF Users, Systemd
<1>16. Foreground(t, h)
  BY <1>0, <1>4 DEF Users, Foreground
<1> QED BY <1>7, <1>8, <1>9, <1>10, <1>11, <1>12, <1>13, <1>14, <1>15, <1>16
        DEF Users, Family, Asleep

\* What the end of p with status st means to the others; Ended without the ring.
Leaves(s, p, st, t) ==
  /\ LiveOf(t) = LiveOf(s) \ {p} /\ t.CURRENT \notin s.blocked
  /\ t.pid = s.pid /\ t.PID = s.PID /\ t.PID_MAP = s.PID_MAP
  /\ t.wait = s.wait /\ t.cononical = s.cononical /\ t.reader = s.reader
  /\ t.pgid = s.pgid /\ t.grp = s.grp /\ t.status = [s.status EXCEPT ![p] = st]
  /\ s.wait[p] # 0 => LET w == s.PID_MAP[s.wait[p]] IN
       /\ t.free = s.free \cup {p} /\ t.zombie = s.zombie /\ t.blocked = s.blocked \ {w}
       /\ t.stat = [s.stat EXCEPT ![w] = st] /\ t.rax = [s.rax EXCEPT ![w] = s.pid[p]]
  /\ s.wait[p] = 0 => /\ t.free = s.free /\ t.zombie = s.zombie \cup {p}
                      /\ t.blocked = s.blocked /\ t.stat = s.stat /\ t.rax = s.rax

LEMMA EndedLeaves ==
  ASSUME NEW s, NEW p, NEW st, NEW t, Ended(s, p, st, t)
  PROVE  Leaves(s, p, st, t)
BY DEF Ended, Leaves

\* The zombies there were keep their status when another process ends.
LEMMA EndedZombies ==
  ASSUME NEW s, NEW g, NEW e, NEW st \in Status, Settled(s), Users(s, g, e), NEW z \in s.zombie
  PROVE  /\ [e EXCEPT ![s.pid[s.CURRENT]] = st][s.pid[z]] = s.status[z]
         /\ [s.status EXCEPT ![s.CURRENT] = st][z] = s.status[z]
         /\ s.PID_MAP[s.pid[z]] = z /\ s.pid[z] < s.PID
<1> DEFINE c == s.CURRENT
<1>1. c \in LiveOf(s) /\ c \notin s.zombie /\ s.PID_MAP[s.pid[c]] = c
  BY SettledCurrent, SettledPids
<1>2. s.PID_MAP[s.pid[z]] = z /\ s.pid[z] < s.PID /\ s.status[z] = e[s.pid[z]] /\ z # c
  BY <1>1 DEF Users, Zombies
<1>3. z \in Slot /\ s.status \in [Slot -> Status] /\ s.pid \in [Slot -> Pid]
  BY DEF Settled, Core, Kernel
<1>4. e \in [Pid -> Status] /\ s.pid[z] \in Pid /\ s.pid[z] # s.pid[c]
  BY <1>1, <1>2, <1>3 DEF Users, Shapes
<1> QED BY <1>2, <1>3, <1>4

(***************************************************************************)
(* The process on the CPU, which has no child, ends with status st.  Its   *)
(* parent is then the one in front: if it waits it is woken with the       *)
(* answer, if it does not the process stays as a zombie.  Only the parent  *)
(* has had this child, so there is still only one in front.                *)
(***************************************************************************)
LEMMA ExitStep ==
  ASSUME NEW s, NEW t, NEW g, NEW e, NEW st \in Status, Settled(s), Users(s, g, e),
         g[s.CURRENT].at \in {"exit", "exec"}, Leaves(s, s.CURRENT, st, t)
  PROVE  Users(t, g, [e EXCEPT ![s.pid[s.CURRENT]] = st])
<1> DEFINE c == s.CURRENT
           w == s.PID_MAP[s.wait[c]]
           f == [e EXCEPT ![s.pid[c]] = st]
<1>1. c \in LiveOf(s) /\ c \in Slot /\ LiveOf(s) \subseteq Slot /\ c \notin s.blocked /\ s.pid[c] \in Pid
  BY SettledCurrent, SettledPids DEF Users, Kernels
<1>2. ~HasChild(s, g, c) /\ InFront(s, g, c)
  BY <1>1, Alone
<1>3. /\ LiveOf(t) = LiveOf(s) \ {c} /\ t.pid = s.pid /\ t.PID = s.PID /\ t.PID_MAP = s.PID_MAP
      /\ t.wait = s.wait /\ t.cononical = s.cononical /\ t.reader = s.reader
      /\ t.pgid = s.pgid /\ t.grp = s.grp /\ t.status = [s.status EXCEPT ![c] = st]
      /\ t.CURRENT \notin s.blocked
  BY DEF Leaves
<1>4. CASE s.wait[c] # 0
  <2>1. /\ w \in LiveOf(s) \cap s.blocked /\ s.pid[w] = s.wait[c]
        /\ g[w].at = "retake" /\ g[w].child = s.pid[c]
    BY <1>1, <1>4 DEF Users, Family, Parents
  <2>2. /\ t.free = s.free \cup {c} /\ t.zombie = s.zombie /\ t.blocked = s.blocked \ {w}
        /\ t.stat = [s.stat EXCEPT ![w] = st] /\ t.rax = [s.rax EXCEPT ![w] = s.pid[c]]
    BY <1>4 DEF Leaves
  <2> HIDE DEF w
  <2>3. HasChild(s, g, w) /\ Kid(s, g, w) = s.pid[c] /\ ~HasChild(t, g, w) /\ w # c
    BY <1>1, <2>1, <2>2 DEF HasChild, Kid
  <2>4. \A p \in LiveOf(s) \ {w} : /\ t.rax[p] = s.rax[p] /\ t.stat[p] = s.stat[p]
                                   /\ p \in t.blocked <=> p \in s.blocked
    BY <1>1, <2>2, SettledPids
  <2>5. /\ t.rax[w] = s.pid[c] /\ t.stat[w] = st /\ w \notin t.blocked
    BY <1>1, <2>1, <2>2, SettledPids
  <2>6. \A p \in LiveOf(s) \ {w} : /\ HasChild(t, g, p) <=> HasChild(s, g, p)
                                   /\ Kid(t, g, p) = Kid(s, g, p)
    BY <2>4 DEF HasChild, Kid
  <2>7. \A p \in LiveOf(s) \ {w} : HasChild(s, g, p) => s.PID_MAP[Kid(s, g, p)] # c
    <3>1. SUFFICES ASSUME NEW p \in LiveOf(s) \ {w}, HasChild(s, g, p), s.PID_MAP[Kid(s, g, p)] = c
                   PROVE  FALSE
      OBVIOUS
    <3>2. s.pid[c] = Kid(s, g, p)
      BY <3>1 DEF Users, Family, Children
    <3> QED BY <2>1, <2>3, <3>1, <3>2 DEF Users, Family, OneParent
  <2>8. \A p \in LiveOf(t) \ {w} : ~InFront(t, g, p)
    <3>1. ASSUME NEW p \in LiveOf(t) \ {w}, s.pid[p] # 1 PROVE Covered(t, g, p)
      <4>1. Covered(s, g, p)
        BY <1>1, <1>2, <1>3, <3>1 DEF Users, Family, OneInFront, InFront
      <4> QED BY <1>3, <2>4, <2>6, <2>7, <3>1, <4>1 DEF Covered
    <3> QED BY <1>3, <3>1 DEF InFront
  <2>9. OneInFront(t, g)
    BY <2>8 DEF OneInFront
  <2>10. Children(t, g)
    BY <1>3, <2>2, <2>3, <2>4, <2>6, <2>7 DEF Users, Family, Children
  <2>11. OneParent(t, g)
    BY <1>3, <2>3, <2>6 DEF Users, Family, OneParent
  <2>12. Parents(t, g)
    <3>1. ASSUME NEW x \in LiveOf(t), s.wait[x] # 0 PROVE s.PID_MAP[s.wait[x]] \notin {c, w}
      <4>1. s.PID_MAP[s.wait[x]] # c
        BY <1>1, <1>3, <3>1 DEF Users, Family, Parents
      <4>2. s.PID_MAP[s.wait[x]] = w => g[w].child = s.pid[x]
        BY <1>3, <3>1 DEF Users, Family, Parents
      <4>3. g[w].child # s.pid[x]
        BY <1>1, <1>3, <2>1, SettledPids
      <4> QED BY <4>1, <4>2, <4>3
    <3> QED BY <1>3, <2>2, <3>1 DEF Users, Family, Parents
  <2>13. Sleepers(t, g) /\ Reader(t, g)
    BY <1>1, <1>3, <2>1, <2>2 DEF Users, Asleep, Sleepers, Reader
  <2>14. Answered(t, g, f)
    <3>1. ASSUME NEW p \in LiveOf(t) \ t.blocked, g[p].at = "retake"
          PROVE  /\ t.rax[p] = g[p].child /\ t.stat[p] = f[g[p].child] /\ g[p].child < t.PID
                 /\ \A q \in LiveOf(t) : t.pid[q] # g[p].child
      <4>1. CASE p = w
        <5>1. f[s.pid[c]] = st /\ s.pid[c] < s.PID
          BY <1>1, SettledPids DEF Users, Shapes
        <5>2. \A q \in LiveOf(t) : s.pid[q] # s.pid[c]
          BY <1>1, <1>3, SettledPids
        <5> QED BY <1>3, <2>1, <2>5, <4>1, <5>1, <5>2
      <4>2. CASE p # w
        <5>1. p \in LiveOf(s) \ s.blocked
          BY <1>3, <2>4, <3>1, <4>2
        <5>2. /\ s.rax[p] = g[p].child /\ s.stat[p] = e[g[p].child] /\ g[p].child < s.PID
              /\ \A q \in LiveOf(s) : s.pid[q] # g[p].child
          BY <3>1, <5>1 DEF Users, Answered
        <5>3. f[g[p].child] = e[g[p].child]
          <6>1. s.pid[c] # g[p].child
            BY <1>1, <5>2
          <6>2. g[p].child \in Pid /\ e \in [Pid -> Status]
            BY <1>1, <5>1 DEF Users, Shapes
          <6> QED BY <6>1, <6>2
        <5> QED BY <1>3, <2>4, <4>2, <5>1, <5>2, <5>3
      <4> QED BY <4>1, <4>2
    <3> QED BY <3>1 DEF Answered
  <2>15. Zombies(t, f)
    BY <1>3, <2>2, EndedZombies DEF Zombies
  <2>16. Kernels(t)
    BY <1>1, <1>3, <2>2, SettledPids DEF Users, Kernels
  <2>17. Systemd(t, g)
    BY <1>3, <2>1, <2>4 DEF Users, Systemd
  <2>18. Foreground(t, g)
    BY <1>3 DEF Users, Foreground
  <2>19. Shapes(g, f)
    BY <1>1 DEF Users, Shapes
  <2> HIDE DEF f
  <2> QED BY <2>9, <2>10, <2>11, <2>12, <2>13, <2>14, <2>15, <2>16, <2>17, <2>18, <2>19
          DEF Users, Family, Asleep, f
<1>5. CASE s.wait[c] = 0
  <2>1. /\ t.free = s.free /\ t.zombie = s.zombie \cup {c}
        /\ t.blocked = s.blocked /\ t.stat = s.stat /\ t.rax = s.rax
    BY <1>5 DEF Leaves
  <2>2. \A p \in LiveOf(s) : /\ HasChild(t, g, p) <=> HasChild(s, g, p)
                             /\ Kid(t, g, p) = Kid(s, g, p)
    BY <2>1 DEF HasChild, Kid
  <2>3. ASSUME NEW p \in LiveOf(t), InFront(t, g, p)
        PROVE  HasChild(s, g, p) /\ Kid(s, g, p) = s.pid[c] /\ p \in LiveOf(s)
    <3>1. p \in LiveOf(s) /\ p # c /\ s.pid[p] # 1 /\ ~Covered(t, g, p)
      BY <1>3, <2>3 DEF InFront
    <3>2. Covered(s, g, p)
      BY <1>1, <1>2, <3>1 DEF Users, Family, OneInFront, InFront
    <3>3. HasChild(s, g, p) /\ s.PID_MAP[Kid(s, g, p)] = c
      BY <1>3, <2>1, <2>2, <3>1, <3>2 DEF Covered
    <3> QED BY <3>1, <3>3 DEF Users, Family, Children
  <2>4. OneInFront(t, g)
    BY <2>3 DEF Users, Family, OneInFront, OneParent
  <2>5. Children(t, g)
    <3>1. ASSUME NEW p \in LiveOf(t), HasChild(t, g, p)
          PROVE  LET x == t.PID_MAP[Kid(t, g, p)]
                 IN  /\ x \in LiveOf(t) \cup t.zombie /\ t.pid[x] = Kid(t, g, p)
                     /\ p \in t.blocked /\ t.pid[p] # 0 => x \in LiveOf(t) /\ t.wait[x] = t.pid[p]
      <4> DEFINE x == s.PID_MAP[Kid(s, g, p)]
      <4>1. p \in LiveOf(s) /\ HasChild(s, g, p) /\ Kid(t, g, p) = Kid(s, g, p)
        BY <1>3, <2>2, <3>1
      <4>2. /\ x \in LiveOf(s) \cup s.zombie /\ s.pid[x] = Kid(s, g, p)
            /\ p \in s.blocked /\ s.pid[p] # 0 => x \in LiveOf(s) /\ s.wait[x] = s.pid[p]
        BY <4>1 DEF Users, Family, Children
      <4>3. p \in s.blocked /\ s.pid[p] # 0 => x # c
        BY <1>5, <4>2
      <4> QED BY <1>3, <2>1, <4>1, <4>2, <4>3
    <3> QED BY <3>1 DEF Children
  <2>6. OneParent(t, g)
    BY <1>3, <2>2 DEF Users, Family, OneParent
  <2>7. Parents(t, g)
    BY <1>1, <1>3, <2>1 DEF Users, Family, Parents
  <2>8. Sleepers(t, g) /\ Reader(t, g)
    BY <1>1, <1>3, <2>1 DEF Users, Asleep, Sleepers, Reader
  <2>9. Answered(t, g, f)
    <3>1. ASSUME NEW p \in LiveOf(t) \ t.blocked, g[p].at = "retake"
          PROVE  /\ t.rax[p] = g[p].child /\ t.stat[p] = f[g[p].child] /\ g[p].child < t.PID
                 /\ \A q \in LiveOf(t) : t.pid[q] # g[p].child
      <4>1. /\ s.rax[p] = g[p].child /\ s.stat[p] = e[g[p].child] /\ g[p].child < s.PID
            /\ \A q \in LiveOf(s) : s.pid[q] # g[p].child
        BY <1>3, <2>1, <3>1 DEF Users, Answered
      <4>2. f[g[p].child] = e[g[p].child]
        <5>1. s.pid[c] # g[p].child
          BY <1>1, <4>1
        <5>2. g[p].child \in Pid /\ e \in [Pid -> Status]
          BY <1>1, <1>3, <3>1 DEF Users, Shapes
        <5> QED BY <5>1, <5>2
      <4> QED BY <1>3, <2>1, <4>1, <4>2
    <3> QED BY <3>1 DEF Answered
  <2>10. Zombies(t, f)
    <3>1. f[s.pid[c]] = st /\ t.status[c] = st
      BY <1>1, <1>3 DEF Users, Shapes, Settled, Core, Kernel
    <3>2. s.PID_MAP[s.pid[c]] = c /\ s.pid[c] < s.PID
      BY <1>1, SettledPids
    <3> QED BY <1>3, <2>1, <3>1, <3>2, EndedZombies DEF Zombies
  <2>11. Kernels(t)
    BY <1>1, <1>3, <2>1, SettledPids DEF Users, Kernels
  <2>12. Systemd(t, g) /\ Foreground(t, g)
    BY <1>3, <2>1 DEF Users, Systemd, Foreground
  <2>13. Shapes(g, f)
    BY <1>1 DEF Users, Shapes
  <2> HIDE DEF f
  <2> QED BY <2>4, <2>5, <2>6, <2>7, <2>8, <2>9, <2>10, <2>11, <2>12, <2>13
          DEF Users, Family, Asleep, f
<1> QED BY <1>4, <1>5

\* fork after the boot: the child is in front of the parent.
LEMMA ForkStep ==
  ASSUME NEW s, NEW t, NEW g, NEW h, NEW e, NEW x \in s.free, Settled(s), Users(s, g, e),
         Shapes(h, e), g[s.CURRENT].at = "fork", Forked(s, x, t),
         h[s.CURRENT].at = "branch", h[s.CURRENT].name = g[s.CURRENT].name, h[x] = h[s.CURRENT],
         \A p \in LiveOf(s) \ {s.CURRENT} : h[p] = g[p]
  PROVE  Users(t, h, e)
<1> DEFINE c == s.CURRENT
<1>1. /\ c \in LiveOf(s) /\ c \in Slot /\ LiveOf(s) \subseteq Slot /\ c \notin s.blocked
      /\ x \in Slot /\ x \notin LiveOf(s) /\ x \notin s.zombie /\ c # x
  BY SettledCurrent, SettledPids DEF Users, Kernels, Settled, Core, Kernel
<1>2. /\ h[c].at = "branch" /\ h[c].name = g[c].name /\ h[x].at = "branch"
      /\ h[x].name = g[c].name /\ \A p \in LiveOf(s) \ {c} : h[p] = g[p]
  OBVIOUS
<1>3. InFront(s, g, c) /\ g[c].name # "systemd" /\ s.pid[c] # 1 /\ ~HasChild(s, g, c)
  BY <1>1, Alone
<1>4. /\ LiveOf(t) = LiveOf(s) \cup {x} /\ t.blocked = s.blocked \ {x}
      /\ t.PID = s.PID + 1 /\ t.CURRENT = x
      /\ t.free = s.free \ {x} /\ t.zombie = s.zombie \ {x} /\ t.grp = s.grp
      /\ t.cononical = s.cononical /\ t.reader = s.reader
      /\ t.PID_MAP = [s.PID_MAP EXCEPT ![s.PID] = x]
      /\ t.pid = [s.pid EXCEPT ![x] = s.PID]
      /\ t.wait = [s.wait EXCEPT ![x] = 0]
      /\ t.pgid = [s.pgid EXCEPT ![x] = s.pgid[c]]
      /\ t.rax = [s.rax EXCEPT ![x] = 0, ![c] = s.PID]
      /\ t.status = [s.status EXCEPT ![x] = s.status[c]]
      /\ t.stat = [s.stat EXCEPT ![x] = s.stat[c]]
  BY DEF Forked
<1>5. /\ s \in Kernel /\ t \in Kernel /\ s.zombie \subseteq Slot
  BY DEF Settled, Core, Forked, Kernel
<1>6. /\ t.pid[x] = s.PID /\ t.wait[x] = 0 /\ t.rax[x] = 0 /\ t.rax[c] = s.PID
      /\ \A p \in LiveOf(s) \cup s.zombie : t.pid[p] = s.pid[p] /\ t.status[p] = s.status[p]
      /\ \A p \in LiveOf(s) : t.wait[p] = s.wait[p] /\ t.stat[p] = s.stat[p] /\ t.pgid[p] = s.pgid[p]
      /\ \A p \in LiveOf(s) \ {c} : t.rax[p] = s.rax[p]
  BY <1>1, <1>4, <1>5 DEF Kernel
<1>7. /\ s.PID \in Pid /\ s.PID \in Int /\ s.PID >= 2 /\ t.PID_MAP[s.PID] = x
      /\ \A i \in Pid : i \in Int
      /\ \A i \in Pid : i # s.PID => t.PID_MAP[i] = s.PID_MAP[i]
  <2>1. s.PID \in Int /\ s.PID >= 2 /\ \A i \in Pid : i \in Int
    BY SettledPids
  <2>2. t.PID \in 0..MaxPid + 1
    BY <1>5 DEF Kernel
  <2>3. s.PID \in Pid
    BY <1>4, <2>1, <2>2, MaxPidAssumption DEF Pid
  <2> QED BY <1>4, <1>5, <2>1, <2>3 DEF Kernel
<1>8. \A p \in LiveOf(s) \ {c} : /\ HasChild(t, h, p) <=> HasChild(s, g, p)
                                 /\ Kid(t, h, p) = Kid(s, g, p)
  BY <1>1, <1>2, <1>4, <1>6 DEF HasChild, Kid
<1>9. /\ HasChild(t, h, c) /\ Kid(t, h, c) = s.PID /\ Covered(t, h, c)
      /\ ~HasChild(t, h, x)
  <2>1. HasChild(t, h, c) /\ Kid(t, h, c) = s.PID /\ ~HasChild(t, h, x)
    BY <1>2, <1>3, <1>6, <1>7 DEF HasChild, Kid
  <2> QED BY <1>4, <1>7, <2>1 DEF Covered
<1>10. ASSUME NEW p \in LiveOf(s) \ {c}, HasChild(s, g, p)
       PROVE  /\ Kid(s, g, p) # s.PID /\ t.PID_MAP[Kid(s, g, p)] = s.PID_MAP[Kid(s, g, p)]
              /\ s.PID_MAP[Kid(s, g, p)] \in LiveOf(s) \cup s.zombie
              /\ s.PID_MAP[Kid(s, g, p)] # x
  <2> DEFINE y == s.PID_MAP[Kid(s, g, p)]
  <2>1. y \in LiveOf(s) \cup s.zombie /\ s.pid[y] = Kid(s, g, p)
    BY <1>10 DEF Users, Family, Children
  <2>2. s.pid[y] < s.PID /\ s.pid[y] \in Pid
    <3>1. s.pid[y] < s.PID
      BY <2>1, SettledPids DEF Users, Zombies
    <3> QED BY <1>1, <1>5, <2>1, <3>1 DEF Kernel
  <2>3. Kid(s, g, p) # s.PID
    BY <1>7, <2>1, <2>2
  <2> QED BY <1>1, <1>7, <2>1, <2>2, <2>3
<1>11. OneInFront(t, h)
  <2>1. ASSUME NEW p \in LiveOf(s) \ {c}, s.pid[p] # 1 PROVE Covered(t, h, p)
    <3>1. Covered(s, g, p)
      BY <1>1, <1>3, <2>1 DEF Users, Family, OneInFront, InFront
    <3>2. HasChild(s, g, p) /\ p # x /\ t.pid[p] = s.pid[p]
      BY <1>1, <1>6, <3>1 DEF Covered
    <3> QED BY <1>4, <1>8, <1>10, <3>1, <3>2 DEF Covered
  <2>2. \A p \in LiveOf(t) : InFront(t, h, p) => p = x
    BY <1>1, <1>4, <1>6, <1>9, <2>1 DEF InFront
  <2> QED BY <2>2 DEF OneInFront
<1>12. Children(t, h)
  <2>1. ASSUME NEW p \in LiveOf(t), HasChild(t, h, p)
        PROVE  LET y == t.PID_MAP[Kid(t, h, p)]
               IN  /\ y \in LiveOf(t) \cup t.zombie /\ t.pid[y] = Kid(t, h, p)
                   /\ p \in t.blocked /\ t.pid[p] # 0 => y \in LiveOf(t) /\ t.wait[y] = t.pid[p]
    <3>1. CASE p = c
      BY <1>1, <1>4, <1>6, <1>7, <1>9, <3>1
    <3>2. CASE p # c
      <4> DEFINE y == s.PID_MAP[Kid(s, g, p)]
      <4>1. p \in LiveOf(s) \ {c} /\ HasChild(s, g, p) /\ Kid(t, h, p) = Kid(s, g, p)
        BY <1>4, <1>8, <1>9, <2>1, <3>2
      <4>2. /\ y \in LiveOf(s) \cup s.zombie /\ s.pid[y] = Kid(s, g, p)
            /\ p \in s.blocked /\ s.pid[p] # 0 => y \in LiveOf(s) /\ s.wait[y] = s.pid[p]
        BY <4>1 DEF Users, Family, Children
      <4>3. t.PID_MAP[Kid(t, h, p)] = y /\ y # x
        BY <1>10, <4>1
      <4> QED BY <1>4, <1>6, <4>1, <4>2, <4>3
    <3> QED BY <3>1, <3>2
  <2> QED BY <2>1 DEF Children
<1>13. OneParent(t, h)
  BY <1>4, <1>8, <1>9, <1>10 DEF Users, Family, OneParent
<1>14. Parents(t, h)
  <2>1. ASSUME NEW y \in LiveOf(t), t.wait[y] # 0
        PROVE  LET w == t.PID_MAP[t.wait[y]]
               IN  /\ w \in LiveOf(t) \cap t.blocked /\ t.pid[w] = t.wait[y]
                   /\ h[w].at = "retake" /\ h[w].child = t.pid[y]
    <3> DEFINE w == s.PID_MAP[s.wait[y]]
    <3>1. y \in LiveOf(s) /\ s.wait[y] # 0
      BY <1>4, <1>6, <2>1
    <3>2. /\ w \in LiveOf(s) \cap s.blocked /\ s.pid[w] = s.wait[y]
          /\ g[w].at = "retake" /\ g[w].child = s.pid[y]
      BY <3>1 DEF Users, Family, Parents
    <3>3. s.pid[w] < s.PID /\ s.pid[w] \in Pid
      BY <3>2, SettledPids
    <3>4. t.PID_MAP[t.wait[y]] = w
      BY <1>6, <1>7, <3>1, <3>2, <3>3
    <3> QED BY <1>1, <1>2, <1>4, <1>6, <3>1, <3>2, <3>4
  <2> QED BY <2>1 DEF Parents
<1>15. Sleepers(t, h) /\ Reader(t, h)
  BY <1>1, <1>2, <1>4 DEF Users, Asleep, Sleepers, Reader
<1>16. Answered(t, h, e)
  <2>1. ASSUME NEW p \in LiveOf(t) \ t.blocked, h[p].at = "retake"
        PROVE  /\ t.rax[p] = h[p].child /\ t.stat[p] = e[h[p].child] /\ h[p].child < t.PID
               /\ \A q \in LiveOf(t) : t.pid[q] # h[p].child
    <3>1. p \in LiveOf(s) \ {c} /\ p \notin s.blocked /\ h[p] = g[p]
      BY <1>1, <1>2, <1>4, <2>1
    <3>2. /\ s.rax[p] = g[p].child /\ s.stat[p] = e[g[p].child] /\ g[p].child < s.PID
          /\ \A q \in LiveOf(s) : s.pid[q] # g[p].child
      BY <2>1, <3>1 DEF Users, Answered
    <3>3. g[p].child \in Int
      BY <1>1, <1>7, <3>1 DEF Users, Shapes
    <3>4. g[p].child < t.PID /\ s.PID # g[p].child
      BY <1>4, <1>7, <3>2, <3>3
    <3> QED BY <1>4, <1>6, <3>1, <3>2, <3>4
  <2> QED BY <2>1 DEF Answered
<1>17. Zombies(t, e)
  <2>1. ASSUME NEW z \in t.zombie
        PROVE  t.PID_MAP[t.pid[z]] = z /\ t.pid[z] < t.PID /\ t.status[z] = e[t.pid[z]]
    <3>1. z \in s.zombie /\ t.pid[z] = s.pid[z] /\ t.status[z] = s.status[z] /\ s.pid[z] \in Pid
      BY <1>4, <1>5, <1>6 DEF Kernel
    <3>2. s.PID_MAP[s.pid[z]] = z /\ s.pid[z] < s.PID /\ s.status[z] = e[s.pid[z]]
      BY <3>1 DEF Users, Zombies
    <3>3. s.pid[z] # s.PID /\ s.pid[z] < t.PID
      BY <1>4, <1>7, <3>1, <3>2
    <3> QED BY <1>7, <3>1, <3>2, <3>3
  <2> QED BY <2>1 DEF Zombies
<1>18. Kernels(t)
  BY <1>4 DEF Users, Kernels
<1>19. Systemd(t, h)
  BY <1>2, <1>3, <1>4, <1>6, <1>7 DEF Users, Systemd
<1>20. Foreground(t, h)
  BY <1>2, <1>4, <1>6 DEF Users, Foreground
<1> QED BY <1>11, <1>12, <1>13, <1>14, <1>15, <1>16, <1>17, <1>18, <1>19, <1>20
        DEF Users, Family, Asleep

-----------------------------------------------------------------------------
(* The boot: systemd alone, until it forks *)

\* Two processes of systemd, neither of which has a child it waits for.
LEMMA BootFork ==
  ASSUME NEW a \in Slot, NEW c \in Slot, a # c, NEW s, Launched(a, s), NEW h, NEW e, Shapes(h, e),
         h[a].name = "systemd", h[a].at = "branch", h[c] = h[a]
  PROVE  LET t == ProcessFork(s, c) IN CheckSignal(t) = t /\ Settled(t) /\ Users(t, h, e)
<1> DEFINE t == ProcessFork(s, c)
<1>1. /\ Settled(t) /\ Forked(s, c, t) /\ LiveOf(t) = {a, c} /\ t.blocked = {}
      /\ t.zombie = {} /\ t.pid[a] = 0 /\ t.pid[c] = 1
      /\ t.wait = [p \in Slot |-> 0] /\ ~t.cononical /\ t.rax[c] = 0
  BY LaunchedForks
<1>2. CheckSignal(t) = t
  BY <1>1, CheckQuiet
<1> HIDE DEF t
<1>3. \A p \in LiveOf(t) : ~HasChild(t, h, p) /\ h[p].at = "branch" /\ t.wait[p] = 0
  BY <1>1 DEF HasChild
<1>4. Kernels(t) /\ Zombies(t, e)
  BY <1>1 DEF Kernels, Zombies
<1>5. Systemd(t, h)
  BY <1>1, <1>3 DEF Systemd
<1>6. OneInFront(t, h)
  BY <1>1 DEF OneInFront, InFront
<1>7. Children(t, h) /\ OneParent(t, h) /\ Parents(t, h)
  BY <1>3 DEF Children, OneParent, Parents
<1>8. Sleepers(t, h) /\ Reader(t, h)
  BY <1>1 DEF Sleepers, Reader
<1>9. Answered(t, h, e) /\ Foreground(t, h)
  BY <1>3 DEF Answered, Foreground
<1>10. Users(t, h, e)
  BY <1>4, <1>5, <1>6, <1>7, <1>8, <1>9 DEF Users, Family, Asleep
<1> QED BY <1>1, <1>2, <1>10 DEF t

\* The timer finds nobody else to run.
LEMMA BootTick ==
  ASSUME NEW a \in Slot, NEW s, Launched(a, s)
  PROVE  CheckSignal(Switch(s)) = s
<1>1. s \in Kernel /\ s.CURRENT = a /\ s.signal[a] = "SIGNONE"
  BY DEF Launched
<1>2. Switch(s) = [s EXCEPT !.CURRENT = a]
  BY LoneSwitch DEF Launched
<1>3. Switch(s) = s
  BY <1>1, <1>2 DEF Kernel
<1> QED BY <1>1, <1>3 DEF CheckSignal

\* The pool hands out one of the free slots.
LEMMA PoolSlotFree ==
  ASSUME NEW free, free # {}
  PROVE  PoolSlot(free) \in free
BY DEF PoolSlot

LEMMA BootStep ==
  ASSUME Booting(k, prog, ended), [UNext]_uvars
  PROVE  UserlandInv'
<1> DEFINE a == PoolSlot(Slot)
<1>1. a \in Slot
  BY PoolSlotFree, PoolAssumption
<1>2. /\ Launched(a, k) /\ ended = [i \in Pid |-> "none"]
      /\ prog = [p \in Slot |-> [name |-> "systemd", at |-> "fork", child |-> 0]]
  BY DEF Booting
<1> HIDE DEF a
<1>3. k.CURRENT = a /\ prog[a].at = "fork" /\ ~k.cononical /\ k.free = Slot \ {a}
  BY <1>1, <1>2 DEF Launched
<1>4. CASE UNCHANGED uvars
  BY <1>4 DEF uvars, vars, UserlandInv, Booting
<1>5. CASE Timer
  <2>1. k' = k /\ prog' = prog /\ ended' = ended
    BY <1>1, <1>2, <1>5, BootTick DEF Timer, Tick
  <2> QED BY <2>1 DEF UserlandInv
<1>6. CASE Enter
  BY <1>3, <1>6 DEF Enter, KeyNewline
<1>7. CASE Fork
  <2> DEFINE c == PoolSlot(k.free)
             b == [prog[k.CURRENT] EXCEPT !.at = "branch"]
  <2>1. k' = CheckSignal(ProcessFork(k, c)) /\ ended' = ended
        /\ prog' = [prog EXCEPT ![k.CURRENT] = b, ![c] = b] /\ c \in k.free
    BY <1>7, PoolSlotFree DEF Fork, CURRENT
  <2>2. b = [name |-> "systemd", at |-> "branch", child |-> 0]
    BY <1>1, <1>2, <1>3
  <2> HIDE DEF c, b
  <2>3. c \in Slot /\ c # a
    BY <1>3, <2>1
  <2>4. prog' = [[p \in Slot |-> [name |-> "systemd", at |-> "fork", child |-> 0]] EXCEPT ![a] = b, ![c] = b]
    BY <1>2, <1>3, <2>1
  <2>5. prog'[a] = b /\ prog'[c] = b
    BY <1>1, <2>3, <2>4
  <2>6. b \in [name : Programs, at : Places, child : Pid]
        /\ [name |-> "systemd", at |-> "fork", child |-> 0] \in [name : Programs, at : Places, child : Pid]
        /\ "none" \in Status
    BY <2>2, MaxPidAssumption DEF Programs, Places, Pid, Status
  <2>7. Shapes(prog', ended')
    <3>1. prog' \in [Slot -> [name : Programs, at : Places, child : Pid]]
      BY <2>4, <2>6
    <3> QED BY <1>2, <2>1, <2>6, <3>1 DEF Shapes
  <2>8. prog'[a].name = "systemd" /\ prog'[a].at = "branch"
    BY <2>2, <2>5
  <2>9. k' = ProcessFork(k, c) /\ Settled(k') /\ Users(k', prog', ended')
    BY <1>1, <1>2, <2>1, <2>3, <2>5, <2>7, <2>8, BootFork
  <2> QED BY <2>9 DEF UserlandInv
<1>8. CASE Step /\ ~Fork
  BY <1>3, <1>8 DEF Step, At, CURRENT, Branch, Setpgid, TakeTerminal, Exec, ExecMissing, Prompt, Read, Eval, Wait, Retake, Work, Exit
<1> QED BY <1>4, <1>5, <1>6, <1>7, <1>8 DEF UNext

-----------------------------------------------------------------------------
(* The calls, after the boot *)

\* setpgid and tcsetpgrp in the kernel.
LEMMA PgidSet ==
  ASSUME NEW s, Settled(s), NEW c \in Slot, NEW i \in Pid
  PROVE  LET t == [s EXCEPT !.pgid[c] = i] IN
         /\ CheckSignal(t) = t /\ Settled(t) /\ SameFamily(s, t) /\ t.CURRENT = s.CURRENT
         /\ t.grp = s.grp /\ t.pgid = [s.pgid EXCEPT ![c] = i]
<1> DEFINE t == [s EXCEPT !.pgid[c] = i]
<1>1. s \in Kernel /\ IdleSlot(s) \notin s.blocked /\ Waiters(s)
  BY SettledCurrent
<1>2. SameRing(s, t) /\ t.signal = s.signal /\ IdleSlot(s) \notin t.blocked
  BY <1>1 DEF Kernel, SameRing
<1>3. Waiters(t)
  BY <1>1 DEF Kernel, Waiters
<1>4. Settled(t)
  BY <1>2, <1>3, SettledFrame
<1>5. SameFamily(s, t) /\ t.CURRENT = s.CURRENT /\ t.grp = s.grp /\ t.pgid = [s.pgid EXCEPT ![c] = i]
  BY <1>1 DEF Kernel, SameFamily, LiveOf
<1> QED BY <1>4, <1>5, CheckQuiet

LEMMA GrpSet ==
  ASSUME NEW s, Settled(s), NEW i \in Pid
  PROVE  LET t == [s EXCEPT !.grp = i] IN
         /\ CheckSignal(t) = t /\ Settled(t) /\ SameFamily(s, t) /\ t.CURRENT = s.CURRENT
         /\ t.grp = i /\ t.pgid = s.pgid
<1> DEFINE t == [s EXCEPT !.grp = i]
<1>1. s \in Kernel /\ IdleSlot(s) \notin s.blocked /\ Waiters(s)
  BY SettledCurrent
<1>2. SameRing(s, t) /\ t.signal = s.signal /\ IdleSlot(s) \notin t.blocked
  BY <1>1 DEF Kernel, SameRing
<1>3. Waiters(t)
  BY <1>1 DEF Kernel, Waiters
<1>4. Settled(t)
  BY <1>2, <1>3, SettledFrame
<1>5. SameFamily(s, t) /\ t.CURRENT = s.CURRENT /\ t.grp = i /\ t.pgid = s.pgid
  BY <1>1 DEF Kernel, SameFamily, LiveOf
<1> QED BY <1>4, <1>5, CheckQuiet

\* The state after the boot, and what holds of the process on the CPU in it.
Up == Settled(k) /\ Users(k, prog, ended)

LEMMA UpFacts ==
  ASSUME Up
  PROVE  /\ k \in Kernel /\ CURRENT = k.CURRENT
         /\ CURRENT \in LiveOf(k) \ k.blocked /\ CURRENT \in Slot /\ LiveOf(k) \subseteq Slot
         /\ prog \in [Slot -> [name : Programs, at : Places, child : Pid]]
         /\ ended \in [Pid -> Status] /\ k.pid[CURRENT] \in Pid /\ k.pgid[CURRENT] \in Pid
BY SettledCurrent, SettledPids DEF Up, Users, Kernels, Shapes, CURRENT, Kernel

\* A step of a process without a child to another place where it has none.
LEMMA GoneStep ==
  ASSUME Up, NEW t, NEW to \in Places \ {"branch", "wait", "retake", "idle"},
         prog[CURRENT].at \notin {"branch", "wait", "idle"},
         prog[CURRENT].name = "systemd" => to \in {"setpgid", "tcsetpgrp", "exec"},
         SameFamily(k, t), t.CURRENT = CURRENT,
         Foreground(t, [prog EXCEPT ![CURRENT].at = to])
  PROVE  Users(t, [prog EXCEPT ![CURRENT].at = to], ended)
<1> DEFINE c == CURRENT
           h == [prog EXCEPT ![c].at = to]
<1>1. /\ c \in LiveOf(k) \ k.blocked /\ c \in Slot /\ LiveOf(k) \subseteq Slot
      /\ Users(k, prog, ended) /\ Settled(k)
  BY UpFacts DEF Up
<1>2. Gone(prog, c, to, h) /\ Shapes(h, ended)
  BY <1>1, GotoGone DEF Users
<1>8. Foreground(t, h)
  OBVIOUS
<1> HIDE DEF h
<1>3. ~HasChild(k, prog, c) /\ k.pid[c] # 1
  BY <1>1, Alone
<1>4. ~HasChild(t, h, c) /\ h[c].at # "retake" /\ \A p \in LiveOf(k) \ {c} : h[p] = prog[p]
  BY <1>1, <1>2 DEF HasChild, Gone
<1>5. Systemd(t, h)
  BY <1>1, <1>2, <1>3, <1>4 DEF Users, Systemd, SameFamily, Gone
<1>6. t.CURRENT \notin t.blocked
  BY <1>1 DEF SameFamily
<1>7. Users(t, h, ended)
  BY <1>1, <1>2, <1>3, <1>4, <1>5, <1>6, <1>8, PlaceStep
<1> QED BY <1>7 DEF h

LEMMA SameFamilySelf == ASSUME NEW s PROVE SameFamily(s, s)
BY DEF SameFamily

\* A process that touches the terminal is in its foreground, and stays there.
LEMMA TouchStep ==
  ASSUME Up, NEW to \in Places \ {"branch", "wait", "retake", "idle"},
         prog[CURRENT].at \in {"exec", "prompt", "read", "eval", "work"},
         prog[CURRENT].name = "systemd" => to \in {"setpgid", "tcsetpgrp", "exec"}
  PROVE  Users(k, [prog EXCEPT ![CURRENT].at = to], ended)
<1> DEFINE h == [prog EXCEPT ![CURRENT].at = to]
<1>1. CURRENT \in LiveOf(k) \ k.blocked /\ CURRENT \in Slot /\ LiveOf(k) \subseteq Slot
      /\ CURRENT = k.CURRENT
  BY UpFacts
<1>2. Foreground(k, h)
  <2>1. Gone(prog, CURRENT, to, h)
    BY <1>1, GotoGone DEF Up, Users
  <2> HIDE DEF h
  <2>2. k.pgid[CURRENT] = k.grp
    BY <1>1 DEF Up, Users, Foreground
  <2> QED BY <1>1, <2>1, <2>2 DEF Up, Users, Foreground, Gone
<1> QED BY <1>1, <1>2, GoneStep, SameFamilySelf

\* tcsetpgrp(0, 0) brings the caller, and nobody else, to the foreground: whoever else
\* is at a place where it touches the terminal would be in front as well.
LEMMA TakeStep ==
  ASSUME Up, NEW to \in {"exec", "prompt"}, Goto(to), Call(Tcsetpgrp(k, 0)),
         \/ prog[CURRENT].at = "tcsetpgrp" /\ to = "exec"
         \/ prog[CURRENT].at = "retake"
  PROVE  Up'
<1> DEFINE c == CURRENT
           t == [k EXCEPT !.grp = k.pgid[c]]
           h == [prog EXCEPT ![c].at = to]
<1>1. /\ c \in LiveOf(k) \ k.blocked /\ c \in Slot /\ LiveOf(k) \subseteq Slot /\ c = k.CURRENT
      /\ k.pgid[c] \in Pid /\ Settled(k) /\ Users(k, prog, ended)
  BY UpFacts DEF Up
<1>2. /\ CheckSignal(t) = t /\ Settled(t) /\ SameFamily(k, t) /\ t.CURRENT = c
      /\ t.grp = k.pgid[c] /\ t.pgid = k.pgid
  BY <1>1, GrpSet
<1>3. k' = t /\ prog' = h /\ ended' = ended
  <2>1. Tcsetpgrp(k, 0) = t
    BY <1>1 DEF Tcsetpgrp
  <2> QED BY <1>2, <2>1 DEF Call, Goto
<1>4. Gone(prog, c, to, h) /\ to \in Places
  <2>1. to \in Places
    BY DEF Places
  <2> QED BY <1>1, <2>1, GotoGone DEF Users
<1> HIDE DEF t, h
<1>5. Foreground(t, h)
  <2>1. ASSUME NEW p \in LiveOf(k) \ {c}
        PROVE  prog[p].at \notin {"exec", "prompt", "read", "eval", "work"}
    <3>1. SUFFICES ASSUME prog[p].at \in {"exec", "prompt", "read", "eval", "work"} PROVE FALSE
      OBVIOUS
    <3>2. InFront(k, prog, p)
      BY <1>1, <3>1, Alone
    <3>3. InFront(k, prog, c)
      BY <1>1, Alone
    <3> QED BY <1>1, <3>2, <3>3 DEF Users, Family, OneInFront
  <2> QED BY <1>1, <1>2, <1>4, <2>1 DEF Foreground, Gone, SameFamily
<1>6. prog[c].name = "systemd" => to \in {"setpgid", "tcsetpgrp", "exec"}
  BY <1>1 DEF Users, Systemd
<1>7. Users(t, h, ended)
  BY <1>2, <1>4, <1>5, <1>6, GoneStep DEF h
<1> QED BY <1>2, <1>3, <1>7 DEF Up

LEMMA ForkUp ==
  ASSUME Up, Fork
  PROVE  Up'
<1> DEFINE c == k.CURRENT
           x == PoolSlot(k.free)
           b == [prog[c] EXCEPT !.at = "branch"]
           t == ProcessFork(k, x)
<1>1. /\ c \in LiveOf(k) \ k.blocked /\ c \in Slot /\ LiveOf(k) \subseteq Slot
      /\ prog \in [Slot -> [name : Programs, at : Places, child : Pid]]
      /\ Settled(k) /\ Users(k, prog, ended)
  BY UpFacts DEF Up, CURRENT
<1>2. /\ k' = CheckSignal(t) /\ prog' = [prog EXCEPT ![c] = b, ![x] = b] /\ ended' = ended
      /\ x \in k.free /\ k.PID <= MaxPid /\ prog[c].at = "fork"
  BY PoolSlotFree DEF Fork, At, CURRENT
<1> HIDE DEF x
<1>3. Settled(t) /\ Forked(k, x, t) /\ CheckSignal(t) = t
  BY <1>1, <1>2, ForkSettled, CheckQuiet
<1> HIDE DEF t
<1>4. x \in Slot /\ x # c /\ x \notin LiveOf(k)
  BY <1>1, <1>2, SettledPids
<1>5. /\ b.at = "branch" /\ b.name = prog[c].name
      /\ b \in [name : Programs, at : Places, child : Pid]
  BY <1>1 DEF Places
<1> HIDE DEF b
<1>6. /\ prog'[c] = b /\ prog'[x] = b /\ \A p \in LiveOf(k) \ {c} : prog'[p] = prog[p]
      /\ prog' \in [Slot -> [name : Programs, at : Places, child : Pid]]
  BY <1>1, <1>2, <1>4, <1>5
<1>7. Shapes(prog', ended)
  BY <1>1, <1>6 DEF Users, Shapes
<1>8. Users(t, prog', ended)
  BY <1>1, <1>2, <1>3, <1>5, <1>6, <1>7, ForkStep
<1> QED BY <1>2, <1>3, <1>8 DEF Up

\* The process on the CPU ends by a call or by a fault.
LEMMA EndsUp ==
  ASSUME Up, NEW st \in {"exit", "core"}, prog[CURRENT].at \in {"exit", "exec"},
         st = "exit" => k' = CheckSignal(ProcessExit(k, CURRENT, "exit")),
         st = "core" => k' = CheckSignal(Signal(k, CURRENT, "SIGSEGV")),
         ended' = [ended EXCEPT ![k.pid[CURRENT]] = st], prog' = prog
  PROVE  Up'
<1> DEFINE c == k.CURRENT
<1>1. /\ c \in LiveOf(k) /\ c \in Slot /\ k \in Kernel /\ c = CURRENT
      /\ Settled(k) /\ Users(k, prog, ended)
  BY UpFacts DEF Up, CURRENT
<1>2. c # IdleSlot(k)
  BY <1>1, Alone, SettledCurrent
<1>3. CASE st = "exit"
  <2>1. Settled(ProcessExit(k, c, "exit")) /\ Ended(k, c, "exit", ProcessExit(k, c, "exit"))
    BY <1>1, <1>2, ExitSettled DEF Status, Settled, Quiet, QuietOthers
  <2>2. k' = ProcessExit(k, c, "exit")
    BY <1>1, <1>3, <2>1, CheckQuiet
  <2>3. Leaves(k, c, st, k')
    BY <1>3, <2>1, <2>2, EndedLeaves
  <2> QED BY <1>1, <2>1, <2>2, <2>3, ExitStep DEF Up, Status
<1>4. CASE st = "core"
  <2> DEFINE u == [k EXCEPT !.signal[c] = "SIGSEGV"]
  <2>1. Signal(k, c, "SIGSEGV") = u
    BY DEF Signal, StopSignals
  <2>2. /\ "SIGSEGV" \in CoreSignals /\ "SIGSEGV" \in Signals /\ IdleSlot(k) \notin k.blocked
        /\ Waiters(k)
    BY <1>1, SettledCurrent DEF CoreSignals, Signals
  <2>3. SameRing(k, u) /\ u.signal = [k.signal EXCEPT ![c] = "SIGSEGV"]
    BY <1>1, <2>2 DEF Kernel, SameRing
  <2>4. /\ u.blocked = k.blocked /\ u.wait = k.wait /\ u.cononical = k.cononical
        /\ u.reader = k.reader /\ u.pgid = k.pgid /\ u.grp = k.grp /\ u.status = k.status
        /\ u.stat = k.stat /\ u.rax = k.rax
    BY <1>1 DEF Kernel
  <2> HIDE DEF u
  <2>5. Core(u)
    BY <1>1, <2>2, <2>3, <2>4, CoreFrame DEF Settled, Waiters, SameRing
  <2>6. QuietOthers(u)
    BY <1>1, <2>3 DEF Settled, Quiet, QuietOthers, SameRing, LiveOf, Kernel
  <2>7. u.CURRENT = c /\ u.CURRENT # IdleSlot(u) /\ u.signal[c] \in CoreSignals
    BY <1>1, <1>2, <2>2, <2>3 DEF SameRing, IdleSlot, Kernel
  <2>8. Settled(CheckSignal(u)) /\ Ended(u, c, "core", CheckSignal(u))
    BY <2>5, <2>6, <2>7, CheckSettles
  <2>9. k' = CheckSignal(u)
    BY <1>1, <1>4, <2>1
  <2>10. LiveOf(u) = LiveOf(k)
    BY <2>3 DEF SameRing, LiveOf
  <2>11. Leaves(u, c, "core", k')
    BY <2>8, <2>9, EndedLeaves
  <2>12. Leaves(k, c, st, k')
    BY <1>4, <2>3, <2>4, <2>10, <2>11 DEF Leaves, SameRing
  <2> QED BY <1>1, <2>8, <2>9, <2>12, ExitStep DEF Up, Status
<1> QED BY <1>3, <1>4

\* The branch after a fork: what was the answer of the fork is the child, or there is none.
LEMMA BranchUp ==
  ASSUME Up, Branch
  PROVE  Up'
<1> DEFINE c == k.CURRENT
           pid == k.rax[c]
           to == IF prog[c].name = "systemd" THEN IF pid # 0 THEN "setpgid" ELSE "idle"
                 ELSE IF pid = 0 THEN "setpgid" ELSE "wait"
           h == prog'
<1>1. /\ c \in LiveOf(k) \ k.blocked /\ c \in Slot /\ LiveOf(k) \subseteq Slot /\ c = CURRENT
      /\ prog \in [Slot -> [name : Programs, at : Places, child : Pid]] /\ pid \in Pid
      /\ Settled(k) /\ Users(k, prog, ended)
  BY UpFacts DEF Up, CURRENT, Kernel
<1>2. prog[c].at = "branch" /\ k' = k /\ ended' = ended
  BY DEF Branch, At, CURRENT, vars
<1>3. prog' = [prog EXCEPT ![c] = [prog[c] EXCEPT !.at = to, !.child = pid]]
  BY <1>1 DEF Branch
<1>4. /\ to \in Places /\ to # "retake"
      /\ to \notin {"exec", "prompt", "read", "eval", "work"}
      /\ prog[c].name = "systemd" => to \in {"setpgid", "idle"}
      /\ to = "wait" <=> prog[c].name # "systemd" /\ pid # 0
      /\ prog[c].name = "systemd" /\ pid = 0 => to = "idle"
      /\ to # "branch"
  BY DEF Places
<1> HIDE DEF to
<1>5. /\ h[c].name = prog[c].name /\ h[c].at = to /\ h[c].child = pid
      /\ \A p \in LiveOf(k) \ {c} : h[p] = prog[p]
      /\ h \in [Slot -> [name : Programs, at : Places, child : Pid]]
  <2> DEFINE r == [prog[c] EXCEPT !.at = to, !.child = pid]
  <2>1. r \in [name : Programs, at : Places, child : Pid]
    BY <1>1, <1>4
  <2>2. r.name = prog[c].name /\ r.at = to /\ r.child = pid
    BY <1>1
  <2>3. prog' = [prog EXCEPT ![c] = r]
    BY <1>3
  <2> HIDE DEF r
  <2> QED BY <1>1, <2>1, <2>2, <2>3
<1> HIDE DEF h
<1>6. (HasChild(k, h, c) <=> HasChild(k, prog, c)) /\ (HasChild(k, prog, c) => Kid(k, h, c) = Kid(k, prog, c))
  BY <1>2, <1>4, <1>5 DEF HasChild, Kid
<1>7. Systemd(k, h)
  BY <1>1, <1>2, <1>4, <1>5 DEF Users, Systemd
<1>8. Foreground(k, h)
  BY <1>1, <1>4, <1>5 DEF Users, Foreground
<1>9. Shapes(h, ended)
  BY <1>1, <1>5 DEF Users, Shapes
<1>10. Users(k, h, ended)
  BY <1>1, <1>4, <1>5, <1>6, <1>7, <1>8, <1>9, PlaceStep, SameFamilySelf
<1> QED BY <1>1, <1>2, <1>10 DEF Up, h

LEMMA SetpgidUp ==
  ASSUME Up, Setpgid
  PROVE  Up'
<1> DEFINE c == CURRENT
           t == [k EXCEPT !.pgid[c] = k.pid[c]]
           h == [prog EXCEPT ![c].at = "tcsetpgrp"]
<1>1. /\ c \in LiveOf(k) \ k.blocked /\ c \in Slot /\ LiveOf(k) \subseteq Slot /\ c = k.CURRENT
      /\ k.pid[c] \in Pid /\ Settled(k) /\ Users(k, prog, ended) /\ k \in Kernel
  BY UpFacts DEF Up
<1>2. /\ CheckSignal(t) = t /\ Settled(t) /\ SameFamily(k, t) /\ t.CURRENT = c
      /\ t.grp = k.grp /\ t.pgid = [k.pgid EXCEPT ![c] = k.pid[c]]
  BY <1>1, PgidSet
<1>3. k' = t /\ prog' = h /\ ended' = ended /\ prog[c].at = "setpgid"
  BY <1>1, <1>2, NullIsNoSlot DEF Setpgid, SetGroup, Goto, At
<1>4. Gone(prog, c, "tcsetpgrp", h) /\ "tcsetpgrp" \in Places
  BY <1>1, GotoGone DEF Users, Places
<1> HIDE DEF t, h
<1>5. Foreground(t, h)
  <2>1. \A p \in LiveOf(k) \ {c} : t.pgid[p] = k.pgid[p]
    BY <1>1, <1>2 DEF Kernel
  <2> QED BY <1>1, <1>2, <1>4, <2>1 DEF Users, Foreground, Gone, SameFamily
<1>6. Users(t, h, ended)
  BY <1>2, <1>3, <1>4, <1>5, GoneStep DEF h
<1> QED BY <1>2, <1>3, <1>6 DEF Up

LEMMA ExecUp ==
  ASSUME Up, Exec
  PROVE  Up'
<1> DEFINE c == k.CURRENT
           name == CASE prog[c].name = "systemd" -> "getty"
                     [] prog[c].name = "getty"   -> "shell"
                     [] OTHER                    -> "command"
           at == IF name = "command" THEN "work" ELSE "prompt"
           h == prog'
<1>1. /\ c \in LiveOf(k) \ k.blocked /\ c \in Slot /\ LiveOf(k) \subseteq Slot /\ c = CURRENT
      /\ prog \in [Slot -> [name : Programs, at : Places, child : Pid]] /\ k \in Kernel
      /\ Settled(k) /\ Users(k, prog, ended)
  BY UpFacts DEF Up, CURRENT
<1>2. k' = k /\ ended' = ended /\ prog[c].at = "exec"
  <2>1. k.signal[c] = "SIGNONE" /\ k.signal \in [Slot -> Signals \cup {"SIGNONE"}]
    BY <1>1 DEF Settled, Quiet, Kernel
  <2>2. [k EXCEPT !.signal[c] = "SIGNONE"] = k
    BY <1>1, <2>1 DEF Kernel
  <2> QED BY <1>1, <2>2, CheckQuiet DEF Exec, At
<1>3. prog' = [prog EXCEPT ![c] = [name |-> name, at |-> at, child |-> 0]]
  BY <1>1 DEF Exec
<1>4. name \in Programs \ {"systemd"} /\ at \in {"work", "prompt"} /\ at \in Places /\ 0 \in Pid
  BY MaxPidAssumption DEF Programs, Places, Pid
<1> HIDE DEF name, at
<1>5. /\ h[c].name = name /\ h[c].at = at
      /\ \A p \in LiveOf(k) \ {c} : h[p] = prog[p]
      /\ h \in [Slot -> [name : Programs, at : Places, child : Pid]]
  <2> DEFINE r == [name |-> name, at |-> at, child |-> 0]
  <2>1. r \in [name : Programs, at : Places, child : Pid]
    BY <1>4
  <2>2. r.name = name /\ r.at = at
    OBVIOUS
  <2>3. prog' = [prog EXCEPT ![c] = r]
    BY <1>3
  <2> HIDE DEF r
  <2> QED BY <1>1, <2>1, <2>2, <2>3
<1> HIDE DEF h
<1>6. ~HasChild(k, h, c) /\ ~HasChild(k, prog, c) /\ k.pid[c] # 1
  BY <1>1, <1>2, <1>4, <1>5, Alone DEF HasChild
<1>7. Systemd(k, h)
  BY <1>1, <1>4, <1>5, <1>6 DEF Users, Systemd
<1>8. Foreground(k, h)
  BY <1>1, <1>2, <1>4, <1>5 DEF Users, Foreground
<1>9. Shapes(h, ended)
  BY <1>1, <1>5 DEF Users, Shapes
<1>10. Users(k, h, ended)
  BY <1>1, <1>4, <1>5, <1>6, <1>7, <1>8, <1>9, PlaceStep, SameFamilySelf
<1> QED BY <1>1, <1>2, <1>10 DEF Up, h

\* The prompt and a command's output: sys_write does not stop the caller.
LEMMA WriteUp ==
  ASSUME Up, NEW to \in {"read", "exit"}, prog[CURRENT].at \in {"prompt", "work"},
         Goto(to), Call(Write(k))
  PROVE  Up'
<1>1. CURRENT = k.CURRENT /\ CURRENT \in LiveOf(k) \ k.blocked /\ Settled(k)
  BY UpFacts DEF Up
<1>2. k.pgid[CURRENT] = k.grp
  BY <1>1 DEF Up, Users, Foreground
<1>3. k' = k
  BY <1>1, <1>2, CheckQuiet DEF Call, Write
<1>4. prog[CURRENT].name # "systemd"
  BY <1>1 DEF Up, Users, Systemd
<1>5. Users(k, [prog EXCEPT ![CURRENT].at = to], ended)
  BY <1>4, TouchStep DEF Places
<1> QED BY <1>1, <1>3, <1>5 DEF Up, Goto

\* A line is a builtin, `exit` or a command, a login right or wrong.
LEMMA EvalUp ==
  ASSUME Up, Eval
  PROVE  Up'
<1>1. CURRENT = k.CURRENT /\ CURRENT \in LiveOf(k) \ k.blocked
  BY UpFacts
<1>2. PICK to \in {"prompt", "fork", "exit"} : Goto(to)
  BY DEF Eval
<1>3. prog[CURRENT].name # "systemd" /\ k' = k /\ prog[CURRENT].at = "eval"
  BY <1>1 DEF Up, Users, Systemd, Eval, At, vars
<1>4. Users(k, [prog EXCEPT ![CURRENT].at = to], ended)
  BY <1>3, TouchStep DEF Places
<1> QED BY <1>2, <1>3, <1>4 DEF Up, Goto

\* fgets: the process sleeps until the line is there.
LEMMA ReadUp ==
  ASSUME Up, Read
  PROVE  Up'
<1> DEFINE c == k.CURRENT
           u == [k EXCEPT !.cononical = TRUE, !.reader = c]
           h == [prog EXCEPT ![c].at = "eval"]
<1>1. /\ c \in LiveOf(k) /\ c \in Slot /\ k \in Kernel /\ c = CURRENT
      /\ Settled(k) /\ Users(k, prog, ended)
  BY UpFacts DEF Up, CURRENT
<1>2. prog[c].at = "read" /\ prog' = h /\ ended' = ended /\ k' = CheckSignal(Input(k))
  BY <1>1 DEF Read, At, Goto, Call
<1>3. c # IdleSlot(k) /\ k.grp = k.pgid[c]
  <2>1. k.pid[c] # 1
    BY <1>1, <1>2, Alone
  <2> QED BY <1>1, <1>2, <2>1, SettledCurrent DEF Users, Foreground
<1>4. Input(k) = BlockCurrent(u)
  BY <1>3 DEF Input
<1>5. /\ SameRing(k, u) /\ u.signal = k.signal /\ u.blocked = k.blocked /\ u.wait = k.wait
      /\ u.cononical /\ u.reader = c /\ u.pgid = k.pgid /\ u.grp = k.grp
      /\ u.status = k.status /\ u.stat = k.stat /\ u.rax = k.rax
  BY <1>1 DEF Kernel, SameRing
<1> HIDE DEF u
<1>6. Settled(u) /\ u.CURRENT = c /\ u.CURRENT # IdleSlot(u) /\ LiveOf(u) = LiveOf(k)
  <2>1. Waiters(u) /\ IdleSlot(k) \notin u.blocked
    BY <1>1, <1>5, SettledCurrent DEF Waiters, SameRing
  <2>2. Settled(u)
    BY <1>1, <1>5, <2>1, SettledFrame
  <2> QED BY <1>3, <1>5, <2>2 DEF SameRing, IdleSlot, LiveOf
<1>7. PICK q \in LiveOf(u) \ u.blocked : q # c /\
         BlockCurrent(u) = [u EXCEPT !.blocked = @ \cup {c}, !.PROCESSES = q, !.CURRENT = q]
  BY <1>6, BlockSettled
<1>8. Settled(k') /\ k' = [u EXCEPT !.blocked = @ \cup {c}, !.PROCESSES = q, !.CURRENT = q]
  BY <1>2, <1>4, <1>6, <1>7, BlockSettled
<1>9. /\ LiveOf(k') = LiveOf(u) /\ k'.free = u.free /\ k'.zombie = u.zombie /\ k'.pid = u.pid
      /\ k'.PID = u.PID /\ k'.PID_MAP = u.PID_MAP /\ k'.status = u.status /\ k'.wait = u.wait
      /\ k'.rax = u.rax /\ k'.stat = u.stat /\ k'.cononical = u.cononical /\ k'.reader = u.reader
      /\ k'.blocked = u.blocked \cup {c} /\ k'.pgid = u.pgid /\ k'.grp = u.grp /\ k'.CURRENT = q
  BY <1>6, <1>8 DEF Settled, Core, Kernel, LiveOf
<1>10. Gone(prog, c, "eval", h) /\ Shapes(h, ended)
  BY <1>1, GotoGone DEF Users, Places
<1> HIDE DEF h
<1>11. Users(k', h, ended)
  <2>1. k'.cononical /\ k'.CURRENT \notin k'.blocked
    BY <1>5, <1>7, <1>9
  <2> QED BY <1>1, <1>2, <1>5, <1>6, <1>9, <1>10, <2>1, ReadStep DEF SameRing
<1> QED BY <1>2, <1>8, <1>11 DEF Up

\* waitpid: the child is there, and is waited for or answers at once.
LEMMA WaitUp ==
  ASSUME Up, Wait
  PROVE  Up'
<1> DEFINE c == k.CURRENT
           z == k.PID_MAP[prog[c].child]
           h == [prog EXCEPT ![c].at = "retake"]
<1>1. /\ c \in LiveOf(k) \ k.blocked /\ c \in Slot /\ k \in Kernel /\ c = CURRENT
      /\ Settled(k) /\ Users(k, prog, ended)
  BY UpFacts DEF Up, CURRENT
<1>2. /\ prog[c].at = "wait" /\ prog' = h /\ ended' = ended
      /\ k' = CheckSignal(Waitpid(k, prog[c].child))
  BY <1>1 DEF Wait, At, Goto, Call
<1>3. HasChild(k, prog, c) /\ Kid(k, prog, c) = prog[c].child
  BY <1>2 DEF HasChild, Kid
<1>4. z \in LiveOf(k) \cup k.zombie /\ z \in Slot /\ z # NULL
  <2>1. z \in LiveOf(k) \cup k.zombie
    BY <1>1, <1>3 DEF Users, Family, Children
  <2> QED BY <1>1, <2>1, NullIsNoSlot DEF LiveOf, Kernel
<1>5. Gone(prog, c, "retake", h) /\ Shapes(h, ended)
  BY <1>1, GotoGone DEF Users, Places
<1>6. c # IdleSlot(k)
  <2>1. k.pid[c] # 1
    BY <1>1, <1>2 DEF Users, Systemd
  <2> QED BY <1>1, <2>1, SettledCurrent
<1> HIDE DEF h
<1>7. CASE z \in k.zombie
  <2> DEFINE t == [k EXCEPT !.stat[c] = k.status[z], !.rax[c] = k.pid[z]]
  <2>1. Waitpid(k, prog[c].child) = t
    BY <1>4, <1>7 DEF Waitpid
  <2>2. /\ SameRing(k, t) /\ t.signal = k.signal /\ t.blocked = k.blocked /\ t.wait = k.wait
        /\ t.cononical = k.cononical /\ t.reader = k.reader /\ t.pgid = k.pgid /\ t.grp = k.grp
        /\ t.status = k.status /\ t.stat = [k.stat EXCEPT ![c] = k.status[z]]
        /\ t.rax = [k.rax EXCEPT ![c] = k.pid[z]]
    <3>1. k.status[z] \in Status /\ k.pid[z] \in Pid
      BY <1>1, <1>4 DEF Kernel
    <3> QED BY <1>1, <3>1 DEF Kernel, SameRing
  <2> HIDE DEF t
  <2>3. Waiters(t) /\ IdleSlot(k) \notin t.blocked
    BY <1>1, <2>2, SettledCurrent DEF Waiters, SameRing
  <2>4. Settled(t) /\ LiveOf(t) = LiveOf(k)
    BY <1>1, <2>2, <2>3, SettledFrame DEF LiveOf, SameRing
  <2>5. k' = t
    BY <1>2, <2>1, <2>4, CheckQuiet
  <2>6. Users(t, h, ended)
    <3>1. Reaped(k, z, t)
      BY <2>2, <2>4 DEF Reaped, SameRing
    <3> QED BY <1>1, <1>2, <1>5, <1>7, <3>1, WaitZombieStep
  <2> QED BY <1>2, <2>4, <2>5, <2>6 DEF Up
<1>8. CASE z \notin k.zombie
  <2> DEFINE u == [k EXCEPT !.wait[z] = k.pid[c]]
  <2>1. Waitpid(k, prog[c].child) = BlockCurrent(u)
    BY <1>4, <1>8 DEF Waitpid
  <2>2. /\ SameRing(k, u) /\ u.signal = k.signal /\ u.blocked = k.blocked
        /\ u.wait = [k.wait EXCEPT ![z] = k.pid[c]]
        /\ u.cononical = k.cononical /\ u.reader = k.reader /\ u.pgid = k.pgid /\ u.grp = k.grp
        /\ u.status = k.status /\ u.stat = k.stat /\ u.rax = k.rax
    <3>1. k.pid[c] \in Pid
      BY <1>1 DEF Kernel
    <3> QED BY <1>1, <1>4, <3>1 DEF Kernel, SameRing
  <2> HIDE DEF u
  <2>3. Settled(u) /\ u.CURRENT = c /\ u.CURRENT # IdleSlot(u) /\ LiveOf(u) = LiveOf(k)
    <3>1. k.PID_MAP[k.pid[c]] = c
      BY <1>1, SettledPids
    <3>2. Waiters(u) /\ IdleSlot(k) \notin u.blocked
      BY <1>1, <1>4, <2>2, <3>1, SettledCurrent DEF Waiters, SameRing, Kernel
    <3>3. Settled(u)
      BY <1>1, <2>2, <3>2, SettledFrame
    <3> QED BY <1>6, <2>2, <3>3 DEF SameRing, IdleSlot, LiveOf
  <2>4. PICK q \in LiveOf(u) \ u.blocked : q # c /\
           BlockCurrent(u) = [u EXCEPT !.blocked = @ \cup {c}, !.PROCESSES = q, !.CURRENT = q]
    BY <2>3, BlockSettled
  <2>5. Settled(k') /\ k' = [u EXCEPT !.blocked = @ \cup {c}, !.PROCESSES = q, !.CURRENT = q]
    BY <1>2, <2>1, <2>3, <2>4, BlockSettled
  <2>6. /\ LiveOf(k') = LiveOf(u) /\ k'.free = u.free /\ k'.zombie = u.zombie /\ k'.pid = u.pid
        /\ k'.PID = u.PID /\ k'.PID_MAP = u.PID_MAP /\ k'.status = u.status /\ k'.wait = u.wait
        /\ k'.rax = u.rax /\ k'.stat = u.stat /\ k'.cononical = u.cononical /\ k'.reader = u.reader
        /\ k'.blocked = u.blocked \cup {c} /\ k'.pgid = u.pgid /\ k'.grp = u.grp /\ k'.CURRENT = q
    BY <2>3, <2>5 DEF Settled, Core, Kernel, LiveOf
  <2>7. k'.CURRENT \notin k'.blocked
    BY <2>4, <2>6
  <2>8. Users(k', h, ended)
    <3>1. Sleeps(k, z, k')
      BY <2>2, <2>3, <2>6, <2>7 DEF Sleeps, SameRing
    <3> QED BY <1>1, <1>2, <1>5, <1>8, <3>1, WaitLiveStep
  <2> QED BY <1>2, <2>5, <2>8 DEF Up
<1> QED BY <1>7, <1>8

\* The timer.
LEMMA TimerUp ==
  ASSUME Up, Timer
  PROVE  Up'
<1>1. Settled(k) /\ Users(k, prog, ended) /\ k \in Kernel /\ k.CURRENT \in LiveOf(k) \ k.blocked
  BY UpFacts DEF Up
<1>2. k' = Switch(k) /\ Settled(k') /\ prog' = prog /\ ended' = ended
  BY <1>1, SwitchSettled DEF Timer, Tick
<1>3. PICK q \in LiveOf(k) \ k.blocked : k' = [k EXCEPT !.PROCESSES = q, !.CURRENT = q]
  BY <1>1, <1>2, SwitchTo DEF Settled
<1>4. SameFamily(k, k') /\ k'.CURRENT = q /\ k'.pgid = k.pgid /\ k'.grp = k.grp
  BY <1>1, <1>3 DEF Kernel, SameFamily, LiveOf
<1>5. k'.CURRENT \notin k'.blocked /\ Systemd(k', prog) /\ Foreground(k', prog)
  BY <1>1, <1>3, <1>4 DEF SameFamily, Users, Systemd, Foreground
<1>6. (HasChild(k', prog, q) <=> HasChild(k, prog, q)) /\ Kid(k', prog, q) = Kid(k, prog, q)
  BY <1>4 DEF SameFamily, HasChild, Kid
<1>7. Users(k', prog, ended)
  BY <1>1, <1>3, <1>4, <1>5, <1>6, PlaceStep DEF Users
<1> QED BY <1>2, <1>7 DEF Up

\* The end of a line.
LEMMA EnterUp ==
  ASSUME Up, Enter
  PROVE  Up'
<1> DEFINE t == [k EXCEPT !.cononical = FALSE, !.blocked = @ \ {k.reader}]
<1>1. Settled(k) /\ Users(k, prog, ended) /\ k \in Kernel
  BY UpFacts DEF Up
<1>2. k.cononical /\ k' = CheckSignal(Newline(k)) /\ prog' = prog /\ ended' = ended
  BY DEF Enter, KeyNewline
<1>3. Newline(k) = t
  BY <1>1 DEF Newline, Unblock, Kernel
<1>4. /\ SameRing(k, t) /\ t.signal = k.signal /\ ~t.cononical /\ t.reader = k.reader
      /\ t.blocked = k.blocked \ {k.reader} /\ t.wait = k.wait /\ t.pgid = k.pgid /\ t.grp = k.grp
      /\ t.status = k.status /\ t.stat = k.stat /\ t.rax = k.rax
  BY <1>1 DEF Kernel, SameRing
<1> HIDE DEF t
<1>5. Waiters(t) /\ IdleSlot(k) \notin t.blocked
  BY <1>1, <1>4, SettledCurrent DEF Waiters, SameRing
<1>6. Settled(t) /\ LiveOf(t) = LiveOf(k)
  BY <1>1, <1>4, <1>5, SettledFrame DEF LiveOf, SameRing
<1>7. k' = t
  BY <1>2, <1>3, <1>6, CheckQuiet
<1>8. Users(t, prog, ended)
  BY <1>1, <1>2, <1>4, <1>6, EnterStep DEF SameRing
<1> QED BY <1>2, <1>6, <1>7, <1>8 DEF Up

-----------------------------------------------------------------------------
(* The theorems *)

LEMMA UpStep ==
  ASSUME Up, [UNext]_uvars
  PROVE  Up'
<1>1. CASE Fork
  BY <1>1, ForkUp
<1>2. CASE Branch
  BY <1>2, BranchUp
<1>3. CASE Setpgid
  BY <1>3, SetpgidUp
<1>4. CASE TakeTerminal
  BY <1>4, TakeStep DEF TakeTerminal, At
<1>5. CASE Exec
  BY <1>5, ExecUp
<1>6. CASE ExecMissing
  <2>1. /\ k' = CheckSignal(Signal(k, CURRENT, "SIGSEGV")) /\ prog' = prog
        /\ ended' = [ended EXCEPT ![k.pid[CURRENT]] = "core"] /\ prog[CURRENT].at = "exec"
    BY <1>6 DEF ExecMissing, At, Call, Fault, CURRENT
  <2> QED BY <2>1, EndsUp
<1>7. CASE Prompt
  BY <1>7, WriteUp DEF Prompt, At
<1>8. CASE Read
  BY <1>8, ReadUp
<1>9. CASE Eval
  BY <1>9, EvalUp
<1>10. CASE Wait
  BY <1>10, WaitUp
<1>11. CASE Retake
  BY <1>11, TakeStep DEF Retake, At
<1>12. CASE Work
  BY <1>12, WriteUp DEF Work, At
<1>13. CASE Exit
  <2>1. prog[CURRENT].at = "exit" /\ prog' = prog
    BY <1>13 DEF Exit, At
  <2>2. PICK st \in {"exit", "core"} :
           /\ st = "exit" => k' = CheckSignal(ProcessExit(k, CURRENT, "exit"))
           /\ st = "core" => k' = CheckSignal(Signal(k, CURRENT, "SIGSEGV"))
           /\ ended' = [ended EXCEPT ![k.pid[CURRENT]] = st]
    BY <1>13 DEF Exit
  <2> QED BY <2>1, <2>2, EndsUp
<1>14. CASE Timer
  BY <1>14, TimerUp
<1>15. CASE Enter
  BY <1>15, EnterUp
<1>16. CASE UNCHANGED uvars
  BY <1>16 DEF uvars, vars, Up
<1> QED BY <1>1, <1>2, <1>3, <1>4, <1>5, <1>6, <1>7, <1>8, <1>9, <1>10, <1>11, <1>12, <1>13,
           <1>14, <1>15, <1>16 DEF UNext, Step

\* UserlandInv is an invariant of the programs and the kernel; fairness is not needed.
THEOREM UserlandInvariance == USpec => []UserlandInv
<1>1. UInit => UserlandInv
  <2>1. PoolSlot(Slot) \in Slot
    BY PoolSlotFree, PoolAssumption
  <2> QED BY <2>1, LaunchFields DEF UInit, UserlandInv, Booting
<1>2. UserlandInv /\ [UNext]_uvars => UserlandInv'
  <2> SUFFICES ASSUME UserlandInv, [UNext]_uvars PROVE UserlandInv'
    OBVIOUS
  <2>1. CASE Booting(k, prog, ended)
    BY <2>1, BootStep
  <2>2. CASE Up
    <3>1. Up'
      BY <2>2, UpStep
    <3> QED BY <3>1 DEF Up, UserlandInv
  <2> QED BY <2>1, <2>2 DEF UserlandInv, Up
<1> QED BY <1>1, <1>2, PTL DEF USpec

\* Before the first fork nobody sleeps, waits or touches the terminal.
LEMMA BootQuiet ==
  ASSUME Booting(k, prog, ended)
  PROVE  k.blocked = {} /\ \A p \in LiveOf(k) : prog[p].at = "fork"
BY DEF Booting, Launched, LiveOf

\* waitpid returns the child it was called for, with the status that child ended with,
\* whether the call or the exit came first, for any number of users' processes.
THEOREM WaitIsAnswered == USpec => []WaitAnswered
<1>1. UserlandInv => WaitAnswered
  <2>1. ASSUME Booting(k, prog, ended) PROVE WaitAnswered
    BY <2>1, BootQuiet DEF WaitAnswered, Live
  <2>2. ASSUME Users(k, prog, ended) PROVE WaitAnswered
    BY <2>2 DEF Users, Answered, WaitAnswered, Live
  <2> QED BY <2>1, <2>2 DEF UserlandInv
<1> QED BY <1>1, UserlandInvariance, PTL

\* No wake-up is lost: whoever sleeps reads the terminal, is the parent some live
\* process will answer when it ends, or is the process with pid 0.
THEOREM WakeupsKept == USpec => []NoLostWakeup
<1>1. UserlandInv => NoLostWakeup
  <2>1. ASSUME Booting(k, prog, ended) PROVE NoLostWakeup
    BY <2>1, BootQuiet DEF NoLostWakeup
  <2>2. ASSUME Users(k, prog, ended), NEW p \in Live \cap k.blocked
        PROVE  \/ k.cononical /\ k.reader = p
               \/ \E c \in Live : k.wait[c] = k.pid[p]
               \/ k.pid[p] = 0
    <3>1. CASE prog[p].at = "retake"
      <4>1. HasChild(k, prog, p)
        BY <2>2, <3>1 DEF HasChild
      <4> QED BY <2>2, <4>1 DEF Users, Family, Children, Live
    <3> QED BY <2>2, <3>1 DEF Users, Asleep, Sleepers, Live
  <2> QED BY <2>1, <2>2 DEF UserlandInv, NoLostWakeup
<1> QED BY <1>1, UserlandInvariance, PTL

\* A process about to write to the terminal or to read from it is in its foreground
\* group, so sys_write and sys_input never send SIGTTOU or SIGTTIN.
THEOREM ForegroundOnly == USpec => []NeverStopped
<1>1. UserlandInv => NeverStopped
  <2>1. ASSUME Booting(k, prog, ended) PROVE NeverStopped
    BY <2>1, BootQuiet DEF NeverStopped, Live
  <2>2. ASSUME Users(k, prog, ended) PROVE NeverStopped
    BY <2>2 DEF Users, Foreground, NeverStopped, Live
  <2> QED BY <2>1, <2>2 DEF UserlandInv
<1> QED BY <1>1, UserlandInvariance, PTL
==============================================================================
