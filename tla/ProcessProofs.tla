---------------------------- MODULE ProcessProofs ----------------------------
(***************************************************************************)
(* Proofs about module Process for any number of slots and pids.           *)
(***************************************************************************)
EXTENDS Process, FiniteSetTheorems, WellFoundedInduction, SequenceTheorems, TLAPS

(* The functions of scheduler.c on a ring of any size *)

\* The state of the scheduler as far as the lemmas need it.
Linked(s) == /\ s.next \in [Slot -> Slot] /\ s.last \in [Slot -> Slot]
             /\ s.blocked \subseteq Slot

\* In a ring, a non-empty part that `last` never leaves is the whole ring.
LEMMA BackwardClosed ==
  ASSUME NEW s, NEW R \in SUBSET Slot, Ring(s, R),
         NEW B \in SUBSET R, B # {}, \A y \in B : s.last[y] \in B
  PROVE  B = R
<1> DEFINE C == R \ B
<1>1. \A x \in C : s.next[x] \in C
  BY DEF Ring
<1>2. C # R
  OBVIOUS
<1>3. C = {}
  BY <1>1, <1>2 DEF Ring
<1> QED BY <1>3

\* A process that is its own successor is alone in its ring.
LEMMA AloneInRing ==
  ASSUME NEW s, NEW R \in SUBSET Slot, Ring(s, R), NEW p \in R, s.next[p] = p
  PROVE  {p} = R
<1> DEFINE S == {p}
<1>1. S \in SUBSET R /\ S # {}
  OBVIOUS
<1>2. \A x \in S : s.next[x] \in S
  OBVIOUS
<1> HIDE DEF S
<1>3. S = R
  BY <1>1, <1>2 DEF Ring
<1> QED BY <1>3 DEF S

\* scheduler_nextProcess: some visited process can run ...
LEMMA SomeRunnable ==
  ASSUME NEW s, Linked(s), NEW R \in SUBSET Slot, Ring(s, R),
         NEW p \in R, NEW i \in R \ s.blocked
  PROVE  /\ Visited(s, p) \subseteq R
         /\ Visited(s, p) \ s.blocked # {}
<1> DEFINE V == Visited(s, p)
<1>1. s.next[p] \in R /\ \A x \in R \cap s.blocked : s.next[x] \in R
  BY DEF Ring
<1>2. V \subseteq R
  BY <1>1 DEF Visited
<1>3. s.next[p] \in V
  BY DEF Visited, Linked
<1>4. \A x \in V \cap s.blocked : s.next[x] \in V
  BY DEF Visited, Linked
<1>5. ASSUME V \ s.blocked = {} PROVE FALSE
  <2>1. \A x \in V : s.next[x] \in V
    BY <1>4, <1>5
  <2>2. V = R
    BY <1>2, <1>3, <2>1 DEF Ring
  <2> QED BY <2>2, <1>5
<1> QED BY <1>2, <1>5

\* ... and the walk ends before it comes back to p when another process can run.
LEMMA NotBackToStart ==
  ASSUME NEW s, Linked(s), NEW R \in SUBSET Slot, Ring(s, R),
         NEW p \in R, NEW i \in R \ s.blocked, i # p
  PROVE  p \notin Visited(s, p)
<1> DEFINE V == Visited(s, p)
<1> SUFFICES ASSUME p \in V PROVE FALSE
  OBVIOUS
<1>1. V \subseteq R
  BY SomeRunnable
<1>2. ASSUME NEW y \in V, y # s.next[p]
      PROVE  s.last[y] \in V \cap s.blocked
  \* Otherwise V without y would be closed too, and V is the least closed set.
  <2> SUFFICES ASSUME s.last[y] \notin V \cap s.blocked PROVE FALSE
    OBVIOUS
  <2> DEFINE W == V \ {y}
  <2>1. s.next[p] \in W
    BY <1>2 DEF Visited, Linked
  <2>2. ASSUME NEW x \in W \cap s.blocked PROVE s.next[x] \in W
    <3>1. s.next[x] \in V
      BY DEF Visited, Linked
    <3>2. s.next[x] # y
      BY <1>1 DEF Ring
    <3> QED BY <3>1, <3>2
  <2>3. W \in SUBSET Slot
    BY DEF Visited
  <2>4. V \subseteq W
    BY <2>1, <2>2, <2>3 DEF Visited
  <2> QED BY <2>4
<1>3. p # s.next[p]
  <2> SUFFICES ASSUME p = s.next[p] PROVE FALSE
    OBVIOUS
  <2>1. {p} = R
    BY AloneInRing
  <2> QED BY <2>1
<1> DEFINE B == (V \cap s.blocked) \cup {p}
<1>4. \A y \in B : s.last[y] \in B
  <2> TAKE y \in B
  <2>1. CASE y = p
    BY <2>1, <1>2, <1>3
  <2>2. CASE y = s.next[p]
    BY <2>2 DEF Ring
  <2>3. CASE y # p /\ y # s.next[p]
    BY <2>3, <1>2
  <2> QED BY <2>1, <2>2, <2>3
<1>5. B \in SUBSET R /\ B # {}
  BY <1>1
<1>6. B = R
  <2> HIDE DEF B
  <2> QED BY <1>4, <1>5, BackwardClosed
<1> QED BY <1>6

\* Linking c behind p makes a ring of c and what was there.
LEMMA LinkRing ==
  ASSUME NEW s, Linked(s), NEW R \in SUBSET Slot, Ring(s, R),
         NEW p \in R, NEW c \in Slot \ R, NEW t,
         t.last = [s.last EXCEPT ![s.next[p]] = c, ![c] = p],
         t.next = [s.next EXCEPT ![c] = s.next[p], ![p] = c]
  PROVE  Ring(t, R \cup {c})
<1> DEFINE Q == R \cup {c}
<1>r. \A y \in R : /\ s.next[y] \in R /\ s.last[y] \in R
                  /\ s.last[s.next[y]] = y /\ s.next[s.last[y]] = y
  BY DEF Ring
<1>1. s.next[p] \in R /\ p # c
  BY <1>r
<1>2. /\ t.next[c] = s.next[p] /\ t.next[p] = c
      /\ \A x \in R \ {p} : t.next[x] = s.next[x]
  BY <1>1 DEF Linked
<1>3. /\ t.last[s.next[p]] = c /\ t.last[c] = p
      /\ \A x \in R \ {s.next[p]} : t.last[x] = s.last[x]
  BY <1>1 DEF Linked
<1>4. \A x \in Q : /\ t.next[x] \in Q /\ t.last[x] \in Q
                   /\ t.last[t.next[x]] = x /\ t.next[t.last[x]] = x
  <2> TAKE x \in Q
  <2>n. t.next[x] \in Q /\ t.last[t.next[x]] = x
    <3>1. CASE x = c
      BY <3>1, <1>1, <1>2, <1>3
    <3>2. CASE x = p
      BY <3>2, <1>2, <1>3
    <3>3. CASE x # p /\ x # c
      <4>1. x \in R
        BY <3>3
      <4>2. t.next[x] = s.next[x]
        BY <3>3, <4>1, <1>2
      <4>3. s.next[x] \in R /\ s.last[s.next[x]] = x
        BY <4>1, <1>r
      <4>4. s.last[s.next[p]] = p
        BY <1>r
      <4>5. s.next[x] # s.next[p]
        BY <3>3, <4>3, <4>4
      <4>6. t.last[s.next[x]] = s.last[s.next[x]]
        BY <4>3, <4>5, <1>3
      <4> QED BY <4>2, <4>3, <4>6
    <3> QED BY <3>1, <3>2, <3>3
  <2>l. t.last[x] \in Q /\ t.next[t.last[x]] = x
    <3>1. CASE x = c
      BY <3>1, <1>1, <1>2, <1>3
    <3>2. CASE x = s.next[p]
      BY <3>2, <1>2, <1>3
    <3>3. CASE x # s.next[p] /\ x # c
      <4>1. x \in R
        BY <3>3
      <4>2. t.last[x] = s.last[x]
        BY <3>3, <4>1, <1>3
      <4>3. s.last[x] \in R /\ s.next[s.last[x]] = x
        BY <4>1, <1>r
      <4>4. s.last[x] # p
        BY <3>3, <4>3
      <4>5. t.next[s.last[x]] = s.next[s.last[x]]
        BY <4>3, <4>4, <1>2
      <4> QED BY <4>2, <4>3, <4>5
    <3> QED BY <3>1, <3>2, <3>3
  <2> QED BY <2>n, <2>l
<1>5. ASSUME NEW S \in SUBSET Q, S # {}, \A x \in S : t.next[x] \in S
      PROVE  S = Q
  <2> DEFINE O == S \ {c}
  <2>1. O # {}
    BY <1>1, <1>2, <1>5
  <2>2. \A x \in O : s.next[x] \in O
    <3> TAKE x \in O
    <3>1. s.next[x] \in R
      BY DEF Ring
    <3>2. CASE x = p
      BY <3>1, <3>2, <1>2, <1>5
    <3>3. CASE x # p
      BY <3>1, <3>3, <1>2, <1>5
    <3> QED BY <3>2, <3>3
  <2>3. O = R
    BY <2>1, <2>2 DEF Ring
  <2>4. c \in S
    BY <2>3, <1>2, <1>5
  <2> QED BY <2>3, <2>4
<1> QED BY <1>4, <1>5 DEF Ring

\* Unlinking p, which is not alone, makes a ring of the others.
LEMMA UnlinkRing ==
  ASSUME NEW s, Linked(s), NEW R \in SUBSET Slot, Ring(s, R),
         NEW p \in R, R # {p}, NEW t,
         t.last = [s.last EXCEPT ![s.next[p]] = s.last[p]],
         t.next = [s.next EXCEPT ![s.last[p]] = s.next[p]]
  PROVE  Ring(t, R \ {p})
<1> DEFINE Q == R \ {p}
<1>r. \A y \in R : /\ s.next[y] \in R /\ s.last[y] \in R
                  /\ s.last[s.next[y]] = y /\ s.next[s.last[y]] = y
  BY DEF Ring
<1>1. s.next[p] # p /\ s.last[p] # p
  <2>1. s.next[p] # p
    BY AloneInRing
  <2> QED BY <2>1, <1>r
<1>2. /\ t.last[s.next[p]] = s.last[p] /\ t.next[s.last[p]] = s.next[p]
      /\ \A x \in R : x # s.next[p] => t.last[x] = s.last[x]
      /\ \A x \in R : x # s.last[p] => t.next[x] = s.next[x]
  BY <1>r DEF Linked
<1>3. \A x \in Q : /\ t.next[x] \in Q /\ t.last[x] \in Q
                   /\ t.last[t.next[x]] = x /\ t.next[t.last[x]] = x
  <2> TAKE x \in Q
  <2>0. s.next[p] \in Q /\ s.last[p] \in Q
    BY <1>1, <1>r
  <2>1. t.next[x] \in Q /\ t.last[t.next[x]] = x
    <3>1. CASE x = s.last[p]
      BY <3>1, <2>0, <1>2
    <3>2. CASE x # s.last[p]
      <4>1. s.next[x] # p /\ s.next[x] \in R /\ s.next[x] # s.next[p]
        BY <3>2, <1>r
      <4> QED BY <4>1, <3>2, <1>2, <1>r
    <3> QED BY <3>1, <3>2
  <2>2. t.last[x] \in Q /\ t.next[t.last[x]] = x
    <3>1. CASE x = s.next[p]
      BY <3>1, <2>0, <1>2
    <3>2. CASE x # s.next[p]
      <4>1. s.last[x] # p /\ s.last[x] \in R /\ s.last[x] # s.last[p]
        BY <3>2, <1>r
      <4> QED BY <4>1, <3>2, <1>2, <1>r
    <3> QED BY <3>1, <3>2
  <2> QED BY <2>1, <2>2
<1>4. ASSUME NEW S \in SUBSET Q, S # {}, \A x \in S : t.next[x] \in S
      PROVE  S = Q
  \* With p added when its predecessor is in S, S is closed in the old ring.
  <2> DEFINE O == IF s.last[p] \in S THEN S \cup {p} ELSE S
  <2>1. \A x \in O : s.next[x] \in O
    <3> TAKE x \in O
    <3>1. CASE x = p
      <4>1. s.last[p] \in S
        BY <3>1
      <4>2. s.next[p] \in S
        BY <4>1, <1>2, <1>4
      <4> QED BY <4>2, <3>1
    <3>2. CASE x # p /\ x = s.last[p]
      BY <3>2, <1>r
    <3>3. CASE x # p /\ x # s.last[p]
      BY <3>3, <1>2, <1>4
    <3> QED BY <3>1, <3>2, <3>3
  <2>2. O \in SUBSET R /\ O # {}
    BY <1>4
  <2>3. O = R
    BY <2>1, <2>2 DEF Ring
  <2> QED BY <2>3
<1> QED BY <1>3, <1>4 DEF Ring

-----------------------------------------------------------------------------
(***************************************************************************)
(* What the deployment has to provide: process 1 stays the idle loop that  *)
(* systemd leaves it in, no program raises an exception that is not        *)
(* handled, nobody types ctrl-c, and kill is called for single processes,  *)
(* never with SIGKILL and never to stop the idle loop.                     *)
(***************************************************************************)
SafeKill(pid, sig) == /\ pid >= 0 /\ sig # "SIGKILL"
                      /\ sig \in StopSignals => pid # 1

Deployment == /\ 1 \in Idle
              /\ "divide" \notin Calls /\ "ctrl" \notin Calls
              /\ \A c \in Kills : SafeKill(c[1], c[2])

\* The slot of the idle loop.
IdleSlot(s) == s.PID_MAP[1]

(***************************************************************************)
(* The inductive invariant, part by part, as a predicate on kernel states: *)
(* the handlers are operators, and a lemma per operator shows that it      *)
(* keeps the predicate.                                                    *)
(***************************************************************************)
OnCpu(s) == ~s.hung /\ s.CURRENT = s.PROCESSES /\ s.CURRENT \in LiveOf(s)

\* The idle loop is alive and never blocked, and no other pid leads to its slot.
IdleReady(s) == /\ IdleSlot(s) \in LiveOf(s) \ s.blocked
                /\ s.pid[IdleSlot(s)] = 1
                /\ \A i \in Pid : s.PID_MAP[i] = IdleSlot(s) => i = 1

\* PID_MAP finds every live process, and no pid has been given out twice.
PidsKnown(s) == /\ \A p \in LiveOf(s) : s.PID_MAP[s.pid[p]] = p /\ s.pid[p] < s.PID
                /\ s.PID >= 2

\* A parent that waits has had a pid; a reader is somebody.
Waiters(s) == /\ \A p \in Slot : s.wait[p] # 0 => s.PID_MAP[s.wait[p]] \in Slot
              /\ s.cononical => s.reader \in Slot

Core(s) == /\ s \in Kernel
           /\ Ring(s, LiveOf(s))
           /\ s.COUNT = Cardinality(LiveOf(s))
           /\ OnCpu(s) /\ IdleReady(s) /\ PidsKnown(s) /\ Waiters(s)

\* No signal is pending, except perhaps for the process on the CPU.
QuietOthers(s) == \A p \in LiveOf(s) \ {s.CURRENT} : s.signal[p] = "SIGNONE"
Quiet(s) == \A p \in LiveOf(s) : s.signal[p] = "SIGNONE"

Settled(s) == Core(s) /\ Quiet(s)

-----------------------------------------------------------------------------
\* t is s except for what a handler may change without touching the ring or the pids.
SameRing(s, t) ==
  /\ t \in Kernel
  /\ t.next = s.next /\ t.last = s.last /\ t.free = s.free /\ t.zombie = s.zombie
  /\ t.pid = s.pid /\ t.PID = s.PID /\ t.PID_MAP = s.PID_MAP /\ t.COUNT = s.COUNT
  /\ t.PROCESSES = s.PROCESSES /\ t.CURRENT = s.CURRENT /\ t.hung = s.hung

\* Core is about the ring, the pids, the idle loop and the waiting processes only.
LEMMA CoreFrame ==
  ASSUME NEW s, NEW t, Core(s), SameRing(s, t), IdleSlot(s) \notin t.blocked, Waiters(t)
  PROVE  Core(t)
<1>1. LiveOf(t) = LiveOf(s)
  BY DEF LiveOf, SameRing
<1>2. Ring(t, LiveOf(t))
  BY <1>1 DEF Core, Ring, SameRing
<1>3. OnCpu(t) /\ PidsKnown(t) /\ t.COUNT = Cardinality(LiveOf(t)) /\ t \in Kernel
  BY <1>1 DEF Core, OnCpu, PidsKnown, SameRing
<1>4. IdleReady(t)
  BY <1>1 DEF Core, IdleReady, IdleSlot, SameRing
<1> QED BY <1>1, <1>2, <1>3, <1>4 DEF Core

\* scheduler_nextProcess and the switch to what it finds.
LEMMA NextFound ==
  ASSUME NEW s, s \in Kernel, Ring(s, LiveOf(s)), s.PROCESSES \in LiveOf(s), IdleReady(s)
  PROVE  \E q \in LiveOf(s) \ s.blocked :
            /\ NextProcess(s) = [s EXCEPT !.PROCESSES = q]
            /\ IdleSlot(s) # s.PROCESSES => q # s.PROCESSES
<1> DEFINE p == s.PROCESSES
           r == Visited(s, p) \ s.blocked
<1>1. Linked(s) /\ LiveOf(s) \in SUBSET Slot /\ IdleSlot(s) \in LiveOf(s) \ s.blocked
  BY DEF Kernel, Linked, LiveOf, IdleReady
<1>2. Visited(s, p) \subseteq LiveOf(s) /\ r # {}
  BY <1>1, SomeRunnable
<1>3. IdleSlot(s) # p => p \notin Visited(s, p)
  BY <1>1, NotBackToStart
<1>4. p # NULL
  BY <1>1, NullIsNoSlot
<1>5. NextProcess(s) = [s EXCEPT !.PROCESSES = CHOOSE q \in r : TRUE]
  BY <1>2, <1>4 DEF NextProcess
<1>6. (CHOOSE q \in r : TRUE) \in r
  BY <1>2
<1> QED BY <1>2, <1>3, <1>5, <1>6

\* A switch leaves Core as it was: another process that can run has the CPU.
LEMMA SwitchCore ==
  ASSUME NEW s, Core(s)
  PROVE  /\ Core(Switch(s)) /\ LiveOf(Switch(s)) = LiveOf(s)
         /\ Switch(s).signal = s.signal
<1>1. PICK q \in LiveOf(s) \ s.blocked : NextProcess(s) = [s EXCEPT !.PROCESSES = q]
  BY NextFound DEF Core, OnCpu
<1> DEFINE t == Switch(s)
<1>2. t = [s EXCEPT !.PROCESSES = q, !.CURRENT = q]
  BY <1>1 DEF Switch, Core, Kernel
<1>3. t \in Kernel
  BY ZenonT(60), <1>2 DEF Core, Kernel, LiveOf
<1>4. /\ t.next = s.next /\ t.last = s.last /\ t.free = s.free /\ t.zombie = s.zombie
      /\ t.pid = s.pid /\ t.PID = s.PID /\ t.PID_MAP = s.PID_MAP /\ t.COUNT = s.COUNT
      /\ t.hung = s.hung /\ t.blocked = s.blocked /\ t.PROCESSES = q /\ t.CURRENT = q
      /\ t.wait = s.wait /\ t.cononical = s.cononical /\ t.reader = s.reader
      /\ t.signal = s.signal
  BY <1>2 DEF Core, Kernel
<1>5. LiveOf(t) = LiveOf(s)
  BY <1>4 DEF LiveOf
<1> HIDE DEF t
<1>6. Ring(t, LiveOf(t))
  BY <1>4, <1>5 DEF Core, Ring
<1>7. OnCpu(t) /\ PidsKnown(t) /\ IdleReady(t) /\ Waiters(t)
  BY <1>4, <1>5 DEF Core, OnCpu, PidsKnown, IdleReady, IdleSlot, Waiters
<1>8. Core(t)
  BY <1>3, <1>4, <1>5, <1>6, <1>7 DEF Core
<1> QED BY <1>4, <1>5, <1>8 DEF t

\* t is s after p, on the CPU, has ended with status st: another process that can run
\* has the CPU; a parent that waits has its answer and the slot is free, or else p is a
\* zombie.
Ended(s, p, st, t) ==
  /\ t \in Kernel
  /\ \E q \in LiveOf(s) \ s.blocked : q # p /\ t.CURRENT = q /\ t.PROCESSES = q
  /\ ~t.hung
  /\ t.last = [s.last EXCEPT ![s.next[p]] = s.last[p]]
  /\ t.next = [s.next EXCEPT ![s.last[p]] = s.next[p]]
  /\ LiveOf(t) = LiveOf(s) \ {p}
  /\ t.COUNT = s.COUNT - 1
  /\ t.pid = s.pid /\ t.PID = s.PID /\ t.PID_MAP = s.PID_MAP
  /\ t.wait = s.wait /\ t.signal = s.signal
  /\ t.cononical = s.cononical /\ t.reader = s.reader
  /\ t.pgid = s.pgid /\ t.grp = s.grp /\ t.status = [s.status EXCEPT ![p] = st]
  /\ s.wait[p] # 0 => LET w == s.PID_MAP[s.wait[p]] IN
       /\ t.free = s.free \cup {p} /\ t.zombie = s.zombie /\ t.blocked = s.blocked \ {w}
       /\ t.stat = [s.stat EXCEPT ![w] = st] /\ t.rax = [s.rax EXCEPT ![w] = s.pid[p]]
  /\ s.wait[p] = 0 => /\ t.free = s.free /\ t.zombie = s.zombie \cup {p}
                      /\ t.blocked = s.blocked /\ t.stat = s.stat /\ t.rax = s.rax

\* process_exit of the process on the CPU, which is not the idle loop.
LEMMA ExitFields ==
  ASSUME NEW s, Core(s), NEW st \in Status, s.CURRENT # IdleSlot(s)
  PROVE  Ended(s, s.CURRENT, st, ProcessExit(s, s.CURRENT, st))
<1> DEFINE p == s.CURRENT
           t == ProcessExit(s, p, st)
           a == [s EXCEPT !.status[p] = st]
           b == [a EXCEPT !.COUNT = @ - 1]
<1>1. /\ p = s.PROCESSES /\ p \in LiveOf(s) /\ p \in Slot
      /\ IdleSlot(s) # p /\ s \in Kernel /\ Ring(s, LiveOf(s)) /\ ~s.hung
  BY DEF Core, OnCpu, LiveOf
<1>2. /\ b \in Kernel /\ b.next = s.next /\ b.last = s.last /\ b.blocked = s.blocked
      /\ b.free = s.free /\ b.zombie = s.zombie
      /\ b.PROCESSES = s.PROCESSES /\ b.hung = s.hung
      /\ b.COUNT = s.COUNT - 1 /\ b.pid = s.pid /\ b.PID = s.PID /\ b.PID_MAP = s.PID_MAP
      /\ b.wait = s.wait /\ b.signal = s.signal
      /\ b.cononical = s.cononical /\ b.reader = s.reader
      /\ b.pgid = s.pgid /\ b.grp = s.grp /\ b.stat = s.stat /\ b.rax = s.rax
      /\ b.status = [s.status EXCEPT ![p] = st]
  <2>1. /\ a \in Kernel /\ a.next = s.next /\ a.last = s.last /\ a.blocked = s.blocked
        /\ a.free = s.free /\ a.zombie = s.zombie
        /\ a.PROCESSES = s.PROCESSES /\ a.hung = s.hung
        /\ a.COUNT = s.COUNT /\ a.pid = s.pid /\ a.PID = s.PID /\ a.PID_MAP = s.PID_MAP
        /\ a.wait = s.wait /\ a.signal = s.signal
        /\ a.cononical = s.cononical /\ a.reader = s.reader
        /\ a.pgid = s.pgid /\ a.grp = s.grp /\ a.stat = s.stat /\ a.rax = s.rax
        /\ a.status = [s.status EXCEPT ![p] = st]
    BY <1>1 DEF Kernel
  <2>2. s.COUNT - 1 \in Int
    BY <1>1 DEF Kernel
  <2>3. b = [a EXCEPT !.COUNT = s.COUNT - 1]
    BY <2>1
  <2> HIDE DEF a, b
  <2> QED BY <2>1, <2>2, <2>3 DEF Kernel
<1> HIDE DEF b
<1>3. /\ LiveOf(b) = LiveOf(s) /\ IdleReady(b) /\ IdleSlot(b) = IdleSlot(s)
      /\ Ring(b, LiveOf(b))
  BY <1>1, <1>2 DEF Core, LiveOf, IdleReady, IdleSlot, Ring
<1>4. PICK q \in LiveOf(s) \ s.blocked : q # p /\ NextProcess(b) = [b EXCEPT !.PROCESSES = q]
  BY <1>1, <1>2, <1>3, NextFound
<1>5. s.next[p] # p
  BY <1>1, <1>4, AloneInRing DEF LiveOf
<1> DEFINE l == [s.last EXCEPT ![s.next[p]] = s.last[p]]
           n == [s.next EXCEPT ![s.last[p]] = s.next[p]]
           e == [b EXCEPT !.PROCESSES = q, !.last = l, !.next = n]
<1>a. l \in [Slot -> Slot] /\ n \in [Slot -> Slot]
  BY <1>1 DEF Kernel
<1>6. ScheduleEnd(a, p) = e
  <2>1. a.PROCESSES = p /\ [a EXCEPT !.COUNT = @ - 1] = b
    BY <1>1 DEF Kernel, b
  <2> DEFINE u == [b EXCEPT !.PROCESSES = q]
  <2>2. ~u.hung /\ u.last = s.last /\ u.next = s.next /\ u \in Kernel
    BY <1>1, <1>2, <1>4 DEF Kernel, LiveOf
  <2>3. [u.last EXCEPT ![u.next[p]] = u.last[p]] = l /\ l[p] = s.last[p]
    BY <1>1, <1>5, <2>2 DEF Kernel
  <2>4. ScheduleEnd(a, p) = [u EXCEPT !.last = l, !.next[l[p]] = u.next[p]]
    BY <1>4, <2>1, <2>2, <2>3 DEF ScheduleEnd
  <2> QED BY <1>1, <2>2, <2>3, <2>4 DEF Kernel
<1>7. /\ e \in Kernel /\ ~e.hung /\ e.next = n /\ e.last = l /\ e.PROCESSES = q
      /\ e.free = s.free /\ e.zombie = s.zombie /\ e.blocked = s.blocked
      /\ e.COUNT = s.COUNT - 1 /\ e.pid = s.pid /\ e.PID = s.PID /\ e.PID_MAP = s.PID_MAP
      /\ e.wait = s.wait /\ e.signal = s.signal
      /\ e.cononical = s.cononical /\ e.reader = s.reader
      /\ e.pgid = s.pgid /\ e.grp = s.grp /\ e.stat = s.stat /\ e.rax = s.rax
      /\ e.status = [s.status EXCEPT ![p] = st]
  <2> HIDE DEF l, n
  <2>1. q \in Slot
    BY <1>4 DEF LiveOf
  <2> QED BY <1>1, <1>2, <1>a, <2>1 DEF Kernel
<1> HIDE DEF a, l, n, e
<1> DEFINE d == [e EXCEPT !.CURRENT = q]
           w == s.PID_MAP[s.wait[p]]
<1>8. /\ d \in Kernel /\ ~d.hung /\ d.next = n /\ d.last = l
      /\ d.PROCESSES = q /\ d.CURRENT = q
      /\ d.free = s.free /\ d.zombie = s.zombie /\ d.blocked = s.blocked
      /\ d.COUNT = s.COUNT - 1 /\ d.pid = s.pid /\ d.PID = s.PID /\ d.PID_MAP = s.PID_MAP
      /\ d.wait = s.wait /\ d.signal = s.signal
      /\ d.cononical = s.cononical /\ d.reader = s.reader
      /\ d.pgid = s.pgid /\ d.grp = s.grp /\ d.stat = s.stat /\ d.rax = s.rax
      /\ d.status = [s.status EXCEPT ![p] = st]
  BY <1>4, <1>7 DEF Kernel, LiveOf
<1>9. t = Bury(d, p, st)
  <2>1. d = [e EXCEPT !.CURRENT = e.PROCESSES]
    BY <1>7
  <2> HIDE DEF d
  <2> QED BY <1>6, <1>7, <2>1 DEF ProcessExit, a
<1> HIDE DEF d, t
<1>10. /\ t \in Kernel /\ t.CURRENT = q /\ t.PROCESSES = q /\ ~t.hung
       /\ t.last = l /\ t.next = n
       /\ t.COUNT = s.COUNT - 1
       /\ t.pid = s.pid /\ t.PID = s.PID /\ t.PID_MAP = s.PID_MAP
       /\ t.wait = s.wait /\ t.signal = s.signal
       /\ t.cononical = s.cononical /\ t.reader = s.reader
       /\ t.pgid = s.pgid /\ t.grp = s.grp /\ t.status = [s.status EXCEPT ![p] = st]
       /\ s.wait[p] # 0 =>
            /\ t.free = s.free \cup {p} /\ t.zombie = s.zombie /\ t.blocked = s.blocked \ {w}
            /\ t.stat = [s.stat EXCEPT ![w] = st] /\ t.rax = [s.rax EXCEPT ![w] = s.pid[p]]
       /\ s.wait[p] = 0 => /\ t.free = s.free /\ t.zombie = s.zombie \cup {p}
                           /\ t.blocked = s.blocked /\ t.stat = s.stat /\ t.rax = s.rax
  <2>1. CASE s.wait[p] # 0
    <3>1. w \in Slot /\ s.pid[p] \in Pid
      BY <1>1, <2>1 DEF Core, Waiters, Kernel
    <3> HIDE DEF w
    <3>2. t = [d EXCEPT !.stat[w] = st, !.rax[w] = s.pid[p], !.free = @ \cup {p},
                        !.blocked = @ \ {w}]
      <4> DEFINE x == [d EXCEPT !.stat[w] = st, !.rax[w] = s.pid[p], !.free = @ \cup {p}]
      <4>1. w = d.PID_MAP[d.wait[p]] /\ d.wait[p] # 0 /\ d.pid[p] = s.pid[p]
        BY <1>8, <2>1 DEF w
      <4>2. t = Unblock(x, w)
        BY <1>9, <4>1 DEF Bury
      <4> QED BY <1>8, <4>2 DEF Unblock, Kernel
    <3>3. /\ t.CURRENT = d.CURRENT /\ t.PROCESSES = d.PROCESSES /\ t.hung = d.hung
          /\ t.last = d.last /\ t.next = d.next /\ t.COUNT = d.COUNT
          /\ t.pid = d.pid /\ t.PID = d.PID /\ t.PID_MAP = d.PID_MAP
          /\ t.wait = d.wait /\ t.signal = d.signal
          /\ t.cononical = d.cononical /\ t.reader = d.reader
          /\ t.pgid = d.pgid /\ t.grp = d.grp /\ t.status = d.status
          /\ t.free = d.free \cup {p} /\ t.zombie = d.zombie /\ t.blocked = d.blocked \ {w}
          /\ t.stat = [d.stat EXCEPT ![w] = st] /\ t.rax = [d.rax EXCEPT ![w] = s.pid[p]]
      BY ZenonT(60), <1>8, <3>2 DEF Kernel
    <3>4. t \in Kernel
      BY ZenonT(60), <1>1, <1>8, <3>1, <3>2 DEF Kernel
    <3> QED BY <1>8, <2>1, <3>3, <3>4
  <2>2. CASE s.wait[p] = 0
    <3>1. t = [d EXCEPT !.zombie = @ \cup {p}]
      BY <1>8, <1>9, <2>2 DEF Bury
    <3>2. /\ t.CURRENT = d.CURRENT /\ t.PROCESSES = d.PROCESSES /\ t.hung = d.hung
          /\ t.last = d.last /\ t.next = d.next /\ t.COUNT = d.COUNT
          /\ t.pid = d.pid /\ t.PID = d.PID /\ t.PID_MAP = d.PID_MAP
          /\ t.wait = d.wait /\ t.signal = d.signal
          /\ t.cononical = d.cononical /\ t.reader = d.reader
          /\ t.pgid = d.pgid /\ t.grp = d.grp /\ t.status = d.status
          /\ t.free = d.free /\ t.zombie = d.zombie \cup {p} /\ t.blocked = d.blocked
          /\ t.stat = d.stat /\ t.rax = d.rax
      BY <1>8, <3>1 DEF Kernel
    <3>3. t \in Kernel
      BY ZenonT(60), <1>1, <1>8, <3>1 DEF Kernel
    <3> QED BY <1>8, <2>2, <3>2, <3>3
  <2> QED BY <2>1, <2>2
<1>11. LiveOf(t) = LiveOf(s) \ {p}
  <2>1. t.free \cup t.zombie = s.free \cup s.zombie \cup {p}
    BY <1>10
  <2> QED BY <2>1 DEF LiveOf
<1>12. Ended(s, p, st, t)
  BY <1>4, <1>10, <1>11 DEF l, n, w, Ended
<1> QED BY <1>12 DEF t

\* After an exit the others form the ring, and no signal is pending for them.
LEMMA ExitSettled ==
  ASSUME NEW s, Core(s), QuietOthers(s), NEW st \in Status, s.CURRENT # IdleSlot(s)
  PROVE  /\ Settled(ProcessExit(s, s.CURRENT, st))
         /\ Ended(s, s.CURRENT, st, ProcessExit(s, s.CURRENT, st))
<1> DEFINE p == s.CURRENT
           t == ProcessExit(s, p, st)
<1>0. Ended(s, p, st, t)
  BY ExitFields
<1>1. PICK q \in LiveOf(s) \ {p} :
         /\ t \in Kernel /\ t.CURRENT = q /\ t.PROCESSES = q /\ ~t.hung
         /\ t.last = [s.last EXCEPT ![s.next[p]] = s.last[p]]
         /\ t.next = [s.next EXCEPT ![s.last[p]] = s.next[p]]
         /\ LiveOf(t) = LiveOf(s) \ {p}
         /\ t.blocked \subseteq s.blocked
         /\ t.COUNT = s.COUNT - 1
         /\ t.pid = s.pid /\ t.PID = s.PID /\ t.PID_MAP = s.PID_MAP
         /\ t.wait = s.wait /\ t.signal = s.signal
         /\ t.cononical = s.cononical /\ t.reader = s.reader
  <2> HIDE DEF t
  <2> QED BY <1>0 DEF Ended
<1> HIDE DEF t
<1>2. Linked(s) /\ LiveOf(s) \in SUBSET Slot /\ p \in LiveOf(s) /\ LiveOf(s) # {p}
  BY <1>1 DEF Core, OnCpu, Kernel, Linked, LiveOf
<1>3. Ring(t, LiveOf(t))
  BY <1>1, <1>2, UnlinkRing DEF Core
<1>4. t.COUNT = Cardinality(LiveOf(t))
  <2>1. IsFiniteSet(LiveOf(s))
    BY <1>2, SlotsFinite, FS_Subset
  <2>2. Cardinality(LiveOf(s) \ {p}) = Cardinality(LiveOf(s)) - 1
    BY <1>2, <2>1, FS_RemoveElement
  <2> QED BY <1>1, <2>2 DEF Core
<1>5. OnCpu(t) /\ PidsKnown(t) /\ IdleReady(t) /\ Waiters(t)
  BY <1>1 DEF Core, OnCpu, PidsKnown, IdleReady, IdleSlot, Waiters
<1>6. Quiet(t)
  BY <1>1 DEF QuietOthers, Quiet
<1> QED BY <1>0, <1>1, <1>3, <1>4, <1>5, <1>6 DEF Settled, Core, t

-----------------------------------------------------------------------------
(* What a handler does to processes, in terms of who lives, waits and has the CPU *)

\* Nobody starts or ends.
Known(s, t) == /\ LiveOf(t) = LiveOf(s) /\ t.pid = s.pid /\ t.PID = s.PID
               /\ t.PID_MAP = s.PID_MAP /\ t.free = s.free
SameWaits(s, t) == t.wait = s.wait /\ t.cononical = s.cononical /\ t.reader = s.reader
\* The caller is blocked and another process that can run has the CPU.
Yields(s, t) == /\ t.blocked = s.blocked \cup {s.CURRENT}
                /\ t.CURRENT \in LiveOf(t) \ t.blocked

\* Nobody is woken and nobody waits for anything new.
Stays(s, t) == /\ Known(s, t) /\ SameWaits(s, t) /\ s.blocked \subseteq t.blocked
               /\ t.CURRENT = s.CURRENT \/ t.CURRENT \in LiveOf(t) \ t.blocked
WaitsFor(s, p, t) == /\ Known(s, t) /\ Yields(s, t)
                     /\ t.wait = [s.wait EXCEPT ![p] = s.pid[s.CURRENT]]
                     /\ t.cononical = s.cononical /\ t.reader = s.reader /\ t.pgid = s.pgid
Reads(s, t) == /\ Known(s, t) /\ Yields(s, t) /\ t.wait = s.wait
               /\ t.cononical /\ t.reader = s.CURRENT
LineReady(s, t) == /\ Known(s, t) /\ t.wait = s.wait /\ t.CURRENT = s.CURRENT
                   /\ s.cononical /\ ~t.cononical /\ t.reader = s.reader
                   /\ t.blocked = s.blocked \ {s.reader}
Continues(s, p, t) == /\ Known(s, t) /\ SameWaits(s, t) /\ t.CURRENT = s.CURRENT
                      /\ t.blocked = s.blocked \ {p} /\ t.pgid = s.pgid
\* p is moved to group g.
Regroups(s, p, g, t) == /\ Stays(s, t) /\ t.pgid = [s.pgid EXCEPT ![p] = g]
Ends(s, t) == /\ LiveOf(t) = LiveOf(s) \ {s.CURRENT}
              /\ t.pid = s.pid /\ t.PID = s.PID /\ t.PID_MAP = s.PID_MAP /\ SameWaits(s, t)
              /\ t.CURRENT \in LiveOf(s) \ s.blocked /\ t.CURRENT # s.CURRENT
              /\ s.wait[s.CURRENT] # 0 => t.blocked = s.blocked \ {s.PID_MAP[s.wait[s.CURRENT]]}
              /\ s.wait[s.CURRENT] = 0 => t.blocked = s.blocked /\ t.free = s.free

\* The handlers other than fork, waitpid, SIGCONT and the change of a group.
Handled(s, t) == /\ t.pgid = s.pgid
                 /\ Stays(s, t) \/ Reads(s, t) \/ LineReady(s, t) \/ Ends(s, t)

\* check_signal leaves no signal behind, and does nothing when there is none.
LEMMA CheckQuiet ==
  ASSUME NEW s, Settled(s)
  PROVE  CheckSignal(s) = s
BY DEF Settled, Core, Quiet, OnCpu, CheckSignal

\* check_signal turns a state in which only CURRENT has a signal into a settled one.
LEMMA CheckSettles ==
  ASSUME NEW s, Core(s), QuietOthers(s), s.CURRENT # IdleSlot(s)
  PROVE  /\ Settled(CheckSignal(s)) /\ (Stays(s, CheckSignal(s)) \/ Ends(s, CheckSignal(s)))
         /\ s.signal[s.CURRENT] \in CoreSignals => Ended(s, s.CURRENT, "core", CheckSignal(s))
         /\ CheckSignal(s).pgid = s.pgid
<1> DEFINE p == s.CURRENT
           sig == s.signal[p]
<1>1. p \in LiveOf(s) /\ p \in Slot /\ ~s.hung /\ s \in Kernel
  BY DEF Core, OnCpu, LiveOf
<1>2. CASE sig = "SIGNONE"
  <2>1. Settled(s) /\ sig \notin CoreSignals
    BY <1>1, <1>2 DEF Settled, Quiet, QuietOthers, CoreSignals
  <2> QED BY <2>1, CheckQuiet DEF Stays, Known, SameWaits
<1>3. ASSUME NEW st \in Status,
             CheckSignal(s) = [ProcessExit(s, p, st) EXCEPT
                                 !.signal[ProcessExit(s, p, st).CURRENT] = "SIGNONE"]
      PROVE  /\ Settled(CheckSignal(s)) /\ Ends(s, CheckSignal(s)) /\ Ended(s, p, st, CheckSignal(s))
             /\ CheckSignal(s).pgid = s.pgid
  <2> DEFINE t == ProcessExit(s, p, st)
  <2>1. Settled(t) /\ Ended(s, p, st, t)
    BY <1>3, ExitSettled
  <2>2. t.signal[t.CURRENT] = "SIGNONE" /\ t \in Kernel
    BY <2>1 DEF Settled, Quiet, Core, OnCpu
  <2>3. [t EXCEPT !.signal[t.CURRENT] = "SIGNONE"] = t
    BY <2>2 DEF Kernel
  <2>4. Ends(s, t) /\ t.pgid = s.pgid
    <3> HIDE DEF t
    <3> QED BY <2>1 DEF Ended, Ends, SameWaits
  <2> QED BY <1>3, <2>1, <2>3, <2>4
<1>4. CASE sig \in CoreSignals
  <2>1. CheckSignal(s) = [ProcessExit(s, p, "core") EXCEPT
                            !.signal[ProcessExit(s, p, "core").CURRENT] = "SIGNONE"]
    BY <1>1, <1>4 DEF CheckSignal, CoreSignals, TermSignals
  <2> QED BY <1>3, <2>1 DEF Status
<1>5. CASE sig \in TermSignals
  <2>1. CheckSignal(s) = [ProcessExit(s, p, "signal") EXCEPT
                            !.signal[ProcessExit(s, p, "signal").CURRENT] = "SIGNONE"]
    BY <1>1, <1>5 DEF CheckSignal, CoreSignals, TermSignals
  <2>2. sig \notin CoreSignals
    BY <1>5 DEF CoreSignals, TermSignals
  <2> QED BY <1>3, <2>1, <2>2 DEF Status
<1>6. CASE sig \notin CoreSignals \cup TermSignals /\ sig # "SIGNONE"
  <2> DEFINE t == [s EXCEPT !.signal[p] = "SIGNONE"]
  <2>1. CheckSignal(s) = t
    BY <1>1, <1>6 DEF CheckSignal
  <2>2. /\ LiveOf(t) = LiveOf(s) /\ t.signal = [s.signal EXCEPT ![p] = "SIGNONE"]
        /\ t.wait = s.wait /\ t.cononical = s.cononical /\ t.reader = s.reader
        /\ t.blocked = s.blocked /\ t.pgid = s.pgid
    BY <1>1 DEF Kernel, LiveOf
  <2>3. SameRing(s, t)
    BY <1>1 DEF Kernel, SameRing
  <2> HIDE DEF t
  <2>4. Waiters(t) /\ IdleSlot(s) \notin t.blocked
    BY <2>2, <2>3 DEF Core, IdleReady, Waiters, SameRing
  <2>5. Core(t)
    BY <2>3, <2>4, CoreFrame
  <2>6. Quiet(t)
    BY <1>1, <2>2 DEF Quiet, QuietOthers, Kernel
  <2>7. Stays(s, t)
    BY <2>2, <2>3 DEF Stays, Known, SameWaits, SameRing
  <2> QED BY <1>6, <2>1, <2>2, <2>5, <2>6, <2>7 DEF Settled, t
<1> QED BY <1>2, <1>4, <1>5, <1>6

-----------------------------------------------------------------------------
(* The handlers *)

\* A handler that leaves alone what Core and Quiet are about.
LEMMA SettledFrame ==
  ASSUME NEW s, NEW t, Settled(s), SameRing(s, t), t.signal = s.signal,
         IdleSlot(s) \notin t.blocked, Waiters(t)
  PROVE  Settled(t)
<1>1. Core(t)
  BY CoreFrame DEF Settled
<1>2. Quiet(t)
  BY DEF Settled, Quiet, LiveOf, SameRing
<1> QED BY <1>1, <1>2 DEF Settled

\* What Settled says of the process on the CPU.
LEMMA SettledCurrent ==
  ASSUME NEW s, Settled(s)
  PROVE  /\ s \in Kernel /\ s.CURRENT \in Slot /\ s.CURRENT \in LiveOf(s)
         /\ s.pid[s.CURRENT] \in Pid /\ Waiters(s)
         /\ IdleSlot(s) \in LiveOf(s) \ s.blocked /\ IdleSlot(s) \in Slot
         /\ s.pid[s.CURRENT] # 1 => s.CURRENT # IdleSlot(s)
BY DEF Settled, Core, OnCpu, LiveOf, IdleReady, Kernel

\* process_signal followed by check_signal.
LEMMA SignalSettled ==
  ASSUME NEW s, Settled(s), s.CURRENT # IdleSlot(s), NEW p \in Slot,
         NEW sig \in Signals \ {"SIGKILL"}, sig \in StopSignals => p # IdleSlot(s)
  PROVE  /\ Settled(CheckSignal(Signal(s, p, sig)))
         /\ sig # "SIGCONT" => Handled(s, CheckSignal(Signal(s, p, sig)))
         /\ sig = "SIGCONT" => Continues(s, p, CheckSignal(Signal(s, p, sig)))
<1> DEFINE t == Signal(s, p, sig)
<1>1. s \in Kernel /\ s.CURRENT \in Slot /\ IdleSlot(s) \notin s.blocked /\ Waiters(s)
  BY SettledCurrent
<1>2. CASE sig = "SIGCONT"
  <2>1. t = [s EXCEPT !.blocked = @ \ {p}]
    BY <1>2 DEF Signal, Unblock, StopSignals
  <2>2. Settled(t)
    <3>1. SameRing(s, t) /\ t.signal = s.signal /\ IdleSlot(s) \notin t.blocked
      BY SMTT(40), <1>1, <2>1 DEF Kernel, SameRing
    <3>2. Waiters(t)
      BY <1>1, <2>1 DEF Kernel, Waiters
    <3> QED BY <3>1, <3>2, SettledFrame
  <2>3. Continues(s, p, t)
    BY <1>1, <2>1 DEF Kernel, Continues, Known, SameWaits, LiveOf
  <2> QED BY <1>2, <2>2, <2>3, CheckQuiet
<1>3. CASE sig \in StopSignals
  <2>1. t = [s EXCEPT !.blocked = @ \cup {p}]
    BY <1>3 DEF Signal, Block, StopSignals
  <2>2. Settled(t)
    <3>0. p # IdleSlot(s)
      BY <1>3
    <3>1. SameRing(s, t) /\ t.signal = s.signal /\ t.blocked = s.blocked \cup {p}
      <4> HIDE DEF t
      <4> QED BY <1>1, <2>1 DEF Kernel, SameRing
    <3>2. Waiters(t)
      BY <1>1, <2>1 DEF Kernel, Waiters
    <3>3. IdleSlot(s) \notin t.blocked
      BY <1>1, <3>0, <3>1
    <3> QED BY <3>1, <3>2, <3>3, SettledFrame
  <2>3. Stays(s, t) /\ t.pgid = s.pgid
    BY <1>1, <2>1 DEF Kernel, Stays, Known, SameWaits, LiveOf
  <2>4. sig # "SIGCONT"
    BY <1>3 DEF StopSignals
  <2> QED BY <2>2, <2>3, <2>4, CheckQuiet DEF Handled
<1>4. CASE sig \notin StopSignals \cup {"SIGCONT"}
  <2>1. t = [s EXCEPT !.signal[s.CURRENT] = sig]
    BY <1>4 DEF Signal
  <2>2. /\ SameRing(s, t) /\ t.blocked = s.blocked /\ t.wait = s.wait
        /\ t.cononical = s.cononical /\ t.reader = s.reader
        /\ t.signal = [s.signal EXCEPT ![s.CURRENT] = sig] /\ t.pgid = s.pgid
    <3> HIDE DEF t
    <3>1. sig \in Signals \cup {"SIGNONE"}
      OBVIOUS
    <3> QED BY <1>1, <2>1, <3>1 DEF Kernel, SameRing
  <2> HIDE DEF t
  <2>3. Core(t)
    <3>1. Waiters(t)
      BY <1>1, <2>2 DEF Waiters, SameRing
    <3> QED BY <1>1, <2>2, <3>1, CoreFrame DEF Settled
  <2>4. QuietOthers(t)
    BY <1>1, <2>2 DEF Settled, Quiet, QuietOthers, LiveOf, Kernel, SameRing
  <2>5. t.CURRENT # IdleSlot(t)
    BY <2>2 DEF IdleSlot, SameRing
  <2> DEFINE u == CheckSignal(t)
  <2>6. Settled(u) /\ (Stays(t, u) \/ Ends(t, u)) /\ u.pgid = t.pgid
    BY <2>3, <2>4, <2>5, CheckSettles
  <2> HIDE DEF u
  <2>7. LiveOf(t) = LiveOf(s)
    BY <2>2 DEF LiveOf, SameRing
  <2>8. Stays(s, u) \/ Ends(s, u)
    BY <2>2, <2>6, <2>7 DEF Stays, Ends, Known, SameWaits, SameRing
  <2>9. u.pgid = s.pgid
    BY <2>2, <2>6
  <2> QED BY <1>4, <2>6, <2>8, <2>9 DEF t, u, Handled
<1> QED BY <1>2, <1>3, <1>4

\* A null pointer read in a handler.
LEMMA FaultSettled ==
  ASSUME NEW s, Settled(s), s.CURRENT # IdleSlot(s)
  PROVE  Settled(CheckSignal(Fault(s))) /\ Handled(s, CheckSignal(Fault(s)))
<1>1. "SIGSEGV" \in Signals \ {"SIGKILL"} /\ "SIGSEGV" \notin StopSignals
  BY DEF Signals, CoreSignals, StopSignals
<1> QED BY <1>1, SignalSettled, SettledCurrent DEF Fault

\* The switch to a process that can run.
LEMMA SwitchTo ==
  ASSUME NEW s, Core(s)
  PROVE  \E q \in LiveOf(s) \ s.blocked : Switch(s) = [s EXCEPT !.PROCESSES = q, !.CURRENT = q]
<1>1. PICK q \in LiveOf(s) \ s.blocked : NextProcess(s) = [s EXCEPT !.PROCESSES = q]
  BY NextFound DEF Core, OnCpu
<1> QED BY <1>1 DEF Switch, Core, Kernel

\* The timer interrupt.
LEMMA SwitchSettled ==
  ASSUME NEW s, Settled(s)
  PROVE  /\ Settled(CheckSignal(Switch(s))) /\ CheckSignal(Switch(s)) = Switch(s)
         /\ Stays(s, Switch(s)) /\ Switch(s).pgid = s.pgid
<1>1. Settled(Switch(s))
  BY SwitchCore DEF Settled, Quiet
<1>2. PICK q \in LiveOf(s) \ s.blocked : Switch(s) = [s EXCEPT !.PROCESSES = q, !.CURRENT = q]
  BY SwitchTo DEF Settled
<1>3. Stays(s, Switch(s)) /\ Switch(s).pgid = s.pgid
  BY <1>2 DEF Settled, Core, Kernel, Stays, Known, SameWaits, LiveOf
<1> QED BY <1>1, <1>3, CheckQuiet

\* A call that blocks its caller.
LEMMA BlockSettled ==
  ASSUME NEW s, Settled(s), s.CURRENT # IdleSlot(s)
  PROVE  /\ Settled(CheckSignal(BlockCurrent(s))) /\ CheckSignal(BlockCurrent(s)) = BlockCurrent(s)
         /\ \E q \in LiveOf(s) \ s.blocked : q # s.CURRENT /\
              BlockCurrent(s) = [s EXCEPT !.blocked = @ \cup {s.CURRENT},
                                          !.PROCESSES = q, !.CURRENT = q]
         /\ Known(s, BlockCurrent(s)) /\ Yields(s, BlockCurrent(s)) /\ SameWaits(s, BlockCurrent(s))
         /\ BlockCurrent(s).pgid = s.pgid
<1> DEFINE t == [s EXCEPT !.blocked = @ \cup {s.CURRENT}]
<1>1. Settled(t)
  <2>1. s \in Kernel /\ s.CURRENT \in Slot /\ IdleSlot(s) \notin s.blocked /\ Waiters(s)
    BY SettledCurrent
  <2>2. SameRing(s, t) /\ t.signal = s.signal /\ IdleSlot(s) \notin t.blocked
    BY <2>1 DEF Kernel, SameRing
  <2>3. Waiters(t)
    BY <2>1 DEF Kernel, Waiters
  <2> QED BY <2>2, <2>3, SettledFrame
<1>2. BlockCurrent(s) = Switch(t)
  BY DEF BlockCurrent, Block
<1>3. Settled(Switch(t)) /\ CheckSignal(Switch(t)) = Switch(t)
  BY <1>1, SwitchSettled
<1>4. PICK q \in LiveOf(t) \ t.blocked : Switch(t) = [t EXCEPT !.PROCESSES = q, !.CURRENT = q]
  BY <1>1, SwitchTo DEF Settled
<1>5. LiveOf(t) = LiveOf(s) /\ t.blocked = s.blocked \cup {s.CURRENT}
  BY DEF Settled, Core, Kernel, LiveOf
<1>6. Switch(t) = [s EXCEPT !.blocked = @ \cup {s.CURRENT}, !.PROCESSES = q, !.CURRENT = q]
  BY <1>4 DEF Settled, Core, Kernel
<1> HIDE DEF t
<1>7. /\ Known(s, Switch(t)) /\ Yields(s, Switch(t)) /\ SameWaits(s, Switch(t))
      /\ Switch(t).pgid = s.pgid
  <2> DEFINE u == Switch(t)
  <2>1. /\ u.blocked = s.blocked \cup {s.CURRENT} /\ u.CURRENT = q /\ u.pid = s.pid
        /\ u.PID = s.PID /\ u.PID_MAP = s.PID_MAP /\ u.free = s.free /\ u.zombie = s.zombie
        /\ u.wait = s.wait /\ u.cononical = s.cononical /\ u.reader = s.reader
        /\ u.pgid = s.pgid
    BY <1>6 DEF Settled, Core, Kernel
  <2> HIDE DEF u
  <2>2. LiveOf(u) = LiveOf(s)
    BY <2>1 DEF LiveOf
  <2>3. Known(s, u) /\ Yields(s, u) /\ SameWaits(s, u)
    BY <1>4, <1>5, <2>1, <2>2 DEF Known, Yields, SameWaits
  <2> QED BY <2>1, <2>3 DEF u
<1> QED BY <1>2, <1>3, <1>4, <1>5, <1>6, <1>7

\* sys_waitpid: no such process, a zombie, or a wait.
LEMMA WaitpidSettled ==
  ASSUME NEW s, Settled(s), s.CURRENT # IdleSlot(s), NEW pid \in Pid
  PROVE  /\ Settled(CheckSignal(Waitpid(s, pid)))
         /\ \/ Handled(s, CheckSignal(Waitpid(s, pid)))
            \/ \E p \in Slot : WaitsFor(s, p, CheckSignal(Waitpid(s, pid)))
<1> DEFINE p == s.PID_MAP[pid]
           c == s.CURRENT
<1>1. s \in Kernel /\ c \in Slot /\ c \in LiveOf(s) /\ Waiters(s) /\ IdleSlot(s) \notin s.blocked
  BY SettledCurrent
<1>2. CASE p = NULL
  <2>1. Waitpid(s, pid) = Fault(s)
    BY <1>1, <1>2, NullIsNoSlot DEF Waitpid, Kernel
  <2> QED BY <2>1, FaultSettled
<1>3. CASE p \in s.zombie
  <2> DEFINE t == [s EXCEPT !.stat[c] = s.status[p], !.rax[c] = s.pid[p]]
  <2>1. Waitpid(s, pid) = t
    BY <1>1, <1>3, NullIsNoSlot DEF Waitpid, Kernel
  <2>2. Settled(t)
    <3>1. p \in Slot /\ s.status[p] \in Status /\ s.pid[p] \in Pid
      BY <1>1, <1>3 DEF Kernel
    <3>2. SameRing(s, t) /\ t.signal = s.signal /\ IdleSlot(s) \notin t.blocked
      BY <1>1, <3>1 DEF Kernel, SameRing
    <3>3. Waiters(t)
      BY <1>1 DEF Kernel, Waiters
    <3> QED BY <3>2, <3>3, SettledFrame
  <2>3. Stays(s, t) /\ t.pgid = s.pgid
    BY <1>1 DEF Kernel, Stays, Known, SameWaits, LiveOf
  <2> QED BY <2>1, <2>2, <2>3, CheckQuiet DEF Handled
<1>4. CASE p \notin s.zombie \cup {NULL}
  <2> DEFINE t == [s EXCEPT !.wait[p] = s.pid[c]]
  <2>1. Waitpid(s, pid) = BlockCurrent(t)
    BY <1>4 DEF Waitpid
  <2>2. /\ p \in Slot /\ SameRing(s, t) /\ t.signal = s.signal /\ t.blocked = s.blocked
        /\ t.wait = [s.wait EXCEPT ![p] = s.pid[c]]
        /\ t.cononical = s.cononical /\ t.reader = s.reader /\ t.pgid = s.pgid
    BY <1>1, <1>4 DEF Kernel, SameRing
  <2> HIDE DEF t
  <2>3. s.PID_MAP[s.pid[c]] = c
    BY <1>1 DEF Settled, Core, PidsKnown
  <2>4. Waiters(t)
    BY <1>1, <2>2, <2>3 DEF Waiters, Kernel, SameRing
  <2>5. Settled(t)
    BY <1>1, <2>2, <2>4, SettledFrame
  <2>6. t.CURRENT # IdleSlot(t)
    BY <2>2 DEF IdleSlot, SameRing
  <2> DEFINE u == BlockCurrent(t)
  <2>7. /\ Settled(u) /\ CheckSignal(u) = u /\ Known(t, u) /\ Yields(t, u) /\ SameWaits(t, u)
        /\ u.pgid = t.pgid
    BY <2>5, <2>6, BlockSettled
  <2> HIDE DEF u
  <2>8. LiveOf(t) = LiveOf(s)
    BY <2>2 DEF LiveOf, SameRing
  <2>9. WaitsFor(s, p, u)
    BY <2>2, <2>7, <2>8 DEF WaitsFor, Known, Yields, SameWaits, SameRing
  <2> QED BY <2>1, <2>2, <2>7, <2>9 DEF u
<1> QED BY <1>2, <1>3, <1>4

\* sys_input: SIGTTIN to a background process, or a wait for the line.
LEMMA InputSettled ==
  ASSUME NEW s, Settled(s), s.CURRENT # IdleSlot(s)
  PROVE  Settled(CheckSignal(Input(s))) /\ Handled(s, CheckSignal(Input(s)))
<1>1. s \in Kernel /\ s.CURRENT \in Slot /\ Waiters(s) /\ IdleSlot(s) \notin s.blocked
  BY SettledCurrent
<1>2. CASE s.grp # s.pgid[s.CURRENT]
  <2>1. "SIGTTIN" \in Signals \ {"SIGKILL"} /\ "SIGTTIN" # "SIGCONT"
    BY DEF Signals, StopSignals
  <2> QED BY <1>1, <1>2, <2>1, SignalSettled DEF Input
<1>3. CASE s.grp = s.pgid[s.CURRENT]
  <2> DEFINE t == [s EXCEPT !.cononical = TRUE, !.reader = s.CURRENT]
  <2>1. Settled(t)
    <3>1. SameRing(s, t) /\ t.signal = s.signal /\ IdleSlot(s) \notin t.blocked
      BY <1>1 DEF Kernel, SameRing
    <3>2. Waiters(t)
      BY <1>1 DEF Kernel, Waiters
    <3> QED BY <3>1, <3>2, SettledFrame
  <2>2. t.CURRENT # IdleSlot(t)
    BY <1>1 DEF Kernel, IdleSlot
  <2> DEFINE u == BlockCurrent(t)
  <2>3. /\ Settled(u) /\ CheckSignal(u) = u /\ Known(t, u) /\ Yields(t, u) /\ SameWaits(t, u)
        /\ u.pgid = t.pgid
    BY <2>1, <2>2, BlockSettled
  <2>4. /\ Known(s, t) /\ t.blocked = s.blocked /\ t.wait = s.wait /\ t.cononical
        /\ t.reader = s.CURRENT /\ t.CURRENT = s.CURRENT /\ t.pgid = s.pgid
    BY <1>1 DEF Kernel, Known, LiveOf
  <2> HIDE DEF t, u
  <2>5. Reads(s, u) /\ u.pgid = s.pgid
    BY <2>3, <2>4 DEF Reads, Known, Yields, SameWaits
  <2> QED BY <1>3, <2>3, <2>5 DEF Input, t, u, Handled
<1> QED BY <1>2, <1>3

\* sys_write: SIGTTOU to a background process.
LEMMA WriteSettled ==
  ASSUME NEW s, Settled(s), s.CURRENT # IdleSlot(s)
  PROVE  Settled(CheckSignal(Write(s))) /\ Handled(s, CheckSignal(Write(s)))
<1>1. "SIGTTOU" \in Signals \ {"SIGKILL"} /\ "SIGTTOU" # "SIGCONT"
  BY DEF Signals, StopSignals
<1>2. CASE s.grp # s.pgid[s.CURRENT]
  BY <1>1, <1>2, SettledCurrent, SignalSettled DEF Write
<1>3. CASE s.grp = s.pgid[s.CURRENT]
  BY <1>3, CheckQuiet DEF Write, Handled, Stays, Known, SameWaits
<1> QED BY <1>2, <1>3

\* sys_kill with the arguments Deployment allows.
LEMMA KillSettled ==
  ASSUME NEW s, NEW groups, Settled(s), s.CURRENT # IdleSlot(s),
         NEW pid \in Int, NEW sig \in Signals, SafeKill(pid, sig)
  PROVE  /\ Settled(CheckSignal(Kill(s, groups, pid, sig)))
         /\ \/ Handled(s, CheckSignal(Kill(s, groups, pid, sig)))
            \/ sig = "SIGCONT" /\ \E p \in Slot : Continues(s, p, CheckSignal(Kill(s, groups, pid, sig)))
<1>1. s \in Kernel
  BY SettledCurrent
<1>2. CASE pid \notin Pid \/ s.PID_MAP[pid] = NULL
  <2>1. Kill(s, groups, pid, sig) = Fault(s)
    BY <1>2 DEF Kill, SafeKill
  <2> QED BY <2>1, FaultSettled
<1>3. CASE pid \in Pid /\ s.PID_MAP[pid] # NULL
  <2>1. Kill(s, groups, pid, sig) = Signal(s, s.PID_MAP[pid], sig)
    BY <1>3 DEF Kill, SafeKill
  <2>2. s.PID_MAP[pid] \in Slot
    BY <1>1, <1>3 DEF Kernel
  <2>3. sig \in StopSignals => s.PID_MAP[pid] # IdleSlot(s)
    BY <1>3 DEF SafeKill, Settled, Core, IdleReady
  <2> QED BY <2>1, <2>2, <2>3, SignalSettled DEF SafeKill
<1> QED BY <1>2, <1>3

\* The end of a line wakes the reader, which is never the null pointer.
LEMMA NewlineSettled ==
  ASSUME NEW s, Settled(s), s.cononical
  PROVE  Settled(CheckSignal(Newline(s))) /\ Handled(s, CheckSignal(Newline(s)))
<1> DEFINE t == [s EXCEPT !.cononical = FALSE, !.blocked = @ \ {s.reader}]
<1>1. s \in Kernel /\ IdleSlot(s) \notin s.blocked /\ Waiters(s)
  BY SettledCurrent
<1>2. Newline(s) = t
  BY <1>1 DEF Newline, Unblock, Kernel
<1>3. Settled(t)
  <2>1. SameRing(s, t) /\ t.signal = s.signal /\ IdleSlot(s) \notin t.blocked
    BY <1>1 DEF Kernel, SameRing
  <2>2. Waiters(t)
    BY <1>1 DEF Kernel, Waiters
  <2> QED BY <2>1, <2>2, SettledFrame
<1>4. LineReady(s, t) /\ t.pgid = s.pgid
  BY <1>1 DEF Kernel, LineReady, Known, LiveOf
<1> QED BY <1>2, <1>3, <1>4, CheckQuiet DEF Handled

-----------------------------------------------------------------------------
(* fork, and the start of the system *)

\* t is s after the process on the CPU forked a child into slot c.
Forked(s, c, t) ==
  LET p == s.CURRENT
  IN  /\ t \in Kernel
      /\ t.last = [s.last EXCEPT ![s.next[p]] = c, ![c] = p]
      /\ t.next = [s.next EXCEPT ![c] = s.next[p], ![p] = c]
      /\ LiveOf(t) = LiveOf(s) \cup {c}
      /\ t.blocked = s.blocked \ {c}
      /\ t.pid = [s.pid EXCEPT ![c] = s.PID]
      /\ t.wait = [s.wait EXCEPT ![c] = 0]
      /\ t.signal = [s.signal EXCEPT ![c] = "SIGNONE"]
      /\ t.PID = s.PID + 1
      /\ t.PID_MAP = [s.PID_MAP EXCEPT ![s.PID] = c]
      /\ t.COUNT = s.COUNT + 1
      /\ t.CURRENT = c /\ t.PROCESSES = c
      /\ t.hung = s.hung /\ t.cononical = s.cononical /\ t.reader = s.reader
      /\ t.free = s.free \ {c} /\ t.zombie = s.zombie \ {c} /\ t.grp = s.grp
      /\ t.pgid = [s.pgid EXCEPT ![c] = s.pgid[p]]
      /\ t.rax = [s.rax EXCEPT ![c] = 0, ![p] = s.PID]
      /\ t.status = [s.status EXCEPT ![c] = s.status[p]]
      /\ t.stat = [s.stat EXCEPT ![c] = s.stat[p]]

\* process_fork, as long as a process is on the CPU and a pid is left.
LEMMA ForkFields ==
  ASSUME NEW s \in Kernel, NEW c \in s.free, s.PID \in Pid, s.CURRENT = s.PROCESSES,
         s.CURRENT \in LiveOf(s)
  PROVE  Forked(s, c, ProcessFork(s, c))
<1> DEFINE p == s.CURRENT
           d == [s EXCEPT !.free = @ \ {c},
                          !.pid[c] = s.PID,
                          !.PID = @ + 1,
                          !.pgid[c] = s.pgid[p],
                          !.wait[c] = 0,
                          !.status[c] = s.status[p],
                          !.stat[c] = s.stat[p],
                          !.rax = [@ EXCEPT ![c] = 0, ![p] = s.PID],
                          !.blocked = @ \ {c},
                          !.zombie = @ \ {c},
                          !.signal[c] = "SIGNONE",
                          !.next[c] = s.next[p],
                          !.last[c] = s.last[p]]
           e == Schedule(d, c)
           t == ProcessFork(s, c)
<1>1. /\ p \in Slot /\ c \in Slot /\ c # p /\ p # NULL /\ 0 \in Pid
      /\ s.PID + 1 \in 0..MaxPid + 1 /\ s.COUNT + 1 \in Int
  <2>1. p \in Slot /\ c \in Slot /\ c # p /\ p # NULL /\ s.COUNT \in Int
    BY NullIsNoSlot DEF LiveOf, Kernel
  <2>2. 0 \in Pid /\ s.PID + 1 \in 0..MaxPid + 1
    BY MaxPidAssumption DEF Pid
  <2> QED BY <2>1, <2>2
<1>2. /\ d \in Kernel
      /\ d.last = [s.last EXCEPT ![c] = s.last[p]]
      /\ d.next = [s.next EXCEPT ![c] = s.next[p]]
      /\ d.free = s.free \ {c} /\ d.zombie = s.zombie \ {c}
      /\ d.blocked = s.blocked \ {c}
      /\ d.pid = [s.pid EXCEPT ![c] = s.PID]
      /\ d.wait = [s.wait EXCEPT ![c] = 0]
      /\ d.signal = [s.signal EXCEPT ![c] = "SIGNONE"]
      /\ d.PID = s.PID + 1 /\ d.PID_MAP = s.PID_MAP /\ d.COUNT = s.COUNT
      /\ d.PROCESSES = p
      /\ d.hung = s.hung /\ d.cononical = s.cononical /\ d.reader = s.reader
      /\ d.pgid = [s.pgid EXCEPT ![c] = s.pgid[p]] /\ d.grp = s.grp
      /\ d.rax = [s.rax EXCEPT ![c] = 0, ![p] = s.PID]
      /\ d.status = [s.status EXCEPT ![c] = s.status[p]]
      /\ d.stat = [s.stat EXCEPT ![c] = s.stat[p]]
  <2>1. d \in Kernel
    <3> DEFINE fpid == [s.pid EXCEPT ![c] = s.PID]
               fpgid == [s.pgid EXCEPT ![c] = s.pgid[p]]
               fwait == [s.wait EXCEPT ![c] = 0]
               fstatus == [s.status EXCEPT ![c] = s.status[p]]
               fstat == [s.stat EXCEPT ![c] = s.stat[p]]
               frax == [s.rax EXCEPT ![c] = 0, ![p] = s.PID]
               fsignal == [s.signal EXCEPT ![c] = "SIGNONE"]
               fnext == [s.next EXCEPT ![c] = s.next[p]]
               flast == [s.last EXCEPT ![c] = s.last[p]]
    <3>1. /\ fpid \in [Slot -> Pid] /\ fpgid \in [Slot -> Pid] /\ fwait \in [Slot -> Pid]
          /\ frax \in [Slot -> Pid]
      BY <1>1 DEF Kernel
    <3>2. /\ fstatus \in [Slot -> Status] /\ fstat \in [Slot -> Status]
          /\ fsignal \in [Slot -> Signals \cup {"SIGNONE"}]
          /\ fnext \in [Slot -> Slot] /\ flast \in [Slot -> Slot]
      BY <1>1 DEF Kernel
    <3>3. d = [s EXCEPT !.free = s.free \ {c}, !.pid = fpid, !.PID = s.PID + 1,
                        !.pgid = fpgid, !.wait = fwait, !.status = fstatus,
                        !.stat = fstat, !.rax = frax, !.blocked = s.blocked \ {c},
                        !.zombie = s.zombie \ {c}, !.signal = fsignal,
                        !.next = fnext, !.last = flast]
      OBVIOUS
    <3> HIDE DEF d, fpid, fpgid, fwait, fstatus, fstat, frax, fsignal, fnext, flast
    <3> QED BY ZenonT(60), <1>1, <3>1, <3>2, <3>3 DEF Kernel
  <2>2. /\ d.last = [s.last EXCEPT ![c] = s.last[p]]
        /\ d.next = [s.next EXCEPT ![c] = s.next[p]]
        /\ d.free = s.free \ {c} /\ d.zombie = s.zombie \ {c}
        /\ d.blocked = s.blocked \ {c}
        /\ d.pid = [s.pid EXCEPT ![c] = s.PID]
    BY <1>1 DEF Kernel
  <2>3. /\ d.wait = [s.wait EXCEPT ![c] = 0]
        /\ d.signal = [s.signal EXCEPT ![c] = "SIGNONE"]
        /\ d.PID = s.PID + 1 /\ d.PID_MAP = s.PID_MAP /\ d.COUNT = s.COUNT
        /\ d.PROCESSES = p
        /\ d.hung = s.hung /\ d.cononical = s.cononical /\ d.reader = s.reader
    BY ZenonT(60), <1>1 DEF Kernel
  <2>4. /\ d.pgid = [s.pgid EXCEPT ![c] = s.pgid[p]] /\ d.grp = s.grp
        /\ d.rax = [s.rax EXCEPT ![c] = 0, ![p] = s.PID]
        /\ d.status = [s.status EXCEPT ![c] = s.status[p]]
        /\ d.stat = [s.stat EXCEPT ![c] = s.stat[p]]
    BY ZenonT(60), <1>1 DEF Kernel
  <2> QED BY <2>1, <2>2, <2>3, <2>4
<1>3. t = [e EXCEPT !.CURRENT = e.PROCESSES]
  BY DEF ProcessFork
<1> HIDE DEF d
<1> DEFINE l == [d.last EXCEPT ![d.next[p]] = c, ![c] = p]
           n == [d.next EXCEPT ![c] = d.next[p], ![p] = c]
           m == [d.PID_MAP EXCEPT ![s.PID] = c]
<1>4. e = [d EXCEPT !.PID_MAP = m, !.COUNT = s.COUNT + 1, !.PROCESSES = c,
                    !.last = l, !.next = n]
  <2>1. d.pid[c] = s.PID /\ d.PROCESSES # NULL
    BY <1>1, <1>2 DEF Kernel
  <2> QED BY <1>1, <1>2, <2>1 DEF Schedule, Kernel
<1>a. /\ d.last \in [Slot -> Slot] /\ d.next \in [Slot -> Slot]
      /\ s.last \in [Slot -> Slot] /\ s.next \in [Slot -> Slot]
      /\ s.PID_MAP \in [Pid -> Slot \cup {NULL}]
  BY <1>2 DEF Kernel
<1>5. l \in [Slot -> Slot] /\ n \in [Slot -> Slot] /\ m \in [Pid -> Slot \cup {NULL}]
  <2>1. m \in [Pid -> Slot \cup {NULL}]
    BY <1>1, <1>2, <1>a
  <2> QED BY <1>1, <1>a, <2>1
<1>6. /\ l = [s.last EXCEPT ![s.next[p]] = c, ![c] = p]
      /\ n = [s.next EXCEPT ![c] = s.next[p], ![p] = c]
      /\ m = [s.PID_MAP EXCEPT ![s.PID] = c]
  <2>1. d.next[p] = s.next[p] /\ d.next[c] = s.next[p] /\ s.next[p] \in Slot
    BY <1>1, <1>2, <1>a
  <2>2. m = [s.PID_MAP EXCEPT ![s.PID] = c]
    BY <1>2
  <2>3. l = [s.last EXCEPT ![s.next[p]] = c, ![c] = p]
    BY <1>1, <1>2, <1>a, <2>1
  <2>4. n = [s.next EXCEPT ![c] = s.next[p], ![p] = c]
    BY <1>1, <1>2, <1>a, <2>1
  <2> QED BY <2>2, <2>3, <2>4
<1> HIDE DEF e, l, n, m
<1>7. /\ t \in Kernel /\ t.last = l /\ t.next = n /\ t.PID_MAP = m
      /\ t.free = d.free /\ t.zombie = d.zombie /\ t.blocked = d.blocked
      /\ t.pid = d.pid /\ t.wait = d.wait /\ t.signal = d.signal /\ t.PID = d.PID
      /\ t.COUNT = s.COUNT + 1 /\ t.CURRENT = c /\ t.PROCESSES = c
      /\ t.hung = d.hung /\ t.cononical = d.cononical /\ t.reader = d.reader
      /\ t.pgid = d.pgid /\ t.grp = d.grp /\ t.rax = d.rax /\ t.status = d.status /\ t.stat = d.stat
  <2>1. t = [d EXCEPT !.PID_MAP = m, !.COUNT = s.COUNT + 1, !.PROCESSES = c,
                      !.last = l, !.next = n, !.CURRENT = c]
    BY <1>2, <1>3, <1>4 DEF Kernel
  <2> HIDE DEF t
  <2> QED BY <1>1, <1>2, <1>5, <2>1 DEF Kernel
<1>8. LiveOf(t) = LiveOf(s) \cup {c}
  BY <1>1, <1>2, <1>7 DEF LiveOf
<1> HIDE DEF t
<1>9. Forked(s, c, t)
  BY <1>2, <1>6, <1>7, <1>8 DEF Forked
<1> QED BY <1>9 DEF t

\* The ring and the counter after a fork.
LEMMA ForkRing ==
  ASSUME NEW s \in Kernel, NEW c \in s.free, s.PID \in Pid, s.CURRENT = s.PROCESSES,
         s.CURRENT \in LiveOf(s), Ring(s, LiveOf(s)), s.COUNT = Cardinality(LiveOf(s))
  PROVE  LET t == ProcessFork(s, c)
         IN  Ring(t, LiveOf(t)) /\ t.COUNT = Cardinality(LiveOf(t))
<1> DEFINE t == ProcessFork(s, c)
           p == s.CURRENT
<1>1. Forked(s, c, t)
  BY ForkFields
<1> HIDE DEF t
<1>2. Linked(s) /\ LiveOf(s) \in SUBSET Slot /\ c \in Slot \ LiveOf(s)
  BY DEF Linked, Kernel, LiveOf
<1>3. Ring(t, LiveOf(s) \cup {c})
  <2>1. /\ t.last = [s.last EXCEPT ![s.next[p]] = c, ![c] = p]
        /\ t.next = [s.next EXCEPT ![c] = s.next[p], ![p] = c]
    BY <1>1 DEF Forked
  <2> QED BY <1>2, <2>1, LinkRing
<1>4. Cardinality(LiveOf(s) \cup {c}) = Cardinality(LiveOf(s)) + 1
  <2>1. IsFiniteSet(LiveOf(s))
    BY <1>2, SlotsFinite, FS_Subset
  <2> QED BY <1>2, <2>1, FS_AddElement
<1> QED BY <1>1, <1>3, <1>4 DEF t, Forked

\* sys_fork: the child joins the ring and has the CPU.
LEMMA ForkSettled ==
  ASSUME NEW s, Settled(s), NEW c \in s.free, s.PID <= MaxPid
  PROVE  Settled(ProcessFork(s, c)) /\ Forked(s, c, ProcessFork(s, c))
<1> DEFINE t == ProcessFork(s, c)
<1>1. /\ s \in Kernel /\ s.PID \in Pid /\ s.CURRENT = s.PROCESSES /\ s.CURRENT \in LiveOf(s)
      /\ Ring(s, LiveOf(s)) /\ s.COUNT = Cardinality(LiveOf(s))
  <2>1. s.PID \in 0..MaxPid + 1
    BY DEF Settled, Core, Kernel
  <2>2. s.PID \in Pid
    BY <2>1, MaxPidAssumption DEF Pid
  <2> QED BY <2>2 DEF Settled, Core, OnCpu
<1>2. Ring(t, LiveOf(t)) /\ t.COUNT = Cardinality(LiveOf(t))
  BY <1>1, ForkRing
<1>3. Forked(s, c, t)
  BY <1>1, ForkFields
<1> HIDE DEF t
<1>4. /\ s.PID >= 2 /\ s.PID \in Int /\ 1 \in Pid
      /\ c \in Slot /\ c \notin LiveOf(s) /\ LiveOf(s) \subseteq Slot
      /\ s.pid \in [Slot -> Pid] /\ s.PID_MAP \in [Pid -> Slot \cup {NULL}]
      /\ s.wait \in [Slot -> Pid] /\ s.signal \in [Slot -> Signals \cup {"SIGNONE"}]
  BY SMTT(40), <1>1, MaxPidAssumption DEF Settled, Core, PidsKnown, Kernel, LiveOf, Pid
<1>5. PidsKnown(t)
  <2>1. ASSUME NEW p \in LiveOf(t) PROVE t.PID_MAP[t.pid[p]] = p /\ t.pid[p] < t.PID
    <3>1. CASE p = c
      BY <1>1, <1>3, <1>4, <3>1 DEF Forked
    <3>2. CASE p # c
      <4>1. p \in LiveOf(s) /\ s.PID_MAP[s.pid[p]] = p /\ s.pid[p] < s.PID /\ s.pid[p] \in Int
        BY <1>3, <1>4, <3>2 DEF Settled, Core, PidsKnown, Pid, Forked
      <4> QED BY <1>3, <1>4, <3>2, <4>1 DEF Forked
    <3> QED BY <3>1, <3>2
  <2> QED BY <1>3, <1>4, <2>1 DEF PidsKnown, Forked
<1>6. IdleReady(t)
  <2>1. /\ IdleSlot(s) \in LiveOf(s) \ s.blocked /\ s.pid[IdleSlot(s)] = 1
        /\ \A i \in Pid : s.PID_MAP[i] = IdleSlot(s) => i = 1
    BY DEF Settled, Core, IdleReady
  <2>2. IdleSlot(t) = IdleSlot(s) /\ IdleSlot(s) # c
    BY <1>3, <1>4, <2>1 DEF IdleSlot, Forked
  <2> QED BY <1>1, <1>3, <1>4, <2>1, <2>2 DEF IdleReady, Forked
<1>7. Waiters(t)
  BY <1>1, <1>3, <1>4 DEF Settled, Core, Waiters, Forked
<1>8. OnCpu(t) /\ Quiet(t)
  BY <1>3, <1>4 DEF Settled, Core, OnCpu, Quiet, Forked
<1>9. Settled(t)
  BY <1>2, <1>3, <1>5, <1>6, <1>7, <1>8 DEF Settled, Core, Forked
<1> QED BY <1>3, <1>9 DEF t

\* The system as it starts: systemd alone, on the CPU.
Launched(a, s) ==
  /\ s \in Kernel
  /\ s.next = [p \in Slot |-> p] /\ s.last = [p \in Slot |-> p]
  /\ LiveOf(s) = {a} /\ s.free = Slot \ {a}
  /\ s.blocked = {} /\ s.zombie = {} /\ ~s.hung /\ ~s.cononical
  /\ s.pid = [p \in Slot |-> 0] /\ s.wait = [p \in Slot |-> 0]
  /\ s.signal = [p \in Slot |-> "SIGNONE"] /\ s.pgid = [p \in Slot |-> 0]
  /\ s.PID = 1 /\ s.PID_MAP = [i \in Pid |-> IF i = 0 THEN a ELSE NULL]
  /\ s.COUNT = 1 /\ s.CURRENT = a /\ s.PROCESSES = a

\* A switch while there is one process.
LEMMA LoneSwitch ==
  ASSUME NEW a \in Slot, NEW y \in Kernel, y.next = [p \in Slot |-> p], y.blocked = {},
         y.PROCESSES = a
  PROVE  Switch(y) = [y EXCEPT !.CURRENT = a]
<1>1. Visited(y, a) \ y.blocked = {a}
  <2>1. y.next[a] = a
    OBVIOUS
  <2>2. a \in Visited(y, a)
    BY <2>1 DEF Visited
  <2>3. {a} \in SUBSET Slot /\ a \in {a} /\ {a} \cap y.blocked = {}
    OBVIOUS
  <2>4. ASSUME NEW q \in Visited(y, a) PROVE q \in {a}
    BY <2>1, <2>3 DEF Visited
  <2> QED BY <2>2, <2>4
<1>2. NextProcess(y) = [y EXCEPT !.PROCESSES = a]
  <2>1. (CHOOSE q \in {a} : TRUE) = a
    OBVIOUS
  <2>2. NextProcess(y) = [y EXCEPT !.PROCESSES = CHOOSE q \in {a} : TRUE]
    BY <1>1, NullIsNoSlot DEF NextProcess
  <2> QED BY <2>1, <2>2
<1> QED BY <1>2 DEF Switch, Kernel

\* The state in which systemd makes its first system call.
LEMMA LaunchFields ==
  ASSUME NEW a \in Slot
  PROVE  Launched(a, Launch(a))
<1> DEFINE id == [p \in Slot |-> p]
           z == [next |-> id, last |-> id,
                 blocked |-> {}, zombie |-> {}, free |-> Slot \ {a},
                 pid |-> [p \in Slot |-> 0], pgid |-> [p \in Slot |-> 0],
                 wait |-> [p \in Slot |-> 0], rax |-> [p \in Slot |-> 0],
                 status |-> [p \in Slot |-> "none"], stat |-> [p \in Slot |-> "none"],
                 signal |-> [p \in Slot |-> "SIGNONE"],
                 PID |-> 1, PID_MAP |-> [i \in Pid |-> NULL],
                 PROCESSES |-> NULL, CURRENT |-> NULL, COUNT |-> 0, hung |-> FALSE,
                 grp |-> 0, cononical |-> FALSE, reader |-> NULL]
           m == [i \in Pid |-> IF i = 0 THEN a ELSE NULL]
           y == [z EXCEPT !.PID_MAP = m, !.COUNT = 1, !.PROCESSES = a]
<1>1. 0 \in Pid /\ 1 \in 0..MaxPid + 1 /\ "SIGNONE" \in Signals \cup {"SIGNONE"}
      /\ "none" \in Status
  BY MaxPidAssumption DEF Pid, Status
<1>2. /\ z \in Kernel /\ z.next = id /\ z.last = id /\ z.blocked = {}
      /\ z.zombie = {} /\ z.free = Slot \ {a} /\ z.PROCESSES = NULL /\ z.hung = FALSE
      /\ z.cononical = FALSE /\ z.pid = [p \in Slot |-> 0] /\ z.wait = [p \in Slot |-> 0]
      /\ z.signal = [p \in Slot |-> "SIGNONE"] /\ z.PID = 1
      /\ z.PID_MAP = [i \in Pid |-> NULL] /\ z.COUNT = 0 /\ z.pgid = [p \in Slot |-> 0]
  BY <1>1 DEF Kernel
<1>a. Launch(a) = Switch(Schedule(z, a))
  BY DEF Launch
<1> HIDE DEF z
<1>3. Schedule(z, a) = y
  <2>1. /\ [z.PID_MAP EXCEPT ![z.pid[a]] = a] = m /\ z.PROCESSES = NULL
        /\ [id EXCEPT ![a] = a] = id
    BY <1>1, <1>2
  <2>2. Schedule(z, a) = [[z EXCEPT !.PID_MAP[z.pid[a]] = a, !.COUNT = @ + 1,
                                    !.PROCESSES = a] EXCEPT !.next[a] = a, !.last[a] = a]
    <3>1. z.PROCESSES = NULL
      BY <1>2
    <3> QED BY ONLY <3>1 DEF Schedule
  <2>3. Schedule(z, a) = [z EXCEPT !.PID_MAP = m, !.COUNT = 1, !.PROCESSES = a,
                                   !.next = id, !.last = id]
    <3>1. /\ z \in Kernel /\ [z.PID_MAP EXCEPT ![z.pid[a]] = a] = m /\ z.COUNT + 1 = 1
          /\ [z.next EXCEPT ![a] = a] = id /\ [z.last EXCEPT ![a] = a] = id
      BY <1>2, <2>1
    <3> HIDE DEF m, id
    <3> QED BY <2>2, <3>1 DEF Kernel
  <2> HIDE DEF m, id
  <2> QED BY <1>2, <2>3 DEF Kernel
<1>4. /\ y \in Kernel /\ y.next = id /\ y.last = id /\ y.blocked = {}
      /\ y.zombie = {} /\ y.free = Slot \ {a} /\ y.PROCESSES = a /\ y.hung = FALSE
      /\ y.cononical = FALSE /\ y.pid = [p \in Slot |-> 0] /\ y.wait = [p \in Slot |-> 0]
      /\ y.signal = [p \in Slot |-> "SIGNONE"] /\ y.PID = 1 /\ y.PID_MAP = m
      /\ y.COUNT = 1 /\ y.pgid = [p \in Slot |-> 0]
  <2>1. m \in [Pid -> Slot \cup {NULL}]
    OBVIOUS
  <2> HIDE DEF m, id
  <2>2. z \in Kernel
    BY <1>2
  <2>3. y \in Kernel
    <3> DEFINE one == 1
    <3>1. one \in Int /\ y = [z EXCEPT !.PID_MAP = m, !.COUNT = one, !.PROCESSES = a]
      OBVIOUS
    <3> HIDE DEF one, y
    <3> QED BY <2>1, <2>2, <3>1 DEF Kernel
  <2>4. /\ y.next = z.next /\ y.last = z.last /\ y.blocked = z.blocked
        /\ y.zombie = z.zombie /\ y.free = z.free /\ y.PROCESSES = a /\ y.hung = z.hung
        /\ y.cononical = z.cononical /\ y.pid = z.pid /\ y.wait = z.wait
        /\ y.signal = z.signal /\ y.PID = z.PID /\ y.PID_MAP = m /\ y.COUNT = 1
        /\ y.pgid = z.pgid
    BY <1>2 DEF Kernel
  <2> QED BY <1>2, <2>3, <2>4
<1> HIDE DEF y, m
<1>7. Launch(a) = [y EXCEPT !.CURRENT = a]
  BY <1>3, <1>4, <1>a, LoneSwitch
<1>8. LiveOf(Launch(a)) = {a}
  BY <1>4, <1>7 DEF LiveOf, Kernel
<1> QED BY SMTT(40), <1>4, <1>7, <1>8 DEF Kernel, Launched, m

\* The first fork.
LEMMA LaunchedForks ==
  ASSUME NEW a \in Slot, NEW c \in Slot, a # c, NEW s, Launched(a, s)
  PROVE  LET t == ProcessFork(s, c) IN
         /\ Settled(t) /\ Forked(s, c, t) /\ LiveOf(t) = {a, c} /\ t.blocked = {}
         /\ t.zombie = {} /\ t.pid[a] = 0 /\ t.pid[c] = 1
         /\ t.wait = [p \in Slot |-> 0] /\ ~t.cononical /\ t.rax[c] = 0
         /\ t.free = Slot \ {a, c} /\ t.pgid = [p \in Slot |-> 0]
         /\ \A i \in Pid : t.PID_MAP[i] \in {a, c, NULL}
<1> DEFINE t == ProcessFork(s, c)
<1>3. 0 \in Pid /\ 1 \in Pid /\ c \in s.free
  BY MaxPidAssumption DEF Pid, Launched
<1>4. Ring(s, LiveOf(s)) /\ s.COUNT = Cardinality(LiveOf(s))
  <2>1. Cardinality({a}) = 1
    BY FS_Singleton
  <2> QED BY <2>1 DEF Ring, Launched
<1>5. Ring(t, LiveOf(t)) /\ t.COUNT = Cardinality(LiveOf(t))
  <2>1. s \in Kernel /\ s.PID \in Pid /\ s.CURRENT = s.PROCESSES /\ s.CURRENT \in LiveOf(s)
    BY <1>3 DEF Launched
  <2> QED BY <1>3, <1>4, <2>1, ForkRing
<1>6. Forked(s, c, t)
  BY <1>3, ForkFields DEF Launched
<1> HIDE DEF t
<1>7. /\ LiveOf(t) = {a, c} /\ t.blocked = {} /\ t.pid[c] = 1 /\ t.pid[a] = 0 /\ t.PID = 2
      /\ t.wait = [p \in Slot |-> 0] /\ \A p \in Slot : t.signal[p] = "SIGNONE"
      /\ t.PID_MAP = [i \in Pid |-> IF i = 0 THEN a ELSE IF i = 1 THEN c ELSE NULL]
  <2>1. /\ LiveOf(t) = {a} \cup {c} /\ t.blocked = {} \ {c} /\ t.PID = 1 + 1
        /\ t.pid = [[p \in Slot |-> 0] EXCEPT ![c] = 1]
        /\ t.wait = [[p \in Slot |-> 0] EXCEPT ![c] = 0]
        /\ t.signal = [[p \in Slot |-> "SIGNONE"] EXCEPT ![c] = "SIGNONE"]
        /\ t.PID_MAP = [[i \in Pid |-> IF i = 0 THEN a ELSE NULL] EXCEPT ![1] = c]
    BY <1>6 DEF Forked, Launched
  <2>2. t.pid[c] = 1 /\ t.pid[a] = 0
    BY <2>1
  <2>3. t.wait = [p \in Slot |-> 0] /\ \A p \in Slot : t.signal[p] = "SIGNONE"
    BY <2>1
  <2>4. t.PID_MAP = [i \in Pid |-> IF i = 0 THEN a ELSE IF i = 1 THEN c ELSE NULL]
    <3>1. t.PID_MAP = [i \in Pid |-> IF i = 1 THEN c ELSE IF i = 0 THEN a ELSE NULL]
      BY Zenon, <1>3, <2>1
    <3>2. \A i \in Pid : (IF i = 1 THEN c ELSE IF i = 0 THEN a ELSE NULL)
                           = (IF i = 0 THEN a ELSE IF i = 1 THEN c ELSE NULL)
      OBVIOUS
    <3> QED BY <3>1, <3>2
  <2>5. t.blocked = {} /\ t.PID = 2 /\ LiveOf(t) = {a, c}
    BY <2>1
  <2> QED BY <2>2, <2>3, <2>4, <2>5
<1>8. IdleReady(t) /\ PidsKnown(t)
  BY <1>3, <1>7, NullIsNoSlot DEF IdleReady, IdleSlot, PidsKnown
<1>9. Waiters(t) /\ OnCpu(t) /\ Quiet(t)
  BY <1>6, <1>7 DEF Waiters, OnCpu, Quiet, Forked, Launched
<1>10. ~t.cononical /\ t.zombie = {} \ {c}
  BY <1>6 DEF Forked, Launched
<1>11. t.rax[c] = 0
  <2>1. s.rax \in [Slot -> Pid] /\ t.rax = [s.rax EXCEPT ![c] = 0, ![s.CURRENT] = s.PID]
        /\ s.CURRENT = a
    BY <1>6 DEF Forked, Launched, Kernel
  <2> QED BY <2>1
<1>13. t.free = Slot \ {a, c} /\ t.pgid = [p \in Slot |-> 0]
  <2>1. /\ t.free = (Slot \ {a}) \ {c} /\ s.pgid = [p \in Slot |-> 0] /\ s.CURRENT = a
        /\ t.pgid = [s.pgid EXCEPT ![c] = s.pgid[s.CURRENT]]
    BY <1>6 DEF Forked, Launched
  <2> QED BY <2>1
<1>14. \A i \in Pid : t.PID_MAP[i] \in {a, c, NULL}
  BY <1>7
<1>12. Settled(t)
  BY <1>5, <1>6, <1>7, <1>8, <1>9 DEF Settled, Core, Forked
<1> QED BY <1>6, <1>7, <1>10, <1>11, <1>12, <1>13, <1>14 DEF t

\* The invariant holds when systemd has forked.
LEMMA InitSettled ==
  ASSUME Init
  PROVE  Settled(k) /\ k.wait = [p \in Slot |-> 0] /\ ~k.cononical
<1>1. PICK a \in Slot, c \in Slot : a # c /\ k = ProcessFork(Launch(a), c)
  BY DEF Init
<1> QED BY <1>1, LaunchFields, LaunchedForks

-----------------------------------------------------------------------------
(* The theorems *)

\* What a step of the kernel does to the processes.
Moved(s, t) ==
  \/ Handled(s, t)
  \/ \E c \in s.free : Forked(s, c, t)
  \/ "waitpid" \in Calls /\ \E p \in Slot : WaitsFor(s, p, t)
  \/ (\E x \in Kills : x[2] = "SIGCONT") /\ \E p \in Slot : Continues(s, p, t)

\* What setpgid and, without the removal, setsid do.
Joins(p, g) ==
  /\ p = k.CURRENT \/ \E i \in Pid : p = k.PID_MAP[i]
  /\ Regroups(k, p, g, k')
  /\ \/ PGID_MAP' = AddToGroup(RemoveFromGroup(k, PGID_MAP, p), p, g)
     \/ "setsid" \in Calls /\ PGID_MAP' = AddToGroup(PGID_MAP, p, g)

\* The system calls that change a group.
LEMMA SetGroupSettled ==
  ASSUME Deployment, Settled(k), SysSetpgid \/ SysSetsid
  PROVE  /\ Settled(k')
         /\ \/ Moved(k, k') /\ PGID_MAP' = PGID_MAP
            \/ \E p \in Slot : \E g \in Pid : Joins(p, g)
<1>1. k.CURRENT # IdleSlot(k)
  BY SettledCurrent DEF Deployment, CURRENT, SysSetpgid, SysSetsid, Running
<1>2. PICK pid \in Pid, pgid \in Pid, remove \in BOOLEAN :
        SetGroup(pid, pgid, remove) /\ (~remove => "setsid" \in Calls)
  BY DEF SysSetpgid, SysSetsid, Running
<1> DEFINE p == IF pid = 0 THEN CURRENT ELSE k.PID_MAP[pid]
           g == IF pgid = 0 THEN k.pid[p] ELSE pgid
           t == [k EXCEPT !.pgid[p] = g]
<1>3. k \in Kernel /\ k.CURRENT \in Slot /\ IdleSlot(k) \notin k.blocked /\ Waiters(k)
  BY SettledCurrent
<1>4. CASE p = NULL
  <2>1. k' = CheckSignal(Fault(k)) /\ PGID_MAP' = PGID_MAP
    BY <1>2, <1>4 DEF SetGroup
  <2> QED BY <1>1, <2>1, FaultSettled DEF Moved
<1>5. CASE p # NULL
  <2>1. /\ k' = CheckSignal(t)
        /\ PGID_MAP' = AddToGroup(IF remove THEN RemoveFromGroup(k, PGID_MAP, p) ELSE PGID_MAP, p, g)
    BY <1>2, <1>5 DEF SetGroup
  <2>2. p \in Slot /\ (p = k.CURRENT \/ \E i \in Pid : p = k.PID_MAP[i])
    BY <1>3, <1>5 DEF Kernel, CURRENT
  <2>3. g \in Pid
    BY <1>3, <2>2 DEF Kernel
  <2> HIDE DEF p, g
  <2>4. SameRing(k, t) /\ t.signal = k.signal /\ IdleSlot(k) \notin t.blocked
    BY <1>3, <2>2, <2>3 DEF Kernel, SameRing
  <2>5. Waiters(t)
    BY <1>3 DEF Kernel, Waiters
  <2>6. Settled(t)
    BY <2>4, <2>5, SettledFrame
  <2>7. Regroups(k, p, g, t)
    BY <1>3 DEF Kernel, Regroups, Stays, Known, SameWaits, LiveOf
  <2>8. k' = t
    BY <2>1, <2>6, CheckQuiet
  <2> HIDE DEF t
  <2>9. Joins(p, g)
    BY <1>2, <2>1, <2>2, <2>7, <2>8 DEF Joins
  <2> QED BY <2>2, <2>3, <2>6, <2>8, <2>9
<1> QED BY <1>4, <1>5

\* Every other step keeps the invariant.
LEMMA OthersSettled ==
  ASSUME Deployment, Settled(k), [Next]_vars, ~SysSetpgid, ~SysSetsid
  PROVE  Settled(k') /\ Moved(k, k')
<1>1. ASSUME k.pid[CURRENT] \notin Idle PROVE k.CURRENT # IdleSlot(k)
  BY <1>1, SettledCurrent DEF Deployment, CURRENT
<1>2. CASE SysFork
  <2>1. PICK c \in k.free : k' = CheckSignal(ProcessFork(k, c)) /\ k.PID <= MaxPid
    BY <1>2 DEF SysFork
  <2>2. Settled(ProcessFork(k, c)) /\ Forked(k, c, ProcessFork(k, c))
    BY <2>1, ForkSettled
  <2>3. k' = ProcessFork(k, c)
    BY <2>1, <2>2, CheckQuiet
  <2> QED BY <2>2, <2>3 DEF Moved
<1>3. CASE SysExit
  <2>1. /\ Settled(ProcessExit(k, k.CURRENT, "exit"))
        /\ Ended(k, k.CURRENT, "exit", ProcessExit(k, k.CURRENT, "exit"))
    BY <1>1, <1>3, ExitSettled DEF SysExit, Running, Status, Settled, Quiet, QuietOthers
  <2>2. k' = ProcessExit(k, k.CURRENT, "exit")
    BY <1>3, <2>1, CheckQuiet DEF SysExit, CURRENT
  <2>3. Ends(k, k') /\ k'.pgid = k.pgid
    BY <2>1, <2>2 DEF Ended, Ends, SameWaits
  <2> QED BY <2>1, <2>2, <2>3 DEF Moved, Handled
<1>4. CASE SysWaitpid
  BY <1>1, <1>4, WaitpidSettled DEF SysWaitpid, Running, Moved
<1>8. ASSUME NEW g \in Pid, k' = CheckSignal([k EXCEPT !.grp = g])
      PROVE  Settled(k') /\ Moved(k, k')
  <2> DEFINE t == [k EXCEPT !.grp = g]
  <2>1. k \in Kernel /\ IdleSlot(k) \notin k.blocked /\ Waiters(k)
    BY SettledCurrent
  <2>2. SameRing(k, t) /\ t.signal = k.signal /\ IdleSlot(k) \notin t.blocked
    BY <2>1 DEF Kernel, SameRing
  <2>3. Waiters(t)
    BY <2>1 DEF Kernel, Waiters
  <2>4. Settled(t)
    BY <2>2, <2>3, SettledFrame
  <2>5. Stays(k, t) /\ t.pgid = k.pgid
    BY <2>1 DEF Kernel, Stays, Known, SameWaits, LiveOf
  <2> QED BY <1>8, <2>4, <2>5, CheckQuiet DEF Moved, Handled
<1>20. ASSUME NEW pid \in Pid, NEW own \in Pid, k' = CheckSignal(GetId(k, pid, own)),
              k.pid[CURRENT] \notin Idle
       PROVE  Settled(k') /\ Moved(k, k')
  <2> DEFINE p == k.PID_MAP[pid]
             a == IF pid = 0 THEN own ELSE k.pid[p]
             t == [k EXCEPT !.rax[k.CURRENT] = a]
  <2>1. k \in Kernel /\ k.CURRENT \in Slot /\ IdleSlot(k) \notin k.blocked /\ Waiters(k)
    BY SettledCurrent
  <2>2. CASE pid # 0 /\ p = NULL
    BY <1>1, <1>20, <2>2, FaultSettled DEF GetId, Moved
  <2>3. CASE ~(pid # 0 /\ p = NULL)
    <3>1. a \in Pid
      BY <2>1, <2>3 DEF Kernel
    <3>2. k' = CheckSignal(t)
      BY <1>20, <2>3 DEF GetId
    <3> HIDE DEF a
    <3>3. SameRing(k, t) /\ t.signal = k.signal /\ IdleSlot(k) \notin t.blocked
      BY <2>1, <3>1 DEF Kernel, SameRing
    <3>4. Waiters(t)
      BY <2>1 DEF Kernel, Waiters
    <3>5. Settled(t)
      BY <3>3, <3>4, SettledFrame
    <3>6. Stays(k, t) /\ t.pgid = k.pgid
      BY <2>1 DEF Kernel, Stays, Known, SameWaits, LiveOf
    <3> QED BY <3>2, <3>5, <3>6, CheckQuiet DEF Moved, Handled
  <2> QED BY <2>2, <2>3
<1>21. CASE SysGetpgid
  <2>1. k.pgid[CURRENT] \in Pid
    BY SettledCurrent DEF Kernel, CURRENT
  <2> QED BY <1>20, <1>21, <2>1 DEF SysGetpgid, Running
<1>22. CASE SysGetsid
  <2>1. 0 \in Pid
    BY MaxPidAssumption DEF Pid
  <2> QED BY <1>20, <1>22, <2>1 DEF SysGetsid, Running
<1>9. CASE SysTcsetpgrp
  <2>1. PICK pgrp \in Pid : k' = CheckSignal(Tcsetpgrp(k, pgrp))
    BY <1>9 DEF SysTcsetpgrp
  <2>2. (IF pgrp = 0 THEN k.pgid[k.CURRENT] ELSE pgrp) \in Pid
    BY SettledCurrent DEF Kernel
  <2> QED BY <1>8, <2>1, <2>2 DEF Tcsetpgrp
<1>10. CASE SysTcgetpgrp
  <2>1. 0 \in Pid
    BY MaxPidAssumption DEF Pid
  <2> QED BY <1>8, <1>10, <2>1 DEF SysTcgetpgrp, Tcgetpgrp
<1>11. CASE SysInput
  BY <1>1, <1>11, InputSettled DEF SysInput, Running, Moved
<1>12. CASE SysWrite
  BY <1>1, <1>12, WriteSettled DEF SysWrite, Running, Moved
<1>13. CASE SysKill
  <2>1. PICK c \in Kills : k' = CheckSignal(Kill(k, PGID_MAP, c[1], c[2]))
    BY <1>13 DEF SysKill
  <2>2. c[1] \in Int /\ c[2] \in Signals /\ SafeKill(c[1], c[2])
    BY KillsAssumption DEF Deployment
  <2> QED BY <1>1, <1>13, <2>1, <2>2, KillSettled DEF SysKill, Moved
<1>14. CASE SysDoNothing
  <2>1. "SIGSYS" \in Signals \ {"SIGKILL"} /\ "SIGSYS" \notin StopSignals /\ "SIGSYS" # "SIGCONT"
    BY DEF Signals, CoreSignals, StopSignals
  <2>2. k' = CheckSignal(Signal(k, k.CURRENT, "SIGSYS")) /\ k.pid[CURRENT] \notin Idle
    BY <1>14 DEF SysDoNothing, Running, CURRENT
  <2> QED BY <1>1, <2>1, <2>2, SignalSettled, SettledCurrent DEF Moved
<1>15. CASE Exception
  <2>1. PICK sig \in TrapSignals : k' = CheckSignal(Signal(k, k.CURRENT, sig))
    BY <1>15 DEF Exception, CURRENT
  <2>2. sig \in Signals \ {"SIGKILL"} /\ sig \notin StopSignals /\ sig # "SIGCONT"
    BY DEF TrapSignals, Signals, CoreSignals, StopSignals
  <2>3. k.pid[CURRENT] \notin Idle
    BY <1>15 DEF Exception, Running
  <2> QED BY <1>1, <2>1, <2>2, <2>3, SignalSettled, SettledCurrent DEF Moved
<1>16. CASE DivideError
  BY <1>16 DEF DivideError, Running, Deployment
<1>17. CASE Tick
  BY <1>17, SwitchSettled DEF Tick, Moved, Handled
<1>18. CASE KeyNewline
  BY <1>18, NewlineSettled DEF KeyNewline, Moved
<1>23. CASE KeyInterrupt
  BY <1>23 DEF KeyInterrupt, Deployment
<1>19. CASE UNCHANGED vars
  BY <1>19 DEF vars, Moved, Handled, Stays, Known, SameWaits
<1> QED
  BY <1>2, <1>3, <1>4, <1>9, <1>10, <1>11, <1>12, <1>13, <1>14, <1>15, <1>16,
     <1>17, <1>18, <1>19, <1>21, <1>22, <1>23 DEF Next

\* A step of the system keeps the invariant.
LEMMA NextSettled ==
  ASSUME Deployment, Settled(k), [Next]_vars
  PROVE  /\ Settled(k')
         /\ \/ Moved(k, k') /\ PGID_MAP' = PGID_MAP
            \/ \E p \in Slot : \E g \in Pid : Joins(p, g)
<1>1. CASE SysSetpgid \/ SysSetsid
  BY <1>1, SetGroupSettled
<1>2. CASE ~SysSetpgid /\ ~SysSetsid
  <2>1. PGID_MAP' = PGID_MAP
    BY <1>2 DEF Next, vars, SysFork, SysExit, SysWaitpid, SysGetpgid, SysGetsid, SysTcsetpgrp,
       SysTcgetpgrp, SysInput, SysWrite, SysKill, SysDoNothing, Exception, DivideError, Tick,
       KeyNewline, KeyInterrupt
  <2> QED BY <1>2, <2>1, OthersSettled
<1> QED BY <1>1, <1>2

\* Settled is an invariant of the kernel.
THEOREM Invariance ==
  ASSUME Deployment
  PROVE  Spec => []Settled(k)
<1>1. Init => Settled(k)
  BY InitSettled
<1>2. Settled(k) /\ [Next]_vars => Settled(k)'
  BY NextSettled
<1> QED BY <1>1, <1>2, PTL DEF Spec

\* Type correctness: no handler leaves a field of the kernel outside its type, so no
\* process_t pointer the kernel follows is null.
THEOREM TypeCorrect == ASSUME Deployment PROVE Spec => []TypeOK
<1>1. Settled(k) => TypeOK
  BY DEF Settled, Core, TypeOK
<1> QED BY <1>1, Invariance, PTL

\* The next and last pointers form one ring through exactly the live processes,
\* however many there are and in whatever order they fork and exit.
THEOREM RingCorrect == ASSUME Deployment PROVE Spec => []RingOfLive
<1>1. Settled(k) => RingOfLive
  BY DEF Settled, Core, RingOfLive, Live
<1> QED BY <1>1, Invariance, PTL

\* PROCESS_COUNT is the length of that ring.
THEOREM CountCorrect == ASSUME Deployment PROVE Spec => []CountsLive
<1>1. Settled(k) => CountsLive
  BY DEF Settled, Core, CountsLive, Live
<1> QED BY <1>1, Invariance, PTL

\* The process on the CPU has not exited, and is where the scheduler's pointer is.
THEOREM CurrentCorrect == ASSUME Deployment PROVE Spec => []CurrentAlive
<1>1. Settled(k) => CurrentAlive
  BY DEF Settled, Core, OnCpu, CurrentAlive, CURRENT, Live
<1> QED BY <1>1, Invariance, PTL

\* The pid table leads to every live process, with slots reused and entries never
\* deleted.
THEOREM PidMapCorrect == ASSUME Deployment PROVE Spec => []PidMapFindsLive
<1>1. Settled(k) => PidMapFindsLive
  BY DEF Settled, Core, PidsKnown, PidMapFindsLive, Live
<1> QED BY <1>1, Invariance, PTL

\* The loop of scheduler_nextProcess ends: no handler hangs the machine.
THEOREM HangFree == ASSUME Deployment PROVE Spec => []NeverHung
<1>1. Settled(k) => NeverHung
  BY DEF Settled, Core, OnCpu, NeverHung
<1> QED BY <1>1, Invariance, PTL

\* No signal survives the handler that raised it.
THEOREM SignalsActedOn == ASSUME Deployment PROVE Spec => []NoSignalLeft
<1>1. Settled(k) => NoSignalLeft
  BY DEF Settled, Quiet, NoSignalLeft, Live
<1> QED BY <1>1, Invariance, PTL

\* A handler ends at most the process that was on the CPU when it was entered.
THEOREM CallerEndsOnly == ASSUME Deployment PROVE Spec => OnlyCallerEnds
<1>1. ASSUME Settled(k), [Next]_vars
      PROVE  \A p \in Live \ {CURRENT} : p \in Live' /\ k'.pid[p] = k.pid[p]
  <2>1. (Moved(k, k') \/ \E p \in Slot : \E g \in Pid : Joins(p, g)) /\ k \in Kernel
    BY <1>1, NextSettled, SettledCurrent
  <2>2. CASE \E c \in k.free : Forked(k, c, k')
    <3>1. PICK c \in k.free : Forked(k, c, k')
      BY <2>2
    <3>2. c \notin LiveOf(k) /\ LiveOf(k) \subseteq Slot
      BY DEF LiveOf
    <3> QED BY <2>1, <3>1, <3>2 DEF Forked, Live, Kernel
  <2>3. CASE \/ Handled(k, k')
             \/ \E p \in Slot : \/ Continues(k, p, k') \/ WaitsFor(k, p, k')
                                \/ \E g \in Pid : Joins(p, g)
    <3>1. k'.pid = k.pid /\ LiveOf(k) \ {k.CURRENT} \subseteq LiveOf(k')
      BY <2>3 DEF Handled, Stays, Reads, LineReady, Ends, WaitsFor, Continues, Joins, Regroups, Known
    <3> QED BY <3>1 DEF Live, CURRENT
  <2> QED BY <2>1, <2>2, <2>3 DEF Moved
<1> QED BY <1>1, Invariance, PTL DEF Spec, OnlyCallerEnds

-----------------------------------------------------------------------------
(***************************************************************************)
(* Who wakes whom.  A process that a live process names as its waiting     *)
(* parent is alive, blocked, off the CPU, not the reader of the terminal   *)
(* and nobody else's waiting parent; so is the reader, and the process the *)
(* end of another one wakes is the parent that waits for that one.         *)
(***************************************************************************)
Parent(s, p) == s.PID_MAP[s.wait[p]]

Waiting(s, w) == w \in LiveOf(s) \cap s.blocked /\ w # s.CURRENT

ParentWaits(s) ==
  \A p \in LiveOf(s) : s.wait[p] # 0 =>
     /\ Waiting(s, Parent(s, p))
     /\ s.pid[Parent(s, p)] = s.wait[p]
     /\ s.cononical => s.reader # Parent(s, p)

OneAnswer(s) ==
  \A p, q \in LiveOf(s) : s.wait[p] # 0 /\ s.wait[q] = s.wait[p] => q = p

ReaderWaits(s) == s.cononical => Waiting(s, s.reader)

Answerable(s) == ParentWaits(s) /\ OneAnswer(s) /\ ReaderWaits(s)

\* A switch, a signal or a call that leaves the caller on the CPU.
LEMMA StaysAnswerable ==
  ASSUME NEW s, NEW t, Settled(s), Answerable(s), Stays(s, t)
  PROVE  Answerable(t)
<1>1. ASSUME NEW w, Waiting(s, w) PROVE Waiting(t, w)
  <2>1. w \in LiveOf(t) \cap t.blocked
    BY <1>1 DEF Waiting, Stays, Known
  <2> QED BY <1>1, <2>1 DEF Waiting, Stays
<1>2. OneAnswer(t)
  BY DEF Answerable, OneAnswer, Stays, Known, SameWaits
<1>3. ReaderWaits(t)
  BY <1>1 DEF Answerable, ReaderWaits, Stays, SameWaits
<1>4. ParentWaits(t)
  BY <1>1 DEF Answerable, ParentWaits, Parent, Stays, Known, SameWaits
<1> QED BY <1>2, <1>3, <1>4 DEF Answerable

\* A call that blocks the caller: the child waited for names a parent nobody named
\* before, because all who were named are off the CPU.
LEMMA YieldsAnswerable ==
  ASSUME NEW s, NEW t, Settled(s), Answerable(s), Known(s, t), Yields(s, t)
  PROVE  /\ \A w : Waiting(s, w) => Waiting(t, w)
         /\ Waiting(t, s.CURRENT)
BY SettledCurrent DEF Waiting, Known, Yields

LEMMA WaitsForAnswerable ==
  ASSUME NEW s, NEW t, NEW p \in Slot, Settled(s), Answerable(s), WaitsFor(s, p, t)
  PROVE  Answerable(t)
<1> DEFINE c == s.CURRENT
<1>1. /\ s \in Kernel /\ c \in LiveOf(s) /\ LiveOf(t) = LiveOf(s) /\ t.pid = s.pid
      /\ t.PID_MAP = s.PID_MAP /\ s.PID_MAP[s.pid[c]] = c /\ LiveOf(s) \subseteq Slot
      /\ t.wait = [s.wait EXCEPT ![p] = s.pid[c]]
      /\ t.cononical = s.cononical /\ t.reader = s.reader /\ s.wait \in [Slot -> Pid]
  BY SettledCurrent DEF Settled, Core, PidsKnown, WaitsFor, Known, LiveOf, Kernel
<1>2. (\A w : Waiting(s, w) => Waiting(t, w)) /\ Waiting(t, c)
  BY YieldsAnswerable DEF WaitsFor
<1>3. \A q \in LiveOf(s) : s.wait[q] # 0 => s.wait[q] # s.pid[c]
  BY <1>1 DEF Answerable, ParentWaits, Parent, Waiting
<1>4. ReaderWaits(t)
  BY <1>1, <1>2 DEF Answerable, ReaderWaits
<1>5. s.cononical => s.reader # c
  BY DEF Answerable, ReaderWaits, Waiting
<1>6. ASSUME NEW q \in LiveOf(t), t.wait[q] # 0
      PROVE  /\ Waiting(t, Parent(t, q)) /\ t.pid[Parent(t, q)] = t.wait[q]
             /\ t.cononical => t.reader # Parent(t, q)
  <2>1. CASE q = p
    <3>1. t.wait[q] = s.pid[c] /\ Parent(t, q) = c
      BY <1>1, <2>1 DEF Parent
    <3> QED BY <1>1, <1>2, <1>5, <3>1
  <2>2. CASE q # p
    <3>1. q \in LiveOf(s) /\ t.wait[q] = s.wait[q] /\ Parent(t, q) = Parent(s, q)
      BY <1>1, <2>2 DEF Parent
    <3> QED BY <1>1, <1>2, <1>6, <3>1 DEF Answerable, ParentWaits
  <2> QED BY <2>1, <2>2
<1>7. OneAnswer(t)
  BY <1>1, <1>3 DEF Answerable, OneAnswer
<1> QED BY <1>4, <1>6, <1>7 DEF Answerable, ParentWaits

LEMMA ReadsAnswerable ==
  ASSUME NEW s, NEW t, Settled(s), Answerable(s), Reads(s, t)
  PROVE  Answerable(t)
<1>1. (\A w : Waiting(s, w) => Waiting(t, w)) /\ Waiting(t, s.CURRENT)
  BY YieldsAnswerable DEF Reads
<1>2. ReaderWaits(t)
  BY <1>1 DEF ReaderWaits, Reads
<1>3. OneAnswer(t)
  BY DEF Answerable, OneAnswer, Reads, Known
<1>4. \A q \in LiveOf(s) : s.wait[q] # 0 => Parent(s, q) # s.CURRENT
  BY DEF Answerable, ParentWaits, Waiting
<1>5. ParentWaits(t)
  BY <1>1, <1>4 DEF Answerable, ParentWaits, Parent, Reads, Known
<1> QED BY <1>2, <1>3, <1>5 DEF Answerable

\* The end of a line wakes the reader, who is nobody's waiting parent.
LEMMA LineAnswerable ==
  ASSUME NEW s, NEW t, Settled(s), Answerable(s), LineReady(s, t)
  PROVE  Answerable(t)
<1>1. ASSUME NEW w, Waiting(s, w), w # s.reader PROVE Waiting(t, w)
  BY <1>1 DEF Waiting, LineReady, Known
<1>2. ReaderWaits(t)
  BY DEF ReaderWaits, LineReady
<1>3. OneAnswer(t)
  BY DEF Answerable, OneAnswer, LineReady, Known
<1>4. ParentWaits(t)
  BY <1>1 DEF Answerable, ParentWaits, Parent, LineReady, Known
<1> QED BY <1>2, <1>3, <1>4 DEF Answerable

\* The end of a process wakes its waiting parent, who waits for nobody else.
LEMMA EndsAnswerable ==
  ASSUME NEW s, NEW t, Settled(s), Answerable(s), Ends(s, t)
  PROVE  Answerable(t)
<1> DEFINE c == s.CURRENT
<1>1. /\ LiveOf(t) = LiveOf(s) \ {c} /\ t.pid = s.pid /\ t.PID_MAP = s.PID_MAP
      /\ t.wait = s.wait /\ t.cononical = s.cononical /\ t.reader = s.reader
      /\ t.CURRENT \notin s.blocked /\ c \in LiveOf(s)
      /\ s.wait[c] # 0 => t.blocked = s.blocked \ {Parent(s, c)}
      /\ s.wait[c] = 0 => t.blocked = s.blocked
  BY SettledCurrent DEF Ends, SameWaits, Parent
<1>2. ASSUME NEW w, Waiting(s, w), s.wait[c] # 0 => w # Parent(s, c) PROVE Waiting(t, w)
  BY <1>1, <1>2 DEF Waiting
<1>3. ReaderWaits(t)
  BY <1>1, <1>2 DEF Answerable, ReaderWaits, ParentWaits
<1>4. OneAnswer(t)
  BY <1>1 DEF Answerable, OneAnswer
<1>5. ASSUME NEW q \in LiveOf(t), t.wait[q] # 0
      PROVE  /\ Waiting(t, Parent(t, q)) /\ t.pid[Parent(t, q)] = t.wait[q]
             /\ t.cononical => t.reader # Parent(t, q)
  <2>1. q \in LiveOf(s) /\ q # c /\ s.wait[q] # 0 /\ Parent(t, q) = Parent(s, q)
    BY <1>1, <1>5 DEF Parent
  <2>2. /\ Waiting(s, Parent(s, q)) /\ s.pid[Parent(s, q)] = s.wait[q]
        /\ s.cononical => s.reader # Parent(s, q)
    BY <2>1 DEF Answerable, ParentWaits
  <2>3. s.wait[c] # 0 => Parent(s, q) # Parent(s, c)
    BY <1>1, <2>1, <2>2 DEF Answerable, ParentWaits, OneAnswer
  <2> QED BY <1>1, <1>2, <2>1, <2>2, <2>3
<1> QED BY <1>3, <1>4, <1>5 DEF Answerable, ParentWaits

\* A new process has a pid nobody waits under, and no waiting parent.
LEMMA ForkAnswerable ==
  ASSUME NEW s, NEW t, NEW c \in s.free, Settled(s), Answerable(s), Forked(s, c, t)
  PROVE  Answerable(t)
<1>1. /\ c \in Slot /\ c \notin LiveOf(s) /\ LiveOf(s) \subseteq Slot
      /\ s.wait \in [Slot -> Pid] /\ s.pid \in [Slot -> Pid]
      /\ s.PID_MAP \in [Pid -> Slot \cup {NULL}]
  BY DEF Settled, Core, Kernel, LiveOf
<1>2. \A w \in LiveOf(s) : s.pid[w] # s.PID
  <2>1. s.PID \in Int /\ \A w \in LiveOf(s) : s.pid[w] < s.PID /\ s.pid[w] \in Int
    BY <1>1 DEF Settled, Core, PidsKnown, Kernel, Pid
  <2> QED BY <2>1
<1>3. /\ LiveOf(t) = LiveOf(s) \cup {c} /\ t.CURRENT = c /\ t.blocked = s.blocked \ {c}
      /\ t.cononical = s.cononical /\ t.reader = s.reader
      /\ t.wait[c] = 0 /\ \A p \in LiveOf(s) : t.wait[p] = s.wait[p] /\ t.pid[p] = s.pid[p]
      /\ t.PID_MAP = [s.PID_MAP EXCEPT ![s.PID] = c]
  BY <1>1 DEF Forked
<1>4. ASSUME NEW w, Waiting(s, w) PROVE Waiting(t, w)
  BY <1>1, <1>3, <1>4 DEF Waiting
<1>5. ReaderWaits(t)
  BY <1>3, <1>4 DEF Answerable, ReaderWaits
<1>6. OneAnswer(t)
  BY <1>3 DEF Answerable, OneAnswer
<1>7. ASSUME NEW q \in LiveOf(t), t.wait[q] # 0
      PROVE  /\ Waiting(t, Parent(t, q)) /\ t.pid[Parent(t, q)] = t.wait[q]
             /\ t.cononical => t.reader # Parent(t, q)
  <2>1. q \in LiveOf(s) /\ t.wait[q] = s.wait[q]
    BY <1>3, <1>7
  <2>2. /\ Waiting(s, Parent(s, q)) /\ s.pid[Parent(s, q)] = s.wait[q]
        /\ s.cononical => s.reader # Parent(s, q)
    BY <1>7, <2>1 DEF Answerable, ParentWaits
  <2>3. s.wait[q] # s.PID /\ s.wait[q] \in Pid
    BY <1>1, <1>2, <2>1, <2>2 DEF Waiting
  <2>4. Parent(t, q) = Parent(s, q)
    BY <1>1, <1>3, <2>1, <2>3 DEF Parent
  <2> QED BY <1>3, <1>4, <2>1, <2>2, <2>4 DEF Waiting
<1> QED BY <1>5, <1>6, <1>7 DEF Answerable, ParentWaits

\* When kill sends no SIGCONT, a process that is blocked is woken only by the end of
\* the line it reads, or by the end of a process it waits for: no handler wakes a
\* process that has come to use the slot or the pid of another one.
THEOREM WakesForAReason ==
  ASSUME Deployment, \A x \in Kills : x[2] # "SIGCONT"
  PROVE  Spec => WokenForAReason
<1> DEFINE Inv == Settled(k) /\ Answerable(k)
<1>1. Init => Inv
  <2>1. ASSUME Init PROVE Answerable(k)
    <3>1. ~k.cononical /\ k.wait = [p \in Slot |-> 0]
      BY <2>1, InitSettled
    <3>2. LiveOf(k) \subseteq Slot
      BY DEF LiveOf
    <3> QED BY <3>1, <3>2 DEF Answerable, ParentWaits, OneAnswer, ReaderWaits
  <2> QED BY <2>1, InitSettled
<1>2. Inv /\ [Next]_vars => Inv' /\ (Moved(k, k') \/ Stays(k, k'))
  <2> SUFFICES ASSUME Inv, [Next]_vars PROVE Inv' /\ (Moved(k, k') \/ Stays(k, k'))
    OBVIOUS
  <2>1. Settled(k') /\ (Moved(k, k') \/ Stays(k, k'))
    BY NextSettled DEF Joins, Regroups
  <2>2. Answerable(k')
    BY <2>1, StaysAnswerable, WaitsForAnswerable, ReadsAnswerable, LineAnswerable,
       EndsAnswerable, ForkAnswerable DEF Moved, Handled
  <2> QED BY <2>1, <2>2
<1>3. ASSUME Inv, [Next]_vars, NEW p \in Live \cap k.blocked, p \notin k'.blocked
      PROVE  \/ k.cononical /\ ~k'.cononical /\ k.reader = p
             \/ \E c \in Live : c \notin Live' /\ k.wait[c] = k.pid[p]
  <2>1. (Moved(k, k') \/ Stays(k, k')) /\ p \in LiveOf(k) /\ p \in k.blocked /\ p \in Slot
    BY <1>2, <1>3 DEF Live, LiveOf
  <2>2. ~(Stays(k, k') \/ Reads(k, k') \/ \E q \in Slot : WaitsFor(k, q, k'))
    BY <1>3, <2>1 DEF Stays, Reads, WaitsFor, Yields
  <2>3. ASSUME NEW c \in k.free, Forked(k, c, k') PROVE FALSE
    BY <1>3, <2>1, <2>3 DEF Forked, LiveOf
  <2>4. CASE LineReady(k, k')
    BY <1>3, <2>1, <2>4 DEF LineReady
  <2>5. CASE Ends(k, k')
    <3>1. k.CURRENT \in Live /\ k.CURRENT \notin Live'
      BY <1>3, <2>5, SettledCurrent DEF Ends, Live
    <3>2. k.wait[k.CURRENT] # 0 /\ p = Parent(k, k.CURRENT)
      BY <1>3, <2>1, <2>5 DEF Ends, Parent
    <3>3. k.pid[p] = k.wait[k.CURRENT]
      BY <1>3, <3>1, <3>2 DEF Answerable, ParentWaits, Live
    <3> QED BY <3>1, <3>3
  <2> QED BY <2>1, <2>2, <2>3, <2>4, <2>5 DEF Moved, Handled
<1>4. Inv /\ [Next]_vars =>
        [\A p \in Live \cap k.blocked :
            p \notin k'.blocked =>
              \/ k.cononical /\ ~k'.cononical /\ k.reader = p
              \/ \E c \in Live : c \notin Live' /\ k.wait[c] = k.pid[p]]_vars
  BY <1>3
<1>5. Inv /\ [Next]_vars => Inv'
  BY <1>2
<1> HIDE DEF Inv
<1> QED BY <1>1, <1>4, <1>5, PTL DEF Spec, WokenForAReason
-----------------------------------------------------------------------------
(***************************************************************************)
(* The lists of groups.  process_remove_from_group is a loop that changes  *)
(* the list it walks over; Rest is the fold that stands for it, as a       *)
(* function on the sets of turns taken so far.                             *)
(***************************************************************************)
LEMMA LeastOne == ASSUME NEW S \in SUBSET Nat, S # {}
                  PROVE  \E x \in S : \A y \in S : x <= y
<1> DEFINE less == OpToRel(<, Nat)
<1>1. \A x, y \in Nat : y < x => <<y, x>> \in less
  BY DEF OpToRel
<1>2. IsWellFoundedOn(less, Nat)
  BY NatLessThanWellFounded
<1> HIDE DEF less
<1>3. PICK x \in S : \A y \in S : ~(<<y, x>> \in less)
  BY <1>2, WFMin
<1>4. \A y \in S : ~(y < x)
  BY <1>1, <1>3
<1> QED BY <1>4

\* The turn taken last, of turns numbered from 1.
LEMMA LastTurn ==
  ASSUME NEW n \in Nat, NEW S \in SUBSET (1..(n + 1)), S # {}
  PROVE  Max(S) \in S /\ (\A x \in S : Max(S) >= x) /\ S \ {Max(S)} \in SUBSET (1..n)
<1> DEFINE T == {n + 1 - x : x \in S}
<1>1. T \in SUBSET Nat /\ T # {}
  <2>1. \A x \in S : n + 1 - x \in Nat
    OBVIOUS
  <2> QED BY <2>1
<1>2. PICK y \in T : \A z \in T : y <= z
  BY <1>1, LeastOne
<1>3. PICK x \in S : y = n + 1 - x
  OBVIOUS
<1>4. ASSUME NEW z \in S PROVE x >= z
  <2>1. n + 1 - x <= n + 1 - z
    BY <1>2, <1>3
  <2>2. x \in Int /\ z \in Int
    OBVIOUS
  <2> QED BY <2>1, <2>2
<1>5. Max(S) \in S /\ \A z \in S : Max(S) >= z
  BY <1>4 DEF Max
<1>6. ASSUME NEW z \in S \ {Max(S)} PROVE z \in 1..n
  <2>1. z \in 1..(n + 1) /\ Max(S) \in 1..(n + 1) /\ z <= Max(S) /\ z # Max(S)
    BY <1>5
  <2> HIDE DEF Max
  <2> QED BY <2>1
<1> QED BY <1>5, <1>6

Shorter(s, pid, l, f, S) ==
  IF S = {} THEN l ELSE RemoveEntry(s, f[S \ {Max(S)}], Max(S), pid)
Rest(s, pid, l, n, f) == f = [S \in SUBSET (1..n) |-> Shorter(s, pid, l, f, S)]

\* The loop is a function of its turns.
LEMMA RestIs ==
  ASSUME NEW s, NEW pid, NEW l, NEW n \in Nat
  PROVE  \E f : Rest(s, pid, l, n, f)
<1> DEFINE Some(m) == \E f : Rest(s, pid, l, m, f)
           Bad == {m \in Nat : ~Some(m)}
<1>1. Some(0)
  <2> DEFINE f == [S \in SUBSET (1..0) |-> l]
  <2>1. \A S \in SUBSET (1..0) : Shorter(s, pid, l, f, S) = l
    BY DEF Shorter
  <2>2. f = [S \in SUBSET (1..0) |-> Shorter(s, pid, l, f, S)]
    BY <2>1
  <2> QED BY <2>2 DEF Rest
<1>2. ASSUME NEW m \in Nat, Some(m) PROVE Some(m + 1)
  <2>1. PICK f : f = [S \in SUBSET (1..m) |-> Shorter(s, pid, l, f, S)]
    BY <1>2 DEF Rest
  <2> DEFINE h == [S \in SUBSET (1..(m + 1)) |-> Shorter(s, pid, l, f, S)]
  <2>2. ASSUME NEW S \in SUBSET (1..(m + 1))
        PROVE  Shorter(s, pid, l, h, S) = Shorter(s, pid, l, f, S)
    <3>1. CASE S = {}
      BY <3>1 DEF Shorter
    <3>2. CASE S # {}
      <4> DEFINE r == S \ {Max(S)}
      <4>1. r \in SUBSET (1..m) /\ r \in SUBSET (1..(m + 1))
        BY <3>2, LastTurn
      <4>2. h[r] = f[r]
        <5> HIDE DEF r
        <5>1. f[r] = Shorter(s, pid, l, f, r)
          BY <2>1, <4>1, Zenon
        <5> QED BY <4>1, <5>1
      <4> HIDE DEF h
      <4> QED BY <3>2, <4>2 DEF Shorter
    <3> QED BY <3>1, <3>2
  <2>3. h = [S \in SUBSET (1..(m + 1)) |-> Shorter(s, pid, l, h, S)]
    BY <2>2
  <2> QED BY <2>3 DEF Rest
<1>3. Bad = {}
  <2> SUFFICES ASSUME Bad # {} PROVE FALSE
    OBVIOUS
  <2>1. PICK x \in Bad : \A y \in Bad : x <= y
    BY LeastOne
  <2> HIDE DEF Some
  <2>2. x \in Nat /\ ~Some(x) /\ x # 0
    BY <1>1
  <2>3. x - 1 \in Nat /\ Some(x - 1)
    BY <2>1, <2>2
  <2> QED BY <1>2, <2>2, <2>3
<1> QED BY <1>3

\* Every entry is another process.
Distinct(l) == \A i, j \in 1..Len(l) : l[i] = l[j] => i = j
\* l is what is left of base; in its first m places nobody has the pid.
Walked(s, pid, base, m, l) ==
  /\ l \in Seq(Slot) /\ Len(l) <= Len(base) /\ Distinct(l)
  /\ \A i \in 1..Len(l) : \E j \in 1..Len(base) : l[i] = base[j]
  /\ \A i \in 1..Len(l) : i <= m => s.pid[l[i]] # pid

\* One turn: the entry that takes the place of the one removed is not that one again.
LEMMA TurnWalks ==
  ASSUME NEW s, NEW pid, NEW base \in Seq(Slot), NEW m \in Nat, NEW l,
         Walked(s, pid, base, m, l),
         \A i, j \in 1..Len(base) : s.pid[base[i]] = s.pid[base[j]] => base[i] = base[j]
  PROVE  Walked(s, pid, base, m + 1, RemoveEntry(s, l, m + 1, pid))
<1> DEFINE n == Len(l)
           hit == m + 1 <= n /\ s.pid[l[m + 1]] = pid
           w == [j \in 1..n - 1 |-> l[IF j = m + 1 THEN n ELSE j]]
<1>1. l \in Seq(Slot) /\ n \in Nat /\ n <= Len(base) /\ Len(base) \in Nat
  BY DEF Walked
<1>2. CASE ~hit
  <2>1. RemoveEntry(s, l, m + 1, pid) = l
    BY <1>2 DEF RemoveEntry
  <2>2. ASSUME NEW i \in 1..n, i <= m + 1 PROVE s.pid[l[i]] # pid
    <3>1. CASE i <= m
      BY <3>1 DEF Walked
    <3>2. CASE i = m + 1
      BY <1>2, <3>2
    <3> QED BY <2>2, <3>1, <3>2
  <2> QED BY <2>1, <2>2 DEF Walked
<1>3. CASE hit
  <2>1. RemoveEntry(s, l, m + 1, pid) = w
    BY <1>3 DEF RemoveEntry
  <2>2. m + 1 \in 1..n /\ n - 1 \in Nat /\ n \in 1..n
    BY <1>1, <1>3
  <2> DEFINE at(j) == IF j = m + 1 THEN n ELSE j
  <2>3. ASSUME NEW j \in 1..n - 1
        PROVE  at(j) \in 1..n /\ at(j) # m + 1 /\ w[j] = l[at(j)] /\ l[at(j)] \in Slot
    BY <1>1, <2>2
  <2>4. w \in Seq(Slot) /\ Len(w) = n - 1
    <3>1. w \in [1..n - 1 -> Slot]
      BY <2>3
    <3>2. w \in Seq(Slot)
      BY <2>2, <3>1, SeqDef
    <3> HIDE DEF w
    <3>3. DOMAIN w = 1..n - 1
      BY <3>1
    <3> QED BY <2>2, <3>2, <3>3
  <2>5. \A i, j \in 1..n - 1 : at(i) = at(j) => i = j
    BY <1>1
  <2>6. ASSUME NEW i \in 1..n, s.pid[l[i]] = pid PROVE i = m + 1
    <3>1. PICK x \in 1..Len(base), y \in 1..Len(base) : l[i] = base[x] /\ l[m + 1] = base[y]
      BY <2>2 DEF Walked
    <3>2. l[i] = l[m + 1]
      BY <1>3, <2>6, <3>1
    <3> QED BY <2>2, <3>2 DEF Walked, Distinct
  <2> HIDE DEF w, at, n, hit
  <2>7. Distinct(w)
    <3> SUFFICES ASSUME NEW i \in 1..n - 1, NEW j \in 1..n - 1, w[i] = w[j] PROVE i = j
      BY <2>4 DEF Distinct
    <3>1. l[at(i)] = l[at(j)] /\ at(i) \in 1..n /\ at(j) \in 1..n
      BY <2>3
    <3>2. \A x, y \in 1..n : l[x] = l[y] => x = y
      BY DEF Walked, Distinct, n
    <3>3. at(i) = at(j)
      BY <3>1, <3>2, Zenon
    <3> QED BY <2>5, <3>3
  <2>8. ASSUME NEW i \in 1..n - 1 PROVE \E j \in 1..Len(base) : w[i] = base[j]
    <3>1. \A x \in 1..n : \E j \in 1..Len(base) : l[x] = base[j]
      BY DEF Walked, n
    <3>2. at(i) \in 1..n /\ w[i] = l[at(i)]
      BY <2>3
    <3> QED BY <3>1, <3>2
  <2>9. \A i \in 1..n - 1 : s.pid[w[i]] # pid
    BY <2>3, <2>6
  <2>10. Len(w) <= Len(base)
    BY <1>1, <2>2, <2>4
  <2> QED BY <2>1, <2>4, <2>7, <2>8, <2>9, <2>10 DEF Walked
<1> QED BY <1>2, <1>3

\* The loop: no entry with the pid is left, although entries move while it walks.
LEMMA WalkEnds ==
  ASSUME NEW s, NEW pid, NEW base \in Seq(Slot), Distinct(base),
         \A i, j \in 1..Len(base) : s.pid[base[i]] = s.pid[base[j]] => base[i] = base[j],
         NEW f, Rest(s, pid, base, Len(base), f)
  PROVE  Walked(s, pid, base, Len(base), f[1..Len(base)])
<1> DEFINE n == Len(base)
           Good(m) == m <= n => Walked(s, pid, base, m, f[1..m])
           Bad == {m \in Nat : ~Good(m)}
<1>0. n \in Nat
  OBVIOUS
<1>1. \A S \in SUBSET (1..n) : f[S] = Shorter(s, pid, base, f, S)
  BY Zenon DEF Rest
<1>2. Good(0)
  <2>1. f[1..0] = base
    <3>1. 1..0 = {}
      OBVIOUS
    <3> QED BY <1>1, <3>1 DEF Shorter
  <2>2. Walked(s, pid, base, 0, base)
    BY <1>0 DEF Walked
  <2> QED BY <2>1, <2>2
<1>3. ASSUME NEW m \in Nat, Good(m) PROVE Good(m + 1)
  <2> SUFFICES ASSUME m + 1 <= n PROVE Walked(s, pid, base, m + 1, f[1..(m + 1)])
    OBVIOUS
  <2> DEFINE S == 1..(m + 1)
  <2>1. S \in SUBSET (1..n) /\ S # {} /\ m + 1 \in S
    <3>1. \A x \in 1..(m + 1) : x \in 1..n
      BY <1>0
    <3>2. m + 1 \in 1..(m + 1)
      OBVIOUS
    <3> QED BY <3>1, <3>2
  <2>2. Max(S) \in S /\ \A x \in S : Max(S) >= x
    <3>1. S \in SUBSET (1..(m + 1))
      OBVIOUS
    <3> HIDE DEF S
    <3> QED BY <2>1, <3>1, LastTurn
  <2>3. Max(S) = m + 1
    <3>1. Max(S) \in 1..(m + 1) /\ Max(S) >= m + 1
      BY <2>1, <2>2
    <3> HIDE DEF Max
    <3> QED BY <3>1
  <2>4. S \ {m + 1} = 1..m
    OBVIOUS
  <2>5. f[S] = RemoveEntry(s, f[1..m], m + 1, pid)
    <3> HIDE DEF S
    <3> QED BY <1>1, <2>1, <2>3, <2>4 DEF Shorter
  <2>6. Walked(s, pid, base, m, f[1..m])
    BY <1>0, <1>3
  <2> QED BY <2>5, <2>6, TurnWalks
<1>4. Bad = {}
  <2> SUFFICES ASSUME Bad # {} PROVE FALSE
    OBVIOUS
  <2>1. PICK x \in Bad : \A y \in Bad : x <= y
    BY LeastOne
  <2> HIDE DEF Good
  <2>2. x \in Nat /\ ~Good(x) /\ x # 0
    BY <1>2
  <2>3. x - 1 \in Nat /\ Good(x - 1)
    BY <2>1, <2>2
  <2> QED BY <1>3, <2>2, <2>3
<1>5. Good(n)
  BY <1>0, <1>4
<1> QED BY <1>0, <1>5

\* process_remove_from_group: who was on the list stays there once, but for the process.
LEMMA RemoveLeaves ==
  ASSUME NEW s, NEW groups, NEW p, NEW g, g = s.pgid[p], g # 0, g \in DOMAIN groups,
         NEW base \in Seq(Slot), base = groups[g], Distinct(base),
         \A i, j \in 1..Len(base) : s.pid[base[i]] = s.pid[base[j]] => base[i] = base[j]
  PROVE  \E l : /\ RemoveFromGroup(s, groups, p) = [groups EXCEPT ![g] = l]
                /\ Walked(s, s.pid[p], base, Len(base), l)
<1> DEFINE n == Len(base)
           q == [i \in 1..n |-> i]
           P(f) == f = [S \in SUBSET DOMAIN q |->
                          IF S = {} THEN base ELSE RemoveEntry(s, f[S \ {Max(S)}], q[Max(S)], s.pid[p])]
           l == (CHOOSE f : P(f))[DOMAIN q]
<1>0. n \in Nat
  OBVIOUS
<1>1. ASSUME NEW f PROVE P(f) <=> Rest(s, s.pid[p], base, n, f)
  <2>1. \A S \in SUBSET (1..n) : S # {} => q[Max(S)] = Max(S)
    <3>1. ASSUME NEW S \in SUBSET (1..n), S # {} PROVE Max(S) \in 1..n
      <4>1. S \in SUBSET (1..(n + 1))
        BY <1>0
      <4> QED BY <1>0, <3>1, <4>1, LastTurn
    <3> HIDE DEF Max
    <3> QED BY <3>1
  <2>2. DOMAIN q = 1..n
    OBVIOUS
  <2> HIDE DEF q
  <2> DEFINE body(S) == IF S = {} THEN base
                        ELSE RemoveEntry(s, f[S \ {Max(S)}], q[Max(S)], s.pid[p])
  <2>3. \A S \in SUBSET (1..n) : body(S) = Shorter(s, s.pid[p], base, f, S)
    <3> HIDE DEF n
    <3> QED BY <2>1 DEF Shorter
  <2>4. [S \in SUBSET DOMAIN q |-> body(S)]
          = [S \in SUBSET (1..n) |-> Shorter(s, s.pid[p], base, f, S)]
    <3> HIDE DEF body, n
    <3> QED BY <2>2, <2>3
  <2> QED BY <2>4, Zenon DEF Rest
<1>2. RemoveFromGroup(s, groups, p) = [groups EXCEPT ![g] = l]
  <2>2. RemoveFromGroup(s, groups, p) =
          [groups EXCEPT ![g] = FoldLeft(LAMBDA grp, i : RemoveEntry(s, grp, i, s.pid[p]), base, q)]
    BY Zenon DEF RemoveFromGroup
  <2>3. FoldLeft(LAMBDA grp, i : RemoveEntry(s, grp, i, s.pid[p]), base, q) = l
    <3> HIDE DEF q
    <3> QED BY Zenon DEF FoldLeft, MapThenFoldSet
  <2> QED BY <2>2, <2>3, Zenon
<1>3. \E f : P(f)
  <2>1. PICK f : Rest(s, s.pid[p], base, n, f)
    BY <1>0, RestIs
  <2>2. P(f)
    BY <1>1, <2>1
  <2> QED BY <2>2
<1> HIDE DEF P
<1>4. P(CHOOSE f : P(f))
  BY <1>3
<1>5. Walked(s, s.pid[p], base, n, l)
  <2>1. DOMAIN q = 1..n
    OBVIOUS
  <2> HIDE DEF q
  <2> QED BY <1>1, <1>4, <2>1, WalkEnds
<1> QED BY <1>2, <1>5

\* Nobody waits, so no slot is given back: a pid leads to the same process for good.
Enrolled(s) == /\ \A p \in Slot : s.wait[p] = 0
               /\ \A p \in Slot \ s.free : s.PID_MAP[s.pid[p]] = p /\ s.pid[p] < s.PID
               /\ \A i \in Pid : s.PID_MAP[i] # NULL => s.PID_MAP[i] \notin s.free
\* Everybody on the list of group g is a process of that group, and is there once.
Members(s, l, g) == /\ l \in Seq(Slot) /\ Distinct(l)
                    /\ \A i \in 1..Len(l) : l[i] \notin s.free /\ s.pgid[l[i]] = g
Lists(s, groups) == /\ DOMAIN groups = Pid
                    /\ \A g \in Pid \ {0} : groups[g] = NULL \/ Members(s, groups[g], g)
                    /\ \A p \in Slot \ s.free : s.pgid[p] # 0 => Members(s, groups[s.pgid[p]], s.pgid[p])

\* A handler that changes no group.
LEMMA HandledLists ==
  ASSUME NEW s, NEW t, NEW groups, Settled(s), Enrolled(s), Lists(s, groups),
         t.pgid = s.pgid, t.wait = s.wait, t.pid = s.pid, t.PID = s.PID,
         t.PID_MAP = s.PID_MAP, t.free = s.free
  PROVE  Enrolled(t) /\ Lists(t, groups)
<1>1. Enrolled(t)
  BY DEF Enrolled
<1>2. \A l, g : Members(s, l, g) => Members(t, l, g)
  BY DEF Members
<1> QED BY <1>1, <1>2 DEF Lists

\* A child inherits the group of its parent, and is on no list yet.
LEMMA ForkLists ==
  ASSUME NEW s, NEW c \in s.free, NEW t, NEW groups, Settled(s), Enrolled(s),
         Lists(s, groups), Forked(s, c, t)
  PROVE  Enrolled(t) /\ Lists(t, groups)
<1> DEFINE u == s.CURRENT
<1>1. /\ s \in Kernel /\ u \in Slot \ s.free /\ c \in Slot /\ u # c
      /\ s.PID_MAP \in [Pid -> Slot \cup {NULL}] /\ s.pid \in [Slot -> Pid] /\ s.PID \in Int
      /\ s.pgid \in [Slot -> Pid] /\ s.wait \in [Slot -> Pid] /\ s.free \in SUBSET Slot
  BY SettledCurrent DEF LiveOf, Kernel
<1>2. /\ t.wait = [s.wait EXCEPT ![c] = 0] /\ t.pid = [s.pid EXCEPT ![c] = s.PID]
      /\ t.PID = s.PID + 1 /\ t.PID_MAP = [s.PID_MAP EXCEPT ![s.PID] = c]
      /\ t.free = s.free \ {c} /\ t.pgid = [s.pgid EXCEPT ![c] = s.pgid[u]] /\ t \in Kernel
  BY DEF Forked
<1>3. s.PID \in Pid
  <2>1. t.pid[c] \in Pid
    BY <1>1, <1>2 DEF Kernel
  <2> QED BY <1>1, <1>2, <2>1
<1> HIDE DEF u
<1>4. Enrolled(t)
  <2>1. \A p \in Slot : t.wait[p] = 0
    BY <1>1, <1>2 DEF Enrolled
  <2>2. ASSUME NEW p \in Slot \ t.free PROVE t.PID_MAP[t.pid[p]] = p /\ t.pid[p] < t.PID
    <3>1. CASE p = c
      BY <1>1, <1>2, <1>3, <3>1
    <3>2. CASE p # c
      <4>1. p \in Slot \ s.free /\ t.pid[p] = s.pid[p]
        BY <1>1, <1>2, <3>2
      <4>2. s.pid[p] < s.PID /\ s.PID_MAP[s.pid[p]] = p /\ s.pid[p] \in Pid
        BY <1>1, <4>1 DEF Enrolled
      <4>3. s.pid[p] # s.PID /\ s.pid[p] < s.PID + 1
        BY <1>1, <4>2 DEF Pid
      <4> QED BY <1>1, <1>2, <4>1, <4>2, <4>3
    <3> QED BY <3>1, <3>2
  <2>3. \A i \in Pid : t.PID_MAP[i] # NULL => t.PID_MAP[i] \notin t.free
    BY <1>1, <1>2, <1>3 DEF Enrolled
  <2> QED BY <2>1, <2>2, <2>3 DEF Enrolled
<1>5. ASSUME NEW l, NEW g, Members(s, l, g) PROVE Members(t, l, g)
  <2>1. l \in Seq(Slot) /\ \A i \in 1..Len(l) : l[i] \in Slot
    BY <1>5 DEF Members
  <2>2. ASSUME NEW i \in 1..Len(l) PROVE l[i] \notin t.free /\ t.pgid[l[i]] = g
    <3>1. l[i] \in Slot /\ l[i] \notin s.free /\ s.pgid[l[i]] = g
      BY <1>5, <2>1 DEF Members
    <3> QED BY <1>1, <1>2, <3>1
  <2> QED BY <1>5, <2>1, <2>2 DEF Members
<1>6. ASSUME NEW p \in Slot \ t.free, t.pgid[p] # 0
      PROVE  Members(t, groups[t.pgid[p]], t.pgid[p])
  <2>1. \E q \in Slot \ s.free : t.pgid[p] = s.pgid[q]
    BY <1>1, <1>2
  <2> QED BY <1>5, <1>6, <2>1 DEF Lists
<1> QED BY <1>4, <1>5, <1>6 DEF Lists

\* p is not, or no longer, on the list.
Without(s, l, g, p) == Members(s, l, g) /\ \A i \in 1..Len(l) : l[i] # p

\* The removal from the old list, whichever group the process goes to.
LEMMA LeaveLists ==
  ASSUME NEW s, NEW groups, Settled(s), Enrolled(s), Lists(s, groups), NEW p \in Slot \ s.free
  PROVE  LET r == RemoveFromGroup(s, groups, p) IN
         /\ DOMAIN r = Pid
         /\ \A g \in Pid \ {0} : r[g] = NULL \/ Without(s, r[g], g, p)
         /\ \A g \in Pid \ {0} : Members(s, groups[g], g) => Without(s, r[g], g, p)
<1> DEFINE r == RemoveFromGroup(s, groups, p)
           h == s.pgid[p]
<1>1. s \in Kernel /\ h \in Pid /\ DOMAIN groups = Pid
  BY SettledCurrent DEF Kernel, Lists
<1>2. ASSUME NEW g \in Pid \ {0}, g # h, Members(s, groups[g], g)
      PROVE  Without(s, groups[g], g, p)
  BY <1>2 DEF Members, Without
<1>3. CASE h = 0
  <2>1. r = groups
    BY <1>3 DEF RemoveFromGroup
  <2> QED BY <1>1, <1>2, <1>3, <2>1 DEF Lists
<1>4. CASE h # 0
  <2> DEFINE base == groups[h]
  <2>1. Members(s, base, h) /\ base \in Seq(Slot) /\ Distinct(base)
    BY <1>1, <1>4 DEF Lists, Members
  <2>2. ASSUME NEW i \in 1..Len(base), NEW j \in 1..Len(base), s.pid[base[i]] = s.pid[base[j]]
        PROVE  base[i] = base[j]
    <3>1. base[i] \in Slot \ s.free /\ base[j] \in Slot \ s.free
      BY <2>1 DEF Members
    <3> HIDE DEF base
    <3> QED BY <2>2, <3>1 DEF Enrolled
  <2>3. PICK l : r = [groups EXCEPT ![h] = l] /\ Walked(s, s.pid[p], base, Len(base), l)
    <3> HIDE DEF h
    <3>1. h = s.pgid[p] /\ h \in DOMAIN groups /\ base = groups[h]
      BY <1>1 DEF h
    <3> HIDE DEF base
    <3> QED BY <1>4, <2>1, <2>2, <3>1, RemoveLeaves
  <2> HIDE DEF base, r
  <2>4. l \in Seq(Slot) /\ Distinct(l) /\ Len(l) \in Nat /\ Len(base) \in Nat /\ Len(l) <= Len(base)
    BY <2>1, <2>3 DEF Walked
  <2>5. ASSUME NEW i \in 1..Len(l) PROVE l[i] \notin s.free /\ s.pgid[l[i]] = h /\ l[i] # p
    <3>1. PICK j \in 1..Len(base) : l[i] = base[j]
      BY <2>3 DEF Walked
    <3>2. i <= Len(base)
      BY <2>4
    <3>3. s.pid[l[i]] # s.pid[p]
      BY <2>3, <3>2 DEF Walked
    <3> QED BY <2>1, <3>1, <3>3 DEF Members
  <2>6. Without(s, l, h, p)
    BY <2>4, <2>5 DEF Members, Without
  <2>7. DOMAIN r = Pid /\ r[h] = l /\ \A g \in Pid \ {h} : r[g] = groups[g]
    BY <1>1, <2>3
  <2> HIDE DEF h
  <2>8. ASSUME NEW g \in Pid \ {0}
        PROVE  /\ r[g] = NULL \/ Without(s, r[g], g, p)
               /\ Members(s, groups[g], g) => Without(s, r[g], g, p)
    <3>1. CASE g = h
      BY <2>6, <2>7, <3>1
    <3>2. CASE g # h
      BY <1>2, <2>7, <3>2 DEF Lists
    <3> QED BY <3>1, <3>2
  <2> QED BY <2>7, <2>8 DEF r
<1> QED BY <1>3, <1>4

\* The change of a group: p leaves one list and is entered in another.
LEMMA RegroupLists ==
  ASSUME NEW s, NEW t, NEW groups, Settled(s), Enrolled(s), Lists(s, groups),
         NEW p \in Slot \ s.free, NEW g \in Pid, Regroups(s, p, g, t)
  PROVE  Enrolled(t) /\ Lists(t, AddToGroup(RemoveFromGroup(s, groups, p), p, g))
<1> DEFINE r == RemoveFromGroup(s, groups, p)
           a == AddToGroup(r, p, g)
<1>1. /\ s.pgid \in [Slot -> Pid] /\ t.pgid = [s.pgid EXCEPT ![p] = g] /\ t.free = s.free
      /\ t.wait = s.wait /\ t.pid = s.pid /\ t.PID = s.PID /\ t.PID_MAP = s.PID_MAP
  BY SettledCurrent DEF Regroups, Stays, Known, SameWaits, Kernel
<1>2. Enrolled(t)
  BY <1>1 DEF Enrolled
<1>3. /\ DOMAIN r = Pid
      /\ \A h \in Pid \ {0} : r[h] = NULL \/ Without(s, r[h], h, p)
      /\ \A h \in Pid \ {0} : Members(s, groups[h], h) => Without(s, r[h], h, p)
  BY LeaveLists
<1> HIDE DEF r
<1>4. /\ DOMAIN a = Pid /\ a[g] = IF r[g] = NULL THEN <<p>> ELSE Append(r[g], p)
      /\ \A h \in Pid \ {g} : a[h] = r[h]
  BY <1>3 DEF AddToGroup
<1> HIDE DEF a
<1>5. ASSUME NEW l, NEW h, Without(s, l, h, p) PROVE Members(t, l, h)
  <2>1. \A i \in 1..Len(l) : l[i] \in Slot
    BY <1>5 DEF Without, Members
  <2> QED BY <1>1, <1>5, <2>1 DEF Without, Members
<1>6. ASSUME g # 0 PROVE Members(t, a[g], g)
  <2>1. CASE r[g] = NULL
    <3>1. a[g] = <<p>>
      BY <1>4, <2>1
    <3>2. <<p>> \in Seq(Slot) /\ Len(<<p>>) = 1 /\ <<p>>[1] = p
      OBVIOUS
    <3>3. p \notin t.free /\ t.pgid[p] = g
      BY <1>1
    <3> QED BY <3>1, <3>2, <3>3 DEF Members, Distinct
  <2>2. CASE r[g] # NULL
    <3> DEFINE l == r[g]
               m == Append(l, p)
    <3>1. Without(s, l, g, p) /\ Members(t, l, g)
      BY <1>3, <1>5, <1>6, <2>2
    <3>2. a[g] = m
      BY <1>4, <2>2
    <3> HIDE DEF l
    <3>3. l \in Seq(Slot) /\ Len(l) \in Nat
      BY <3>1 DEF Members
    <3>4. /\ m \in Seq(Slot) /\ Len(m) = Len(l) + 1 /\ m[Len(l) + 1] = p
          /\ \A i \in 1..Len(l) : m[i] = l[i]
      BY <3>3
    <3> HIDE DEF m
    <3>5. \A i \in 1..Len(m) : i \in 1..Len(l) \/ i = Len(l) + 1
      BY <3>3, <3>4
    <3>6. \A i \in 1..Len(m) : m[i] \notin t.free /\ t.pgid[m[i]] = g
      BY <1>1, <3>1, <3>4, <3>5 DEF Members
    <3>7. Distinct(m)
      <4> SUFFICES ASSUME NEW i \in 1..Len(m), NEW j \in 1..Len(m), m[i] = m[j] PROVE i = j
        BY DEF Distinct
      <4>1. \A x \in 1..Len(l) : m[x] = l[x] /\ l[x] # p
        BY <3>1, <3>4 DEF Without
      <4>2. CASE i \in 1..Len(l) /\ j \in 1..Len(l)
        BY <3>1, <4>1, <4>2 DEF Members, Distinct
      <4>3. CASE ~(i \in 1..Len(l) /\ j \in 1..Len(l))
        BY <3>4, <3>5, <4>1, <4>3
      <4> QED BY <4>2, <4>3
    <3> QED BY <3>2, <3>4, <3>6, <3>7 DEF Members
  <2> QED BY <2>1, <2>2
<1>7. ASSUME NEW h \in Pid \ {0} PROVE a[h] = NULL \/ Members(t, a[h], h)
  BY <1>3, <1>4, <1>5, <1>6
<1>8. ASSUME NEW q \in Slot \ t.free, t.pgid[q] # 0 PROVE Members(t, a[t.pgid[q]], t.pgid[q])
  <2>1. CASE t.pgid[q] = g
    BY <1>6, <1>8, <2>1
  <2>2. CASE t.pgid[q] # g
    <3>1. q # p /\ t.pgid[q] = s.pgid[q] /\ s.pgid[q] \in Pid \ {0} /\ q \in Slot \ s.free
      BY <1>1, <1>8, <2>2
    <3>2. Members(s, groups[s.pgid[q]], s.pgid[q])
      BY <3>1 DEF Lists
    <3>3. Members(t, r[s.pgid[q]], s.pgid[q])
      BY <1>3, <1>5, <3>1, <3>2
    <3> QED BY <1>4, <2>2, <3>1, <3>3
  <2> QED BY <2>1, <2>2
<1> QED BY <1>2, <1>4, <1>7, <1>8 DEF Lists, a, r

\* A step of the system that is not waitpid or setsid keeps the lists.
LEMMA NextLists ==
  ASSUME Deployment, "setsid" \notin Calls, "waitpid" \notin Calls, Settled(k), [Next]_vars,
         Enrolled(k), Lists(k, PGID_MAP)
  PROVE  Enrolled(k') /\ Lists(k', PGID_MAP')
<1>1. /\ Settled(k') /\ k.CURRENT \in Slot \ k.free
      /\ \/ Moved(k, k') /\ PGID_MAP' = PGID_MAP
         \/ \E p \in Slot : \E g \in Pid : Joins(p, g)
  BY NextSettled, SettledCurrent DEF LiveOf
<1>2. ASSUME NEW p \in Slot, NEW g \in Pid, Joins(p, g)
      PROVE  Enrolled(k') /\ Lists(k', PGID_MAP')
  <2>1. p \in Slot \ k.free
    BY <1>1, <1>2, NullIsNoSlot DEF Joins, Enrolled
  <2> QED BY <1>2, <2>1, RegroupLists DEF Joins
<1>3. ASSUME NEW c \in k.free, Forked(k, c, k'), PGID_MAP' = PGID_MAP
      PROVE  Enrolled(k') /\ Lists(k', PGID_MAP')
  BY <1>3, ForkLists
<1>4. ASSUME Handled(k, k') \/ \E p \in Slot : Continues(k, p, k'), PGID_MAP' = PGID_MAP
      PROVE  Enrolled(k') /\ Lists(k', PGID_MAP')
  <2>1. k.wait[k.CURRENT] = 0
    BY <1>1 DEF Enrolled
  <2>2. /\ k'.pgid = k.pgid /\ k'.wait = k.wait /\ k'.pid = k.pid /\ k'.PID = k.PID
        /\ k'.PID_MAP = k.PID_MAP /\ k'.free = k.free
    BY <1>4, <2>1 DEF Handled, Continues, Stays, Reads, LineReady, Ends, Known, SameWaits
  <2> QED BY <1>4, <2>2, HandledLists
<1> QED BY <1>1, <1>2, <1>3, <1>4 DEF Moved

\* A process that moves to another group leaves the list of the old one, although the
\* loop of process_remove_from_group moves entries in the list it walks over: nobody is
\* on the list of a group but its processes, as long as nobody calls setsid, which
\* removes nobody, and no slot is given back to be used again (by an exit that a
\* waitpid waits for, which removes nobody either).
THEOREM GroupsExclusive ==
  ASSUME Deployment, "setsid" \notin Calls, "waitpid" \notin Calls
  PROVE  Spec => []OneGroupEach
<1> DEFINE Inv == Settled(k) /\ Enrolled(k) /\ Lists(k, PGID_MAP)
<1>1. Init => Inv
  <2> SUFFICES ASSUME Init PROVE Enrolled(k) /\ Lists(k, PGID_MAP)
    BY InitSettled
  <2>1. PICK a \in Slot, c \in Slot : a # c /\ k = ProcessFork(Launch(a), c)
    BY DEF Init
  <2>2. /\ Settled(k) /\ LiveOf(k) = {a, c} /\ k.wait = [p \in Slot |-> 0]
        /\ k.free = Slot \ {a, c} /\ k.pgid = [p \in Slot |-> 0]
        /\ \A i \in Pid : k.PID_MAP[i] \in {a, c, NULL}
    BY <2>1, LaunchFields, LaunchedForks
  <2>3. PidsKnown(k)
    BY <2>2 DEF Settled, Core
  <2>4. Enrolled(k)
    BY <2>2, <2>3 DEF Enrolled, PidsKnown
  <2>5. PGID_MAP = [i \in Pid |-> NULL]
    BY DEF Init
  <2> QED BY <2>2, <2>4, <2>5 DEF Lists
<1>2. Inv /\ [Next]_vars => Inv'
  BY NextSettled, NextLists
<1>3. Inv => OneGroupEach
  BY DEF OneGroupEach, Lists, Members, ToSet
<1> QED BY <1>1, <1>2, <1>3, PTL DEF Spec
=============================================================================
