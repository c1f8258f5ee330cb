------------------------------- MODULE Terminal ------------------------------
(***************************************************************************)
(* What the terminal promises its readers: a process that asks for a line  *)
(* gets what was typed since it asked, with what was erased taken out.     *)
(* There is one line: a process that asks while another waits takes it     *)
(* over.  Module Console implements this.                                  *)
(***************************************************************************)
EXTENDS Naturals, Sequences, SequencesExt

CONSTANTS
  Reader,   \* the processes that read the terminal
  Nobody,   \* no process, no line
  Char      \* the characters that can be typed

VARIABLES
  asker,   \* the process the line is for
  typed,   \* what it has of the line
  given    \* the last line given, and to whom

tvars == <<asker, typed, given>>

TInit == asker = Nobody /\ typed = <<>> /\ given = [to |-> Nobody, line |-> <<>>]

Ask(p) == asker # p /\ asker' = p /\ typed' = <<>> /\ UNCHANGED given

Type(c) == asker # Nobody /\ typed' = Append(typed, c) /\ UNCHANGED <<asker, given>>

\* An interrupt key shows as two characters and enters its letter twice.
Interrupt(c) == asker # Nobody /\ typed' = typed \o <<c, c>> /\ UNCHANGED <<asker, given>>

Erase == asker # Nobody /\ typed # <<>> /\ typed' = Front(typed) /\ UNCHANGED <<asker, given>>

Enter == /\ asker # Nobody
         /\ given' = [to |-> asker, line |-> typed]
         /\ asker' = Nobody /\ typed' = <<>>

TNext == \/ \E p \in Reader : Ask(p)
         \/ \E c \in Char : Type(c) \/ Interrupt(c)
         \/ Erase \/ Enter

TSpec == TInit /\ [][TNext]_tvars
==============================================================================
