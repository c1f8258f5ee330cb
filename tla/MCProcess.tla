------------------------------ MODULE MCProcess ------------------------------
EXTENDS Process, TLC

CONSTANTS s1, s2, s3, s4

SlotSymmetry == Permutations(Slot)

\* For one process and for a group: to end, to stop, to resume, and one that is ignored.
KillsSome == {<<0, "SIGCONT">>, <<2, "SIGSTOP">>, <<2, "SIGTERM">>, <<0, "SIGCHLD">>, <<-2, "SIGCONT">>}
KillsTerm == {<<2, "SIGTERM">>}
==============================================================================
