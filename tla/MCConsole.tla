------------------------------ MODULE MCConsole ------------------------------
EXTENDS Console, TLC

CONSTANTS p1, p2

ReaderSymmetry == Permutations(Reader)

\* A prompt, a line, and characters taken back.
SomeTexts == {<<"a">>, <<"a", "NL">>, <<"BS", "BS">>}
==============================================================================
