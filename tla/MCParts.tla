------------------------------ MODULE MCParts -------------------------------
(* Parts of the kernel and of the programs that share no state but the memory *)
(* they are given: the page allocator, the kernel heap, an object pool, a pid *)
(* table, the shell's tables in the user heap, the string helpers and the     *)
(* conversions of numbers. A behaviour exercises one of them and leaves the   *)
(* others as they were initialised.                                           *)
EXTENDS Paging, Heap, Pool, PidTable, Shell, CStrings, Format

VARIABLE part  \* the one this behaviour exercises

\* One 4KB page is reserved, and makes a 2MB page unusable.
OneReserved == {<<0, 1>>}

MCLines ==
  {<<"A", "=", "x">>, <<"B", "=", "x", "y", "x">>, <<"A", "=">>,
   <<"export", " ", "A">>, <<"export", " ", "x", "B">>, <<"unset", " ", "A">>, <<"unset", " ", "A", "B">>,
   <<"alias", " ", "x", " ", "'", "A", " ", "y", "'">>, <<"alias", " ", "y", " ", "unset", " ", "C">>,
   <<"alias", " ", "x", " ", "y">>, <<"unalias", " ", "x">>, <<"unalias", " ", "y">>,
   <<"x">>, <<"y", " ", "A">>, <<" ", "A", "=", "x">>, <<"set">>}

\* A conversion and its argument: an unknown one, too, and texts that do not
\* fit. Formats have one or two of them behind a few characters.
Conversions ==
  {<<Codes.d, <<v>>>> : v \in {-128, -7, 0, 127}} \cup {<<Codes.s, <<w>>>> : w \in {<<97>>, <<97, 98, 99, 100, 101>>}}
  \cup {<<Codes.c, <<97>>>>, <<Codes.u, <<200>>>>, <<Codes.x, <<171>>>>, <<Percent, <<>>>>, <<113, <<>>>>}
Literals == {<<>>, <<98>>, <<98, 98, 98>>, <<98, 98, 98, 98>>}
MCFormats ==
  {<<l \o <<Percent, a[1]>>, a[2]>> : l \in Literals, a \in Conversions} \cup
  {<<l \o <<Percent, a[1], Space, Percent, b[1]>>, a[2] \o b[2]>> : l \in Literals, a, b \in Conversions}
MCNumbers == -128..127

vars == <<part, pvars, hvars, ovars, tvars, svars, cvars, fvars>>

Init ==
  /\ part \in {"pages", "heap", "pool", "table", "shell", "strings", "format"}
  /\ PInit /\ HInit /\ OInit /\ TInit /\ SInit /\ FInit
  /\ CInit /\ (part # "strings" => mem = [a \in 1..Cells |-> 0])

Next ==
  /\ UNCHANGED part
  /\ \/ part = "pages" /\ PNext /\ UNCHANGED <<hvars, ovars, tvars, svars, cvars, fvars>>
     \/ part = "heap" /\ HNext /\ UNCHANGED <<pvars, ovars, tvars, svars, cvars, fvars>>
     \/ part = "pool" /\ ONext /\ UNCHANGED <<pvars, hvars, tvars, svars, cvars, fvars>>
     \/ part = "table" /\ TNext /\ UNCHANGED <<pvars, hvars, ovars, svars, cvars, fvars>>
     \/ part = "shell" /\ SNext /\ UNCHANGED <<pvars, hvars, ovars, tvars, cvars, fvars>>
     \/ part = "strings" /\ CNext /\ UNCHANGED <<pvars, hvars, ovars, tvars, svars, fvars>>
     \/ part = "format" /\ FNext /\ UNCHANGED <<pvars, hvars, ovars, tvars, svars, cvars>>

Spec == Init /\ [][Next]_vars
=============================================================================
