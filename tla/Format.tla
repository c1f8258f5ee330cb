------------------------------- MODULE Format -------------------------------
(* Numbers to text and back: printf and scanf of the C library                *)
(* (std/src/stdio.c), atoi (std/src/stdlib.c) and the kernel's int_to_cstr    *)
(* (kstring.c). Text is a sequence of character codes. int has the range of   *)
(* Width bits, printf's buffer Buffer cells. A program prints a line, and     *)
(* another, or the user, enters the same line to one that scans it.           *)
EXTENDS Integers, Sequences, FiniteSets, SequencesExt

CONSTANTS Width,     \* bits of an int
          Buffer,    \* cells of printf's buffer
          Formats,   \* <<format, its arguments>>: format strings in use
          Numbers    \* the numbers int_to_cstr is asked for

ASSUME FormatAssumption == Width \in Nat \ {0, 1} /\ Buffer \in Nat \ {0, 1} /\ IsFiniteSet(Numbers)

VARIABLES job,      \* what the last step was: <<format, arguments>> or a number
          output,   \* the text it wrote
          got       \* what was read back from it, as a sequence

fvars == <<job, output, got>>

-----------------------------------------------------------------------------
Percent == 37
Minus == 45
Space == 32
Newline == 10
Codes == [d |-> 100, u |-> 117, x |-> 120, s |-> 115, c |-> 99]
INT_MIN == -(2^(Width - 1))
Wrapped(v) == ((v - INT_MIN) % 2^Width) + INT_MIN  \* an int that overflowed
Unsigned(v) == v % 2^Width
None == <<>>

RECURSIVE Digits(_, _)
Digits(v, base) ==
  IF v <= 0 THEN <<>>
  ELSE Append(Digits(v \div base, base), IF v % base < 10 THEN 48 + (v % base) ELSE 87 + (v % base))
itoa(v, base) == IF v = 0 THEN <<48>> ELSE Digits(v, base)

\* The kernel's conversion spells the smallest number, which has no negative.
int_to_cstrNegates(v) == IF v >= 0 THEN itoa(v, 10) ELSE <<Minus>> \o Digits(Wrapped(-v), 10)
int_to_cstr(v) ==
  IF v = INT_MIN THEN <<Minus>> \o Digits(2^(Width - 1), 10) ELSE int_to_cstrNegates(v)

RECURSIVE AtoiFrom(_, _, _)
AtoiFrom(text, i, result) ==
  IF i \in DOMAIN text /\ text[i] \in 48..57
  THEN AtoiFrom(text, i + 1, Wrapped(result * 10 + (text[i] - 48))) ELSE result
atoi(text) ==
  IF text # <<>> /\ text[1] = Minus THEN Wrapped(-AtoiFrom(text, 2, 0)) ELSE AtoiFrom(text, 1, 0)

Shortened(text, n) == IF Len(text) <= n THEN text ELSE SubSeq(text, 1, n)

\* One conversion of printf: text goes into the buffer up to its last cell, a
\* sign, a single character and an unknown conversion without looking.
FillToTheEnd(out, text, size) == out \o Shortened(text, size - Len(out))
Fill(out, text, size) == out \o Shortened(text, size - 1 - Len(out))
Signed(out, v, size) ==
  IF v < 0 THEN Fill(Append(out, Minus), itoa(Unsigned(Wrapped(-v)), 10), size)
  ELSE Fill(out, itoa(v, 10), size)
Converted(out, code, arg, size) ==
  CASE code = Codes.s  -> Fill(out, arg, size)
    [] code = Codes.d  -> Signed(out, arg, size)
    [] code = Codes.u  -> Fill(out, itoa(Unsigned(arg), 10), size)
    [] code = Codes.x  -> Fill(out, itoa(Unsigned(arg), 16), size)
    [] code = Codes.c  -> Append(out, arg)
    [] code = Percent  -> Append(out, Percent)
    [] OTHER           -> out \o <<Percent, code>>
Takes(code) == code \in {Codes.s, Codes.d, Codes.u, Codes.x, Codes.c}

RECURSIVE PrintFrom(_, _, _, _)
PrintFrom(format, args, out, size) ==
  IF format = <<>> \/ format = <<Percent>> \/ Len(out) >= size - 1 THEN out
  ELSE IF format[1] # Percent THEN PrintFrom(Tail(format), args, Append(out, format[1]), size)
  ELSE LET code == format[2]
           arg == IF Takes(code) THEN args[1] ELSE 0
           rest == IF Takes(code) THEN Tail(args) ELSE args
       IN  PrintFrom(Tail(Tail(format)), rest, Converted(out, code, arg, size), size)
printf(format, args, size) == PrintFrom(format, args, <<>>, size)

\* scanf, which skips the blanks in front of an item and nothing else: other
\* characters of the format are passed over without a look at the input.
RECURSIVE SkipBlanks(_)
SkipBlanks(in) == IF in # <<>> /\ in[1] = Space THEN SkipBlanks(Tail(in)) ELSE in
Ending == {Space, Newline}
RECURSIVE Word(_)
Word(in) == IF in = <<>> \/ in[1] \in Ending THEN <<>> ELSE <<in[1]>> \o Word(Tail(in))
Item(code, in) ==
  CASE code = Codes.d -> [value |-> <<atoi(in)>>, used |-> Len(Word(in))]
    [] code = Codes.s -> [value |-> <<Word(in)>>, used |-> Len(Word(in))]
    [] code = Codes.c -> IF in = <<>> THEN [value |-> <<0>>, used |-> 0] ELSE [value |-> <<in[1]>>, used |-> 1]
Scanned(code) == code \in {Codes.d, Codes.s, Codes.c}
RECURSIVE ScanFrom(_, _)
ScanFrom(format, in) ==
  IF format = <<>> THEN <<>>
  ELSE IF format[1] # Percent THEN ScanFrom(Tail(format), in)
  ELSE IF ~Scanned(format[2]) THEN ScanFrom(Tail(Tail(format)), in)
  ELSE LET rest == SkipBlanks(in)
           item == Item(format[2], rest)
       IN  item.value \o ScanFrom(Tail(Tail(format)), SubSeq(rest, item.used + 1, Len(rest)))
scanf(format, in) == ScanFrom(format, in)

-----------------------------------------------------------------------------
\* One step per call; a number is a job without a format.
Outputs(format, args, text) ==
  /\ job' = [format |-> format, args |-> args]
  /\ output' = text
  /\ got' = None
WriteLine == \E f \in Formats : Outputs(f[1], f[2], printf(f[1], f[2], Buffer))
Convert == \E v \in Numbers : Outputs(<<>>, <<v>>, int_to_cstr(v))
Read(values) == got' = values /\ UNCHANGED <<job, output>>
ReadLine == job.format # <<>> /\ Last(job.format) # Percent /\ Read(scanf(job.format, output))
Parse == job.format = <<>> /\ job.args # <<>> /\ Read(<<atoi(output)>>)

FInit == job = [format |-> <<>>, args |-> <<>>] /\ output = <<>> /\ got = None
FNext == WriteLine \/ Convert \/ ReadLine \/ Parse
FSpec == FInit /\ [][FNext]_fvars

-----------------------------------------------------------------------------
Whole == printf(job.format, job.args, 1000)  \* with room for everything

\* printf never writes behind its buffer, the zero at the end included, but
\* for an unknown conversion that starts two cells from the end; and what it
\* writes is all there is to write, or the part of it that fits.
PrintfFits ==
  job.format # <<>> =>
    /\ IsPrefix(output, Whole)
    /\ output = Whole \/ Len(output) >= Buffer - 1
    /\ \/ Len(output) < Buffer
       \/ Len(output) = Buffer /\ output[Buffer - 1] = Percent

\* What was printed with %d, %s and %c and a blank in between is read back by
\* scanf with the same format, and what int_to_cstr wrote by atoi, for every
\* number an int holds, unless printf had to cut the text.
Scannable ==
  /\ \A i \in DOMAIN job.format :
       CASE i % 3 = 1 -> job.format[i] = Percent
         [] i % 3 = 2 -> Scanned(job.format[i])
         [] OTHER     -> job.format[i] = Space
  /\ Len(Whole) < Buffer
ReadsBack == got # None /\ Scannable => got = job.args
=============================================================================
