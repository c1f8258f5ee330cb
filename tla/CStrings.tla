------------------------------ MODULE CStrings ------------------------------
(* The string helpers of the kernel (kstring.c, whose 8-bit and 16-bit forms  *)
(* are the same loops; the C library, std/src/string.c, and the ext2 driver   *)
(* have copies of most), the ones that differ from the kernel's, and those    *)
(* only the C library has. Memory is a sequence of cells and a string the     *)
(* cells up to a zero; a call is one step, its loop a recursion that sees the *)
(* cells it has already written. Callers keep the contract of the C           *)
(* functions: strings end in memory, there is room at the destination and,    *)
(* but for memmove, no overlap.                                               *)
EXTENDS Integers, Sequences, FiniteSetsExt

CONSTANTS Cells,       \* number of cells of memory
          Characters   \* what a cell holds

ASSUME CStringsAssumption == Cells \in Nat \ {0} /\ Characters \subseteq 0..255 /\ 0 \in Characters

VARIABLES mem,      \* the cells, at addresses 1..Cells; 0 is NULL
          called    \* the last call: function, arguments and result

cvars == <<mem, called>>

-----------------------------------------------------------------------------
RECURSIVE kernel_strlen(_, _)
kernel_strlen(m, s) == IF m[s] = 0 THEN 0 ELSE 1 + kernel_strlen(m, s + 1)

RECURSIVE kernel_strcpy(_, _, _)
kernel_strcpy(m, d, s) ==
  LET w == [m EXCEPT ![d] = m[s]] IN IF m[s] = 0 THEN w ELSE kernel_strcpy(w, d + 1, s + 1)

\* memset and memcpy count upwards; memmove counts downwards when the source
\* starts below the destination.
memset(m, s, c, n) == [a \in DOMAIN m |-> IF a \in s..(s + n - 1) THEN c ELSE m[a]]
RECURSIVE memcpy(_, _, _, _)
memcpy(m, d, s, n) == IF n = 0 THEN m ELSE memcpy([m EXCEPT ![d] = m[s]], d + 1, s + 1, n - 1)
RECURSIVE CopyDown(_, _, _, _)
CopyDown(m, d, s, n) ==
  IF n = 0 THEN m ELSE CopyDown([m EXCEPT ![d + n - 1] = m[s + n - 1]], d, s, n - 1)
memmoveUpwards(m, d, s, n) == memcpy(m, d, s, n)
memmove(m, d, s, n) == IF d < s THEN memcpy(m, d, s, n) ELSE IF d > s THEN CopyDown(m, d, s, n) ELSE m

RECURSIVE kernel_strncpy(_, _, _, _)
kernel_strncpy(m, d, s, n) ==
  IF n = 0 \/ m[s] = 0 THEN memset(m, d, 0, n)
  ELSE kernel_strncpy([m EXCEPT ![d] = m[s]], d + 1, s + 1, n - 1)

kernel_strcat(m, d, s) == kernel_strcpy(m, d + kernel_strlen(m, d), s)

\* The kernel's strncat (and the C library's) stops at a zero of src[i], where
\* i counts in the destination; the ext2 driver's looks at src[j].
RECURSIVE KernelAppend(_, _, _, _, _, _)
KernelAppend(m, d, s, i, j, n) ==
  IF j < n /\ m[s + i] # 0 THEN KernelAppend([m EXCEPT ![d + i] = m[s + j]], d, s, i + 1, j + 1, n)
  ELSE [m EXCEPT ![d + i] = 0]
kernel_strncat(m, d, s, n) == KernelAppend(m, d, s, kernel_strlen(m, d), 0, n)
RECURSIVE DriverAppend(_, _, _, _)
DriverAppend(m, at, s, n) ==
  IF n > 0 /\ m[s] # 0 THEN DriverAppend([m EXCEPT ![at] = m[s]], at + 1, s + 1, n - 1)
  ELSE [m EXCEPT ![at] = 0]
ext2_strncat(m, d, s, n) == DriverAppend(m, d + kernel_strlen(m, d), s, n)

-----------------------------------------------------------------------------
\* The kernel's comparisons return an unsigned byte. strncmp of the C library
\* has an unsigned n, which is never below zero behind the loop.
RECURSIVE kernel_strcmp(_, _, _)
kernel_strcmp(m, a, b) ==
  IF m[a] # 0 /\ m[a] = m[b] THEN kernel_strcmp(m, a + 1, b + 1) ELSE (m[a] - m[b]) % 256
RECURSIVE strncmp(_, _, _, _)
strncmp(m, a, b, n) ==
  IF n > 0 /\ m[a] # 0 /\ m[a] = m[b] THEN strncmp(m, a + 1, b + 1, n - 1) ELSE m[a] - m[b]
kernel_strncmpUnsigned(m, a, b, n) == strncmp(m, a, b, n) % 256
RECURSIVE kernel_strncmp(_, _, _, _)
kernel_strncmp(m, a, b, n) ==
  IF n = 0 THEN 0
  ELSE IF m[a] # 0 /\ m[a] = m[b] THEN kernel_strncmp(m, a + 1, b + 1, n - 1)
  ELSE (m[a] - m[b]) % 256
RECURSIVE memcmp(_, _, _, _)
memcmp(m, a, b, n) ==
  IF n = 0 THEN 0 ELSE IF m[a] # m[b] THEN m[a] - m[b] ELSE memcmp(m, a + 1, b + 1, n - 1)

RECURSIVE kernel_strchr(_, _, _)
kernel_strchr(m, s, c) ==
  IF m[s] = 0 THEN (IF c = 0 THEN s ELSE 0) ELSE IF m[s] = c THEN s ELSE kernel_strchr(m, s + 1, c)
RECURSIVE LastSeen(_, _, _, _)
LastSeen(m, s, c, last) ==
  IF m[s] = 0 THEN (IF c = 0 THEN s ELSE last)
  ELSE LastSeen(m, s + 1, c, IF m[s] = c THEN s ELSE last)
kernel_strrchr(m, s, c) == LastSeen(m, s, c, 0)
RECURSIVE memchr(_, _, _, _)
memchr(m, s, c, n) == IF n = 0 THEN 0 ELSE IF m[s] = c THEN s ELSE memchr(m, s + 1, c, n - 1)

RECURSIVE Matches(_, _, _)
Matches(m, h, n) == IF m[h] # 0 /\ m[n] # 0 /\ m[h] = m[n] THEN Matches(m, h + 1, n + 1) ELSE m[n] = 0
RECURSIVE FindFrom(_, _, _)
FindFrom(m, h, n) == IF m[h] = 0 THEN 0 ELSE IF Matches(m, h, n) THEN h ELSE FindFrom(m, h + 1, n)
kernel_strstr(m, h, n) == IF m[n] = 0 THEN h ELSE FindFrom(m, h, n)

\* strspn and strcspn count characters that are, or are not, in a set.
RECURSIVE Span(_, _, _, _)
Span(m, s, set, in) ==
  IF m[s] # 0 /\ (kernel_strchr(m, set, m[s]) # 0) = in THEN 1 + Span(m, s + 1, set, in) ELSE 0
strspn(m, s, accept) == Span(m, s, accept, TRUE)
strcspn(m, s, reject) == Span(m, s, reject, FALSE)
RECURSIVE strpbrk(_, _, _)
strpbrk(m, s, accept) ==
  IF m[s] = 0 THEN 0 ELSE IF kernel_strchr(m, accept, m[s]) # 0 THEN s ELSE strpbrk(m, s + 1, accept)

-----------------------------------------------------------------------------
\* The string at an address, and the addresses a string starts at.
Terminated(m, a) == \E e \in a..Cells : m[e] = 0
Str(m, a) == SubSeq(m, a, Min({e \in a..Cells : m[e] = 0}) - 1)
Texts == {a \in 1..Cells : Terminated(mem, a)}
Length(a) == Len(Str(mem, a))
Apart(d, n, s, k) == d + n - 1 <= Cells /\ (d + n <= s \/ s + k <= d)

Called(f, a, b, n, ret) == called' = [f |-> f, a |-> a, b |-> b, n |-> n, ret |-> ret]
Wrote(f, d, s, n, m) == mem' = m /\ Called(f, d, s, n, d)
Answers(f, a, b, n, ret) == UNCHANGED mem /\ Called(f, a, b, n, ret)

\* Calls that write n cells at d, read from s.
CopyString == \E d \in 1..Cells, s \in Texts :
  Apart(d, Length(s) + 1, s, Length(s) + 1) /\ Wrote("strcpy", d, s, 0, kernel_strcpy(mem, d, s))
CopyBounded == \E d \in 1..Cells, s \in Texts, n \in 0..Cells :
  Apart(d, n, s, Length(s) + 1) /\ Wrote("strncpy", d, s, n, kernel_strncpy(mem, d, s, n))
Concatenate == \E d, s \in Texts :
  Apart(d, Length(d) + Length(s) + 1, s, Length(s) + 1) /\ Wrote("strcat", d, s, 0, kernel_strcat(mem, d, s))
AppendDriver == \E d, s \in Texts, n \in 0..Cells :
  /\ Apart(d, Length(d) + Min({n, Length(s)}) + 1, s, Length(s) + 1)
  /\ Wrote("ext2_strncat", d, s, n, ext2_strncat(mem, d, s, n))
AppendKernel == \E d, s \in Texts, n \in 0..Cells :
  /\ Apart(d, Length(d) + n + 1, s, Length(d) + n + 1) /\ s + Length(d) + n <= Cells
  /\ Wrote("strncat", d, s, n, kernel_strncat(mem, d, s, n))
CopyBytes == \E d, s \in 1..Cells, n \in 0..Cells :
  s + n - 1 <= Cells /\ Apart(d, n, s, n) /\ Wrote("memcpy", d, s, n, memcpy(mem, d, s, n))
MoveBytes == \E d, s \in 1..Cells, n \in 0..Cells :
  s + n - 1 <= Cells /\ d + n - 1 <= Cells /\ Wrote("memmove", d, s, n, memmove(mem, d, s, n))
SetBytes == \E d \in 1..Cells, c \in Characters, n \in 0..Cells :
  d + n - 1 <= Cells /\ Wrote("memset", d, c, n, memset(mem, d, c, n))

Measure == \E s \in Texts : Answers("strlen", s, 0, 0, kernel_strlen(mem, s))
Compare == \E a, b \in Texts : Answers("strcmp", a, b, 0, kernel_strcmp(mem, a, b))
CompareBounded == \E a, b \in Texts, n \in 0..Cells :
  \/ Answers("strncmp", a, b, n, kernel_strncmp(mem, a, b, n))
  \/ Answers("libc_strncmp", a, b, n, strncmp(mem, a, b, n))
CompareBytes == \E a, b \in 1..Cells, n \in 0..Cells :
  a + n - 1 <= Cells /\ b + n - 1 <= Cells /\ Answers("memcmp", a, b, n, memcmp(mem, a, b, n))
FindCharacter == \E s \in Texts, c \in Characters :
  \/ Answers("strchr", s, c, 0, kernel_strchr(mem, s, c))
  \/ Answers("strrchr", s, c, 0, kernel_strrchr(mem, s, c))
FindByte == \E s \in 1..Cells, c \in Characters, n \in 0..Cells :
  s + n - 1 <= Cells /\ Answers("memchr", s, c, n, memchr(mem, s, c, n))
FindText == \E h, n \in Texts : Answers("strstr", h, n, 0, kernel_strstr(mem, h, n))
FindSet == \E s, set \in Texts :
  \/ Answers("strspn", s, set, 0, strspn(mem, s, set))
  \/ Answers("strcspn", s, set, 0, strcspn(mem, s, set))
  \/ Answers("strpbrk", s, set, 0, strpbrk(mem, s, set))

NoCall == [f |-> "none", a |-> 0, b |-> 0, n |-> 0, ret |-> 0]
CInit == mem \in [1..Cells -> Characters] /\ called = NoCall
CNext ==
  /\ called = NoCall  \* memory holds anything, so one call shows what it does
  /\ \/ CopyString \/ CopyBounded \/ Concatenate \/ AppendDriver \/ AppendKernel
     \/ CopyBytes \/ MoveBytes \/ SetBytes
     \/ Measure \/ Compare \/ CompareBounded \/ CompareBytes
     \/ FindCharacter \/ FindByte \/ FindText \/ FindSet
CSpec == CInit /\ [][CNext]_cvars

-----------------------------------------------------------------------------
Lowest(set) == IF set = {} THEN 0 ELSE Min(set)
Prefix(s, n) == SubSeq(s, 1, Min({n, Len(s)}))

(* What a call that writes leaves at its destination is what its name says,   *)
(* of the memory before the call, also where source and destination overlap   *)
(* (memmove); and not one cell next to it changes. strncat of the kernel adds *)
(* at most n cells of its source, the right ones if the destination was empty.*)
Written(c) ==
  LET s == Str(mem, c.b) d == Str(mem, c.a) IN
  CASE c.f = "strcpy"       -> {Append(s, 0)}
    [] c.f = "strncpy"      -> {[i \in 1..c.n |-> IF i <= Len(s) THEN s[i] ELSE 0]}
    [] c.f = "strcat"       -> {Append(d \o s, 0)}
    [] c.f = "ext2_strncat" -> {Append(d \o Prefix(s, c.n), 0)}
    [] c.f = "strncat"      -> IF d = <<>> THEN {Append(Prefix(s, c.n), 0)}
                               ELSE {Append(d \o SubSeq(mem, c.b, c.b + k - 1), 0) : k \in 0..c.n}
    [] c.f \in {"memcpy", "memmove"} -> {SubSeq(mem, c.b, c.b + c.n - 1)}
    [] c.f = "memset"       -> {[i \in 1..c.n |-> c.b]}
Writers == {"strcpy", "strncpy", "strcat", "ext2_strncat", "strncat", "memcpy", "memmove", "memset"}
CopiesExact ==
  [][called'.f \in Writers =>
       \E w \in Written(called') :
         mem' = [i \in 1..Cells |-> IF i - called'.a + 1 \in 1..Len(w) THEN w[i - called'.a + 1] ELSE mem[i]]]_cvars

(* A comparison is zero exactly for equal strings or bytes (with n for strings *)
(* that agree in their first n characters; in the C library's strncmp, in one  *)
(* more); a search returns the first, or last, place there is, or NULL.        *)
Agrees(m, c) ==
  LET s == Str(m, c.a) t == Str(m, c.b)
      here(i) == c.a + i - 1
      range(a) == SubSeq(m, a, a + c.n - 1)
      in(i) == s[i] \in {t[j] : j \in 1..Len(t)}
      at(x) == {here(i) : i \in {j \in 1..Len(s) : s[j] = x}} \cup (IF x = 0 THEN {here(Len(s) + 1)} ELSE {})
  IN
  CASE c.f = "strlen"  -> c.ret = Len(s)
    [] c.f = "strcmp"  -> (c.ret = 0) <=> (s = t)
    [] c.f = "strncmp" -> (c.ret = 0) <=> (Prefix(s, c.n) = Prefix(t, c.n))
    [] c.f = "libc_strncmp" -> (c.ret = 0) <=> (Prefix(s, c.n + 1) = Prefix(t, c.n + 1))
    [] c.f = "memcmp"  -> (c.ret = 0) <=> (range(c.a) = range(c.b))
    [] c.f = "strchr"  -> c.ret = Lowest(at(c.b))
    [] c.f = "strrchr" -> c.ret = IF at(c.b) = {} THEN 0 ELSE Max(at(c.b))
    [] c.f = "memchr"  -> c.ret = Lowest({i \in c.a..(c.a + c.n - 1) : m[i] = c.b})
    [] c.f = "strstr"  -> c.ret = Lowest({here(i) : i \in {j \in 1..(Len(s) - Len(t) + 1) : SubSeq(s, j, j + Len(t) - 1) = t}})
    [] c.f = "strspn"  -> c.ret = Lowest({i \in 1..Len(s) : ~in(i)} \cup {Len(s) + 1}) - 1
    [] c.f = "strcspn" -> c.ret = Lowest({i \in 1..Len(s) : in(i)} \cup {Len(s) + 1}) - 1
    [] c.f = "strpbrk" -> c.ret = Lowest({here(i) : i \in {j \in 1..Len(s) : in(j)}})
    [] OTHER -> TRUE
SearchesAgree == [][Agrees(mem, called')]_cvars
=============================================================================
