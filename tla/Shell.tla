------------------------------- MODULE Shell --------------------------------
(* What the shell (src/processes/shell/src/main.c) keeps between two lines:   *)
(* variables, exported variables and aliases, all in memory from malloc. A    *)
(* line is a sequence of symbols: a letter, a blank, a quote, the equals sign *)
(* or the name of a builtin. Commands, cd and exit are in modules Userland    *)
(* and Files; here they change nothing.                                       *)
EXTENDS UserHeap, TLC

CONSTANTS Lines,        \* what the user may enter
          CHARS,        \* symbols in a unit of memory
          POINTER,      \* units of a pointer
          ARGS,         \* pointers splitArgs makes room for at first
          MaxLines      \* bound: lines entered

ASSUME ShellAssumption == {CHARS, POINTER, ARGS, MaxLines} \subseteq Nat \ {0}

Blank == " "
Quotes == {"'", "\""}
Letters == {"A", "B", "C", "x", "y"}
EQ == "="
NUL == ""

VARIABLES sh,     \* heap, the strings in it, and the three tables
          lines   \* lines entered

svars == <<sh, lines>>

-----------------------------------------------------------------------------
\* splitArgs. A quote starts a word that ends at the same quote or with the
\* line; other words end at a blank; a word without a symbol is dropped.
Ends(line, from, stop) == LET at == {i \in from..Len(line) : line[i] \in stop} IN
                          IF at = {} THEN Len(line) + 1 ELSE Min(at)
RECURSIVE WordsFrom(_, _)
WordsFrom(line, p) ==
  IF p > Len(line) THEN <<>>
  ELSE IF line[p] = Blank THEN WordsFrom(line, p + 1)
  ELSE LET quoted == line[p] \in Quotes
           start == IF quoted THEN p + 1 ELSE p
           end == Ends(line, start, IF quoted THEN {line[p]} ELSE {Blank})
       IN  (IF end > start THEN <<SubSeq(line, start, end - 1)>> ELSE <<>>)
           \o WordsFrom(line, IF quoted THEN end + 1 ELSE end)
splitArgs(line) == WordsFrom(line, 1)

is_valid_var_assignment(s) ==
  LET eq == Ends(s, 1, {EQ}) IN eq \in 2..Len(s) /\ \A i \in 1..(eq - 1) : s[i] \in Letters

\* The name of a variable, the part of its string in front of the equals sign.
NameOf(s) == SubSeq(s, 1, Ends(s, 1, {EQ}) - 1)
At(s, i) == IF i \in DOMAIN s THEN s[i] ELSE NUL

\* strncmp of the C library looks at the symbols behind the n it has compared.
strncmp_equal(a, b, n) ==
  LET same == {i \in 0..n : i <= Len(a) /\ \A j \in 1..i : At(b, j) = a[j]} IN
  At(a, Max(same) + 1) = At(b, Max(same) + 1)
check_variables(s, name) ==
  {i \in DOMAIN s.vars : LET v == s.text[s.vars[i]] IN
     strncmp_equal(name, v, Len(name)) /\ At(v, Len(name) + 1) = EQ}

-----------------------------------------------------------------------------
\* Memory: the shell's state after a call, with the pointer it got in "ptr".
Size(str) == (Len(str) + CHARS) \div CHARS  \* with the zero behind it
New(s, n) == LET a == malloc(s.heap, n) IN [s EXCEPT !.heap = a.heap, !.ptr = a.ptr]
Resize(s, ptr, n) == LET a == realloc(s.heap, ptr, n) IN [s EXCEPT !.heap = a.heap, !.ptr = a.ptr]
Put(s, str) == [s EXCEPT !.text = (s.ptr :> str) @@ @]
NewString(s, str) == Put(New(s, Size(str)), str)
Drop(s, ptr) == [s EXCEPT !.text = [p \in DOMAIN @ \ {ptr} |-> @[p]]]
Forget(s, ptr) == [Drop(s, ptr) EXCEPT !.heap = free(@, ptr)]
\* realloc and memcpy: another string in the place of the one at ptr.
Replace(s, ptr, str) == Put(Drop(Resize(s, ptr, Size(str)), ptr), str)

\* An array that is full is doubled.
Room(s, arr, len, unit) ==
  IF len < arr.cap THEN [s EXCEPT !.ptr = arr.at]
  ELSE Resize(s, arr.at, 2 * arr.cap * unit)
Grown(arr, len, ptr) == [at |-> ptr, cap |-> IF len < arr.cap THEN arr.cap ELSE 2 * arr.cap]

\* The copies splitArgs makes of the words of a line, in s.args.
TakeWord(s, w) ==
  LET r == Room(s, s.args.arr, Len(s.args.list), POINTER)
      t == NewString([r EXCEPT !.args.arr = Grown(s.args.arr, Len(s.args.list), r.ptr)], w)
  IN  [t EXCEPT !.args.list = Append(@, t.ptr)]
TakeWords(s, line) ==
  LET a == New(s, ARGS * POINTER) IN
  FoldLeft(TakeWord, [a EXCEPT !.args = [list |-> <<>>, arr |-> [at |-> a.ptr, cap |-> ARGS]]], splitArgs(line))
free_argsNotArray(s, args) == FoldLeft(Forget, s, args.list)
free_args(s, args) == Forget(FoldLeft(Forget, s, args.list), args.arr.at)

-----------------------------------------------------------------------------
\* export_var and purge_var compare a name with one variable after the other.
\* A name that is used up before the variable's ends the builtin; a variable
\* whose name is only the first part of it is taken for the one that is meant.
\* export_var goes on behind the part it has compared.
RECURSIVE ExportFrom(_, _, _)
ExportFrom(s, i, name) ==
  LET v == NameOf(s.text[s.vars[i]])
      r == Room(s, s.earr, Len(s.env), POINTER)
  IN  IF i > Len(s.vars) \/ Len(v) > Len(name) THEN s
      ELSE IF v = SubSeq(name, 1, Len(v))
      THEN [r EXCEPT !.earr = Grown(s.earr, Len(s.env), r.ptr), !.env = Append(@, s.vars[i])]
      ELSE ExportFrom(s, i + 1, SubSeq(name, Len(v) + 1, Len(name)))
export_var(s, name) == ExportFrom(s, 1, name)

RemoveSwap(list, i) == Front([list EXCEPT ![i] = Last(list)])

\* The inner loop of purge_var over the exported variables: FALSE if it returns.
RECURSIVE Unexport(_, _, _)
Unexport(s, i, name) ==
  LET v == NameOf(s.text[s.env[i]]) IN
  IF i > Len(s.env) THEN [s |-> s, go |-> TRUE]
  ELSE IF Len(v) > Len(name) THEN [s |-> s, go |-> FALSE]
  ELSE Unexport(IF v = SubSeq(name, 1, Len(v)) THEN [s EXCEPT !.env = RemoveSwap(@, i)] ELSE s,
                i + 1, SubSeq(name, Len(v) + 1, Len(name)))
\* The variable meant is the first that matches, if no longer one comes before.
purge_var(s, name) ==
  LET v(i) == NameOf(s.text[s.vars[i]])
      stop == {i \in DOMAIN s.vars : Len(v(i)) > Len(name) \/ v(i) = SubSeq(name, 1, Len(v(i)))}
      i == Min(stop)
      u == Unexport(s, 1, name)
  IN  IF stop = {} \/ Len(v(i)) > Len(name) THEN s
      ELSE IF ~u.go THEN u.s
      ELSE [Forget(u.s, s.vars[i]) EXCEPT !.vars = RemoveSwap(@, i)]

SetVarOffByOne(s, input, word) ==
  LET n == NewString(s, word) IN
  [n EXCEPT !.vars = IF @ = <<>> THEN <<n.ptr>> ELSE [@ EXCEPT ![Len(@)] = n.ptr]]
\* NAME=VALUE, the whole of which is kept. strncmp never finds the old one.
SetVar(s, input, word) ==
  LET old == check_variables(s, NameOf(input))
      r == Replace(s, s.vars[Min(old)], word)
      a == Room(s, s.varr, Len(s.vars), POINTER)
      n == NewString([a EXCEPT !.varr = Grown(s.varr, Len(s.vars), a.ptr)], word)
  IN  IF old # {} THEN [r EXCEPT !.vars[Min(old)] = r.ptr]
      ELSE [n EXCEPT !.vars = Append(@, n.ptr)]

Aliases(s, word) == {i \in DOMAIN s.alias : s.text[s.alias[i].name] = word}

SetAlias(s, name, command) ==
  LET i == Min(Aliases(s, name))
      r == Replace(s, s.alias[i].command, command)
      a == Room(s, s.aarr, Len(s.alias), 2 * POINTER)
      n == New([a EXCEPT !.aarr = Grown(s.aarr, Len(s.alias), a.ptr)], Size(name))
      c == New(n, Size(command))
      entry == [name |-> n.ptr, command |-> c.ptr]
  IN  IF Aliases(s, name) # {}
      THEN [r EXCEPT !.alias[i].command = r.ptr]
      ELSE [c EXCEPT !.text = (n.ptr :> name) @@ (c.ptr :> command) @@ @, !.alias = Append(@, entry)]

\* unalias gives back the strings of the first alias, whichever it removes.
Unalias(s, name) ==
  IF Aliases(s, name) = {} THEN s
  ELSE [Forget(Forget(s, s.alias[1].command), s.alias[1].name)
          EXCEPT !.alias = RemoveSwap(@, Min(Aliases(s, name)))]

-----------------------------------------------------------------------------
\* Words that make the shell read what was never stored, or call itself
\* without end: alias with one word, and an alias that leads back to itself.
RECURSIVE Defined(_, _, _)
Defined(s, words, depth) ==
  IF words = <<>> THEN TRUE
  ELSE IF words[1] = <<"alias">> THEN Len(words) # 2
  ELSE Aliases(s, words[1]) # {} =>
         depth > 0 /\ Defined(s, splitArgs(s.text[s.alias[Min(Aliases(s, words[1]))].command]) \o Tail(words), depth - 1)

\* An alias is replaced by its words, which are given back after they were used.
RECURSIVE execute(_, _, _)
ExecuteAlias(s, i, args, input) ==
  LET t == TakeWords(s, s.text[s.alias[i].command])
      all == t.args.list \o Tail(args)
      a == New(t, Len(all) * POINTER)
  IN  free_args(Forget(execute(a, all, input), a.ptr), t.args)
execute(s, args, input) ==
  LET w == [i \in DOMAIN args |-> s.text[args[i]]] IN
      CASE args = <<>> -> s
        [] w[1] \in {<<"cd">>, <<"echo">>, <<"pwd">>, <<"set">>} -> s
        [] w[1] = <<"export">> -> IF Len(w) = 2 THEN export_var(s, w[2]) ELSE s
        [] w[1] = <<"unset">> -> IF Len(w) = 2 THEN purge_var(s, w[2]) ELSE s
        [] w[1] = <<"alias">> -> IF Len(w) = 1 THEN s ELSE SetAlias(s, w[2], w[3])
        [] w[1] = <<"unalias">> -> IF Len(w) = 2 THEN Unalias(s, w[2]) ELSE s
        [] OTHER -> IF Len(w) = 1 /\ is_valid_var_assignment(input) THEN SetVar(s, input, w[1])
                    ELSE IF Aliases(s, w[1]) = {} THEN s
                    ELSE ExecuteAlias(s, Min(Aliases(s, w[1])), args, input)

\* A table leads to memory that was given back: from there on anything can happen.
AliasStrings == UNION {{a.name, a.command} : a \in Range(sh.alias)}
Dangling == ~(Range(sh.env) \cup AliasStrings \subseteq DOMAIN sh.text)

\* One turn of the loop in main.
Enter(line) ==
  LET t == TakeWords(sh, line) IN
  /\ lines < MaxLines /\ lines' = lines + 1
  /\ ~Dangling /\ Defined(sh, splitArgs(line), Len(sh.alias))
  /\ sh' = [free_args(execute(t, t.args.list, line), t.args) EXCEPT !.ptr = Nowhere, !.args = <<>>]

\* main: the working directory, then an array of one for each table.
SInit ==
  LET c == New([heap |-> NewHeap, text |-> <<>>, ptr |-> Nowhere, args |-> <<>>, vars |-> <<>>, env |-> <<>>,
                alias |-> <<>>, varr |-> <<>>, earr |-> <<>>, aarr |-> <<>>, cwd |-> Nowhere], PAGE_SIZE)
      e == New(c, POINTER)
      v == New(e, POINTER)
      a == New(v, 2 * POINTER)
      One(ptr) == [at |-> ptr, cap |-> 1]
  IN  /\ sh = [a EXCEPT !.cwd = c.ptr, !.earr = One(e.ptr), !.varr = One(v.ptr), !.aarr = One(a.ptr), !.ptr = Nowhere]
      /\ lines = 0

SNext == \E line \in Lines : Enter(line)
SSpec == SInit /\ [][SNext]_svars

-----------------------------------------------------------------------------
\* The blocks of the C library's heap lie one behind the other below the end of
\* the memory the process has, and free blocks never lie side by side: walking
\* the list (find_free_block, get_heap_free_start) visits every unit once.
HeapTiled ==
  LET b == sh.heap.blocks IN
  /\ b[1].at = 0 /\ FreeStart(sh.heap) <= sh.heap.end
  /\ \A i \in 1..(Len(b) - 1) : /\ b[i + 1].at = Payload(b[i]) + b[i].size
                                /\ ~(b[i].free /\ b[i + 1].free)

\* Between two lines the blocks in use are the tables and the strings they lead
\* to: every word, array and string that was replaced has been given back, once,
\* no string is in two places of a table, every table fits into its block, and
\* no variable leads to memory that was given back. Not so once an alias other
\* than the first was removed (main.c:526) or a string is freed that is still
\* exported (main.c:246): then Dangling.
NothingLost ==
  LET strings == Range(sh.vars) \cup AliasStrings IN
  /\ Range(sh.vars) \subseteq InUse(sh.heap)
  /\ ~Dangling => /\ InUse(sh.heap) = strings \cup {sh.cwd, sh.varr.at, sh.earr.at, sh.aarr.at}
                  /\ DOMAIN sh.text = strings
                  /\ Cardinality(strings) = Len(sh.vars) + 2 * Len(sh.alias)
  /\ \A t \in {<<sh.varr, Len(sh.vars) * POINTER>>, <<sh.earr, Len(sh.env) * POINTER>>, <<sh.aarr, 2 * Len(sh.alias) * POINTER>>} :
        BlockOf(sh.heap, t[1].at).size >= t[2]

\* A line adds one variable, gives one variable of the same name another value,
\* or removes one: nothing that is exported, aliased or allocated in between
\* changes the others, though their array moves and their memory is used again.
Strings(s) == [i \in DOMAIN s.vars |-> s.text[s.vars[i]]]
VariablesKept ==
  [][LET old == Strings(sh) new == Strings(sh') IN
     \/ IsPrefix(old, new) /\ Len(new) <= Len(old) + 1
     \/ \E i \in DOMAIN old : \/ new = RemoveSwap(old, i)
                              \/ i \in DOMAIN new /\ NameOf(new[i]) = NameOf(old[i]) /\ new = [old EXCEPT ![i] = new[i]]]_svars
=============================================================================
