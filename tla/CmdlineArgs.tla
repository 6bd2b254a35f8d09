----------------------------- MODULE CmdlineArgs ----------------------------
(* src/dpi/uvm_svcmd_dpi.c: the arguments of the simulator, with the files   *)
(* of arguments unfolded, handed out one by one, and uvm_cmdline_processor,  *)
(* which fetches them all and looks for those that match.                    *)
EXTENDS RegexCache, Queues

CONSTANT
    MaxCalls    \* bound: calls of uvm_dpi_get_next_arg_c between two inits

ASSUME ArgsAssumption == MaxCalls \in Nat

VARIABLES
    argv_stack, \* the arguments
    idx,        \* the calls since the last init
    argv_ptr,   \* the arguments handed out
    given,      \* what the last call returned
    m_argv,     \* what uvm_cmdline_processor has fetched
    args        \* what get_arg_matches was asked for last, and what it found

avars == <<argv_stack, idx, argv_ptr, given, m_argv, args>>
vars == <<cvars, avars>>

\* A command line: the files of arguments that it names, each before those that
\* name it, and its own arguments last.
Arg(s) == [s |-> s, file |-> 0]
File(flag, n) == [s |-> flag, file |-> n]
FileFlags == {<<"-", "f">>, <<"-", "F">>}
Nests(i) == i.s \in FileFlags

ASSUME LineAssumption == \A t \in Tests :
    /\ Len(t.line) > 0 /\ t.line \in Seq(Seq([s : Seq(STRING), file : Nat]))
    /\ \A a \in DOMAIN t.line : \A i \in DOMAIN t.line[a] :
         Nests(t.line[a][i]) => t.line[a][i].file \in 1 .. a - 1

\* How the simulator lays it out: an array for each, a flag followed by a pointer
\* to the array of its file, which starts with the name of the file.
Entry(s) == [s |-> s, to |-> 0]
Entries(i) == IF Nests(i) THEN <<Entry(i.s), [s |-> <<>>, to |-> i.file]>>
              ELSE <<Entry(i.s)>>
Argv(line) ==
    [a \in DOMAIN line |-> (IF a = Len(line) THEN <<>> ELSE <<Entry(<<"f">>)>>)
                              \o Concat([i \in DOMAIN line[a] |-> Entries(line[a][i])])]

\* What a walk over array a pushes, from entry first on, if level[b] is what one over
\* another array b does: an entry behind a flag is the pointer to that array.
Walked(argv, a, first, level) ==
    LET pushed[i \in 0 .. Len(argv[a])] ==
          IF i < first THEN <<>>
          ELSE IF i > first /\ Nests(argv[a][i - 1])
               THEN pushed[i - 1] \o level[argv[a][i].to]
          ELSE IF Nests(argv[a][i]) THEN pushed[i - 1]
          ELSE Append(pushed[i - 1], argv[a][i].s) IN
    pushed[Len(argv[a])]

\* Mutant: the name of a file is taken for its first argument.
walk_level_named(argv) ==
    LET level[a \in DOMAIN argv] == Walked(argv, a, 1, level) IN level[Len(argv)]

\* The array of a file is walked from its second entry on.
walk_level(argv) ==
    LET level[a \in DOMAIN argv] ==
          Walked(argv, a, IF a = Len(argv) THEN 1 ELSE 2, level) IN
    level[Len(argv)]

NoArg == <<"null">>

\* The first call is the library's own, with init.
uvm_dpi_get_next_arg_c(init) ==
    /\ init \/ idx \in 1 .. MaxCalls - 1
    /\ argv_stack' = IF init THEN walk_level(Argv(test.line)) ELSE argv_stack
    /\ LET n == IF init THEN 0 ELSE idx
           p == IF init THEN 0 ELSE argv_ptr IN
       /\ idx' = n + 1
       /\ IF n >= Len(argv_stack')
          THEN argv_ptr' = p /\ given' = NoArg
          ELSE argv_ptr' = p + 1 /\ given' = argv_stack'[p + 1]
    /\ Aside
    /\ UNCHANGED <<m_argv, args>>

\* The constructor of uvm_cmdline_processor fetches until it is given nothing,
\* or the empty string.
Upto(all) == LET empty == {i \in DOMAIN all : all[i] = <<>>} IN
             IF empty = {} THEN Len(all)
             ELSE (CHOOSE i \in empty : \A j \in empty : i <= j) - 1

new ==
    /\ argv_stack' = walk_level(Argv(test.line))
    /\ LET n == Upto(argv_stack') IN
       /\ idx' = n + 1
       /\ IF n = Len(argv_stack')
          THEN argv_ptr' = n /\ given' = NoArg
          ELSE argv_ptr' = n + 1 /\ given' = <<>>
       /\ m_argv' = SubSeq(argv_stack', 1, n)
    /\ Aside
    /\ UNCHANGED args

\* Each argument is matched by itself: the first one fetches the expression for
\* the others.  One that is not matched may still start with the text.
Starts(s, with) == Len(s) >= Len(with) /\ SubSeq(s, 1, Len(with)) = with

get_arg_matches(pattern) ==
    LET q == Glob(pattern)
        is_regex == Len(pattern) > 2 /\ Bracketed(pattern) IN
    /\ IF is_regex /\ m_argv # <<>> THEN Search(q) ELSE Aside
    /\ args' = [pattern |-> pattern,
                found |-> Kept(m_argv, {i \in DOMAIN m_argv :
                                          \/ is_regex /\ Found(Run(q), m_argv[i])
                                          \/ Starts(m_argv[i], pattern)})]
    /\ UNCHANGED <<argv_stack, idx, argv_ptr, given, m_argv>>

ArgsInit ==
    /\ argv_stack = <<>> /\ idx = 0 /\ argv_ptr = 0 /\ given = NoArg
    /\ m_argv = <<>>
    /\ args = [pattern |-> <<>>, found |-> <<>>]

ArgsNext ==
    \/ \E init \in BOOLEAN : uvm_dpi_get_next_arg_c(init)
    \/ new
    \/ \E pattern \in test.patterns : get_arg_matches(pattern)

TextInit == CacheInit /\ ArgsInit
TextNext == (CacheNext /\ UNCHANGED avars) \/ (Running(cache) /\ ArgsNext)

TextSpec == TextInit /\ [][TextNext]_vars

\* What a call returned is not needed to know what can happen next.
TextView == <<test, caching, heap, held, cache, argv_stack, idx, argv_ptr, m_argv>>

------------------------------------------------------------------------------
(* Properties                                                                *)

\* The arguments that were typed, those of the files at the place of the file.
Leaves(line) ==
    LET typed[a \in DOMAIN line] ==
          Concat([i \in DOMAIN line[a] |-> IF Nests(line[a][i]) THEN typed[line[a][i].file]
                                           ELSE <<line[a][i].s>>]) IN
    typed[Len(line)]

\* The n-th call since the last init returns the n-th argument, and a call after
\* the last one nothing, however often it is made; and the command line processor
\* holds the arguments in the order they were typed, all unless one is empty.
ArgsInOrder ==
    LET all == Leaves(test.line) IN
    /\ idx > 0 => given = (IF idx <= Len(all) THEN all[idx] ELSE NoArg)
    /\ m_argv # <<>> =>
         /\ m_argv = SubSeq(all, 1, Len(m_argv))
         /\ Len(m_argv) < Len(all) => all[Len(m_argv) + 1] = <<>>

\* A glob matches what a glob is said to match, and only that, however it got
\* compiled: unless it is too long, or the same text was cached as a regular
\* expression before.
MatchIsRight ==
    [][(match'.done /\ match'.asked.deglob /\ match'.run.deglob
            /\ (~ Bracketed(match'.asked.re) \/ match'.asked.re = <<"/">>)
            /\ Compiles(match'.asked))
         => match'.found = GlobMatches(match'.asked.re, match'.str)]_cvars

\* What a call of uvm_re_match finds is right (MatchIsRight), and what
\* get_arg_matches finds does not depend on what the cache holds, nor on how that
\* was compiled.
MatchesAreRight ==
    /\ MatchIsRight
    /\ [][args' # args =>
            LET regex == Bracketed(args'.pattern) /\ Len(args'.pattern) > 2 IN
            args'.found = Kept(m_argv, {i \in DOMAIN m_argv :
                              \/ Starts(m_argv[i], args'.pattern)
                              \/ regex /\ Found(Glob(args'.pattern), m_argv[i])})]_vars
=============================================================================
