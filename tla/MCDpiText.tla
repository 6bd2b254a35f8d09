------------------------------ MODULE MCDpiText ------------------------------
(* CmdlineArgs on a few expressions, strings and command lines.              *)
EXTENDS CmdlineArgs, TLC

CONSTANTS h1, h2, h3

Regexp(re) == [re |-> re, deglob |-> FALSE]
SomeStrings == {<<>>, <<"a">>, <<"b">>, <<"a", "b">>, <<"a", "b", "b">>,
                <<"a", ".", "b">>, <<"b", "[">>}

A == Arg(<<"+", "a">>)
B == Arg(<<"b">>)

\* The queries and patterns of a test are what a cache of three may hold, and what
\* does not compile; a pattern may be in the cache already.
SomeTests ==
    {[queries |-> {Glob(<<"a", "*">>), Regexp(<<"a", "*">>), Glob(<<"^", "+", "b">>)},
      line |-> <<<<A>>, <<B, File(<<"-", "F">>, 1), Arg(<<>>)>>,
                 <<A, File(<<"-", "f">>, 2), B>>>>,
      patterns |-> {<<"/", "a", "/">>, <<"b">>}],
     [queries |-> {Glob(<<"a", ".", "?", "$">>), Glob(<<"/">>), Glob(<<"+", "a", "+">>),
                   Regexp(<<"/", "[", "a", "/">>)},
      line |-> <<<<B, A>>>>,
      patterns |-> {<<"/", "[", "a", "/">>, <<"+", "a">>}],
     [queries |-> {Glob(<<"*", "[", "*">>), Glob(<<"a">>), Glob(<<"?", "b">>)},
      line |-> <<<<>>, <<File(<<"-", "F">>, 1), B>>>>,
      patterns |-> {<<"/", "a", "/">>, <<>>}]}

HandleSymmetry == Permutations(Handles)
==============================================================================
