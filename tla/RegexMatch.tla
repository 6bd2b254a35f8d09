----------------------------- MODULE RegexMatch -----------------------------
(* src/dpi/uvm_regex.cc without its state: how a glob becomes a regular      *)
(* expression and what that expression matches.  Strings are sequences of    *)
(* characters.                                                               *)
EXTENDS Integers, Sequences, FiniteSets

CONSTANT MaxLength    \* UVM_REGEX_MAX_LENGTH (2048)

ASSUME LengthAssumption == MaxLength \in Nat

Seqs == INSTANCE SequencesExt
Concat(ss) == Seqs!FlattenSeq(ss)

Last(s) == s[Len(s)]
Bracketed(s) == s # <<>> /\ s[1] = "/" /\ Last(s) = "/"
Inside(s) == SubSeq(s, 2, Len(s) - 1)
Bracket(s, with) == IF with THEN <<"/">> \o s \o <<"/">> ELSE s

\* The regular expression, or no text at all when it is too long.  The length is
\* counted too high: a character that becomes two counts for three.
TooLong == [text |-> <<>>, ok |-> FALSE]
Text(s) == [text |-> s, ok |-> TRUE]

\* Mutant: the dot of a name stays what it is in a regular expression.
ExpandedDot(c) == CASE c \in {"*", "+"} -> <<".", c>>
                    [] c \in {"[", "]", "(", ")"} -> <<"\\", c>>
                    [] c = "?" -> <<".">>
                    [] OTHER -> <<c>>

Expanded(c) == CASE c \in {"*", "+"} -> <<".", c>>
                 [] c \in {".", "[", "]", "(", ")"} -> <<"\\", c>>
                 [] c = "?" -> <<".">>
                 [] OTHER -> <<c>>

uvm_re_deglobbed(glob, with_brackets) ==
    LET body == Concat([i \in DOMAIN glob |-> Expanded(glob[i])])
        start == IF glob[1] = "^" THEN body ELSE <<"^">> \o body
        bounded == IF Last(start) = "$" THEN start ELSE start \o <<"$">>
        whole == Bracket(bounded, with_brackets)
        glob_len == Len(whole) + Cardinality({i \in DOMAIN glob : Len(Expanded(glob[i])) = 2}) + 1 IN
    IF glob = <<>> \/ glob = <<"/">> THEN Text(Bracket(<<"^", "$">>, with_brackets))
    ELSE IF Bracketed(glob)
         THEN IF Len(glob) > MaxLength THEN TooLong
              ELSE Text(IF with_brackets THEN glob ELSE Inside(glob))
    ELSE IF glob_len > MaxLength THEN TooLong ELSE Text(whole)

\* What uvm_re_comp hands to regcomp.
Source(re, deglob) ==
    IF deglob THEN uvm_re_deglobbed(re, FALSE)
    ELSE IF Len(re) > MaxLength THEN TooLong
    ELSE Text(IF Bracketed(re) THEN Inside(re) ELSE re)

------------------------------------------------------------------------------
(* regcomp and regexec, as far as the expressions of the library go          *)

\* A backslash makes the next character stand for itself; a * or a + that does not
\* says how often the character before it is taken.
Escaped(e, p) == p > 1 /\ e[p - 1] = "\\"
Repeats(e, p) == p \in 2 .. Len(e) /\ e[p] \in {"*", "+"} /\ ~ Escaped(e, p)

\* An opening bracket that is not escaped is never closed here.
regcomp(e) == \A i \in DOMAIN e : e[i] \in {"[", "("} => i > 1 /\ e[i - 1] = "\\"

One(e, p, c) == (~ Escaped(e, p) /\ e[p] = ".") \/ e[p] = c

\* The character at p takes the letters j + 1 .. k of the string.
Takes(e, p, str, j, k) ==
    CASE ~ Escaped(e, p) /\ e[p] = "^" -> j = 0 /\ k = 0
      [] ~ Escaped(e, p) /\ e[p] = "$" -> j = Len(str) /\ k = j
      [] OTHER -> /\ \A m \in j + 1 .. k : One(e, p, str[m])
                  /\ ~ Repeats(e, p + 1) => k = j + 1
                  /\ Repeats(e, p + 1) /\ e[p + 1] = "+" => k > j

\* The expression is sought anywhere in the string: after its first p characters,
\* the letters up to one of after[p] may have been taken.
regexec(e, str) ==
    LET after[p \in 0 .. Len(e)] ==
          IF p = 0 THEN 0 .. Len(str)
          ELSE IF e[p] = "\\" \/ Repeats(e, p) THEN after[p - 1]
          ELSE UNION {{k \in j .. Len(str) : Takes(e, p, str, j, k)} : j \in after[p - 1]} IN
    after[Len(e)] # {}

\* A query is an expression, and whether it is a glob.
Compiles(q) == Source(q.re, q.deglob).ok /\ regcomp(Source(q.re, q.deglob).text)
Found(q, str) == Compiles(q) /\ regexec(Source(q.re, q.deglob).text, str)

\* What the expressions here do without: alternatives, intervals, backslashes
\* of their own, anchors in the middle.
Modelled(re) == \A i \in DOMAIN re : /\ re[i] \notin {"\\", "|", "{", "}"}
                                     /\ re[i] = "^" => i = 1
                                     /\ re[i] = "$" => i = Len(re)

------------------------------------------------------------------------------
(* The reference: what a glob is said to match                               *)

\* The letters of string str can be dealt out to the characters of the glob:
\* * takes any number, + at least one, ? any one, another itself.
Fits(c, s) == CASE c = "*" -> TRUE
                [] c = "+" -> Len(s) >= 1
                [] c = "?" -> Len(s) = 1
                [] OTHER -> s = <<c>>

Plain(glob) == LET a == IF glob[1] = "^" THEN Tail(glob) ELSE glob IN
               IF a # <<>> /\ Last(a) = "$" THEN SubSeq(a, 1, Len(a) - 1) ELSE a

GlobMatches(glob, str) ==
    LET g == IF glob = <<>> \/ glob = <<"/">> THEN <<>> ELSE Plain(glob)
        cuts == {f \in [0 .. Len(g) -> 0 .. Len(str)] :
                    /\ f[0] = 0 /\ f[Len(g)] = Len(str)
                    /\ \A i \in 1 .. Len(g) : f[i - 1] <= f[i]} IN
    \E f \in cuts : \A i \in 1 .. Len(g) : Fits(g[i], SubSeq(str, f[i - 1] + 1, f[i]))
=============================================================================
