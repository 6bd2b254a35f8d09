----------------------------- MODULE RegexCache -----------------------------
(* Regular expressions at the C side and uvm_re_match, which compiles for    *)
(* each match, or keeps what it has compiled in uvm_regex_cache (an LRU      *)
(* cache) when the library is built with UVM_ENABLE_RE_MATCH_CACHE.          *)
EXTENDS RegexMatch

CONSTANTS
    Tests,          \* bound: each with its queries (an expression, and whether
                    \* it is a glob), its command line and what it looks for there
    Strings,        \* the strings they are matched against
    Sizes,          \* the sizes the cache is given (0: no limit)
    Handles         \* the places on the heap

\* The texts that may become keys of the cache.
Texts(t) == {q.re : q \in t.queries} \cup t.patterns
Null == <<"null">>

\* uvm_re_comp would copy -1 characters of the regular expression "/".
ASSUME CacheAssumption ==
    /\ Sizes \subseteq Nat /\ Handles # {}
    /\ \A t \in Tests : Null \notin Texts(t)
    /\ \A t \in Tests : \A q \in t.queries :
         /\ q.re \in Seq(STRING) /\ q.deglob \in BOOLEAN
         /\ IF q.deglob THEN Modelled(q.re) ELSE q.re # <<"/">>
    /\ Strings \subseteq Seq(STRING)

VARIABLES
    test,       \* the test that runs
    caching,    \* UVM_ENABLE_RE_MATCH_CACHE
    heap,       \* the query each regex_t that is allocated was compiled from
    held,       \* the handles that callers of uvm_re_comp have
    cache,      \* m_hash, m_begin, m_end, m_max_size; recency: its keys, the one
                \* used last first; fault: why the simulation ended ("endless":
                \* evict_to_max does not return)
    match       \* the last match: what was asked, what was run, what was found

cvars == <<test, caching, heap, held, cache, match>>

Glob(re) == [re |-> re, deglob |-> TRUE]
NoMatch == [asked |-> Glob(<<>>), str |-> <<>>, run |-> Glob(<<>>), found |-> FALSE,
            done |-> FALSE]

CacheInit ==
    /\ test \in Tests
    /\ caching \in BOOLEAN
    /\ heap = <<>> /\ held = {}
    /\ cache = [hash |-> <<>>, begin |-> Null, end |-> Null, max |-> 256,
                recency |-> <<>>, fault |-> "none"]
    /\ match = NoMatch

------------------------------------------------------------------------------
(* uvm_lru_cache: a hash of nodes, linked from the one used last             *)

Keys(c) == DOMAIN c.hash
Running(c) == c.fault = "none"
Faulted(c, followed) == IF Null \in followed /\ Running(c) THEN "null" ELSE c.fault

\* The order of use without k.
Left(r, k) ==
    LET p == CHOOSE p \in DOMAIN r : r[p] = k IN
    [i \in 1 .. Len(r) - 1 |-> IF i < p THEN r[i] ELSE r[i + 1]]

\* Mutant: the node behind the one that moves keeps it as its predecessor.
m_update_half(c, k) ==
    LET node == c.hash[k]
        links == [i \in Keys(c) |->
                    IF i = k THEN [node EXCEPT !.prev = Null, !.next = c.begin]
                    ELSE [c.hash[i] EXCEPT !.next = IF i = node.prev THEN node.next ELSE @,
                                           !.prev = IF i = c.begin THEN k ELSE @]] IN
    IF c.begin = k THEN c
    ELSE [c EXCEPT !.hash = links, !.begin = k, !.recency = <<k>> \o Left(@, k),
                   !.fault = Faulted(c, {node.prev, c.begin})]

\* m_end is left alone when the last node becomes the first.  A link may lead to a
\* node that is in the list no more: what is written there is lost.
m_update(c, k) ==
    LET node == c.hash[k]
        links == [i \in Keys(c) |->
                    IF i = k THEN [node EXCEPT !.prev = Null, !.next = c.begin]
                    ELSE [c.hash[i] EXCEPT !.next = IF i = node.prev THEN node.next ELSE @,
                                           !.prev = IF i = c.begin THEN k
                                                    ELSE IF i = node.next THEN node.prev
                                                    ELSE @]] IN
    IF c.begin = k THEN c
    ELSE [c EXCEPT !.hash = links, !.begin = k, !.recency = <<k>> \o Left(@, k),
                   !.fault = Faulted(c, {node.prev, c.begin})]

\* A key that is not there yet.  Nothing is evicted, however many there are.
put(c, k, data) ==
    [c EXCEPT
        !.hash = [i \in Keys(c) \cup {k} |->
                    IF i = k THEN [data |-> data, next |-> c.begin, prev |-> Null]
                    ELSE [c.hash[i] EXCEPT !.prev = IF i = c.begin THEN k ELSE @]],
        !.begin = k, !.end = IF c.begin = Null THEN k ELSE @,
        !.recency = <<k>> \o @]

\* A node without a neighbour that is taken for an inner one: null is followed.
evict(c, k) ==
    LET node == c.hash[k]
        links == [i \in Keys(c) \ {k} |->
                    [c.hash[i] EXCEPT
                        !.next = IF c.begin # k /\ i = node.prev THEN node.next ELSE @,
                        !.prev = IF c.end # k /\ i = node.next THEN node.prev ELSE @]] IN
    IF k \notin Keys(c) THEN c
    ELSE [c EXCEPT !.hash = links,
                   !.begin = IF @ = k THEN node.next ELSE @,
                   !.end = IF @ = k THEN node.prev ELSE @,
                   !.recency = Left(@, k),
                   !.fault = Faulted(c, {IF c.begin = k THEN k ELSE node.prev,
                                         IF c.end = k THEN k ELSE node.next})]

\* Bound: nodes go by their keys, so a key whose evicted node is still linked from
\* somewhere is not put again.
Linkable(c, k) ==
    /\ k \notin {c.begin, c.end}
    /\ \A i \in Keys(c) : k \notin {c.hash[i].prev, c.hash[i].next}

\* One round of the loop of evict_to_max, and the rounds it may need.
EvictLast(c) ==
    IF c.max = 0 \/ Cardinality(Keys(c)) <= c.max \/ ~ Running(c) THEN c
    ELSE IF c.end \notin Keys(c)
         THEN [c EXCEPT !.fault = IF c.end = Null THEN "null" ELSE "endless"]
    ELSE evict(c, c.end)

evict_to_max(c) ==
    LET size == Cardinality(Keys(c))
        after[n \in 0 .. size] == IF n = 0 THEN c ELSE EvictLast(after[n - 1]) IN
    after[size]

\* The keys are evicted in the order ks.
Emptied(c, ks) ==
    LET after[n \in 0 .. Len(ks)] ==
          IF n = 0 THEN c
          ELSE IF Running(after[n - 1]) THEN evict(after[n - 1], ks[n])
          ELSE after[n - 1] IN
    after[Len(ks)]

------------------------------------------------------------------------------
(* uvm_regex.cc                                                              *)

Fresh == Handles \ DOMAIN heap

Allocated(h, q) == [i \in DOMAIN heap \cup {h} |-> IF i = h THEN q ELSE heap[i]]
Without(hs) == [i \in DOMAIN heap \ hs |-> heap[i]]

uvm_re_comp(q) ==
    /\ IF Compiles(q)
       THEN \E h \in Fresh : heap' = Allocated(h, q) /\ held' = held \cup {h}
       ELSE UNCHANGED <<heap, held>>
    /\ match' = NoMatch
    /\ UNCHANGED <<test, caching, cache>>

uvm_re_exec(h, str) ==
    /\ match' = [asked |-> heap[h], str |-> str, run |-> heap[h],
                 found |-> Found(heap[h], str), done |-> TRUE]
    /\ UNCHANGED <<test, caching, heap, held, cache>>

uvm_re_free(h) ==
    /\ heap' = Without({h}) /\ held' = held \ {h}
    /\ match' = NoMatch
    /\ UNCHANGED <<test, caching, cache>>

\* uvm_re_match gets at a compiled expression: without the cache it is freed
\* before the call returns.  The key of the cache is the text of the expression,
\* deglob does not belong to it.
uvm_re_compexecfree(q) ==
    /\ ~ caching
    /\ Fresh # {} \/ ~ Compiles(q)
    /\ UNCHANGED <<heap, cache>>

uvm_re_match_hit(q) ==
    /\ caching /\ q.re \in Keys(cache)
    /\ cache' = m_update(cache, q.re)
    /\ UNCHANGED heap

uvm_re_compexec(q) ==
    /\ caching /\ q.re \notin Keys(cache) /\ Linkable(cache, q.re)
    /\ IF Compiles(q)
       THEN \E h \in Fresh : heap' = Allocated(h, q) /\ cache' = put(cache, q.re, h)
       ELSE UNCHANGED <<heap, cache>>

Fetch(q) == \/ uvm_re_compexecfree(q)
            \/ uvm_re_match_hit(q)
            \/ uvm_re_compexec(q)
Run(q) == IF caching /\ q.re \in Keys(cache) THEN heap[cache.hash[q.re].data] ELSE q

uvm_re_match(q, str) ==
    /\ Fetch(q)
    /\ match' = [asked |-> q, str |-> str, run |-> Run(q), found |-> Found(Run(q), str),
                 done |-> TRUE]
    /\ UNCHANGED <<test, caching, held>>

\* Mutant: what is evicted is not freed.
ShrunkLeaks(c) ==
    /\ cache' = c
    /\ match' = NoMatch
    /\ UNCHANGED <<test, caching, held, heap>>

\* uvm_regex_cache frees what is evicted.
Shrunk(c) ==
    /\ cache' = c
    /\ heap' = Without({cache.hash[k].data : k \in Keys(cache) \ Keys(c)})
    /\ match' = NoMatch
    /\ UNCHANGED <<test, caching, held>>

set_max_size(n) == caching /\ Shrunk(evict_to_max([cache EXCEPT !.max = n]))

\* The keys are evicted in the order of the hash, whatever it is.
Orders(S) == {ks \in [1 .. Cardinality(S) -> S] : \A i, j \in DOMAIN ks : ks[i] = ks[j] => i = j}
flush == caching /\ \E ks \in Orders(Keys(cache)) : Shrunk(Emptied(cache, ks))

CacheNext ==
    /\ Running(cache)
    /\ \/ \E q \in test.queries : \/ uvm_re_comp(q)
                            \/ \E str \in Strings : uvm_re_match(q, str)
       \/ \E h \in held : uvm_re_free(h) \/ \E str \in Strings : uvm_re_exec(h, str)
       \/ \E n \in Sizes : set_max_size(n)
       \/ flush

\* What others do at the C side: match the arguments of a command line one by one,
\* and call what does not know of expressions.
Search(q) == Fetch(q) /\ match' = NoMatch /\ UNCHANGED <<test, caching, held>>
Aside == match' = NoMatch /\ UNCHANGED <<test, caching, heap, held, cache>>
CacheElse == Running(cache) /\ (Aside \/ \E re \in test.patterns : Search(Glob(re)))

CacheSpec == CacheInit /\ [][CacheNext \/ CacheElse]_cvars

------------------------------------------------------------------------------
(* Properties                                                                *)

\* Everything compiled belongs to one owner, the cache or a caller: nothing leaks,
\* nothing is used or freed twice, and a key finds what was compiled from it.
HandlesSound ==
    LET cached == {cache.hash[k].data : k \in Keys(cache)} IN
    Running(cache) =>
        /\ DOMAIN heap = cached \cup held /\ cached \cap held = {}
        /\ \A j, k \in Keys(cache) : cache.hash[j].data = cache.hash[k].data => j = k
        /\ \A k \in Keys(cache) : heap[cache.hash[k].data].re = k

\* The links from m_begin visit the keys in the order of their last use, and each
\* one's prev is the one before it.
Linked(c) ==
    LET r == c.recency IN
    /\ r \in Seq(Keys(c))
    /\ \A k \in Keys(c) : \E i \in DOMAIN r : r[i] = k
    /\ \A i, j \in DOMAIN r : r[i] = r[j] => i = j
    /\ c.begin = (IF r = <<>> THEN Null ELSE r[1])
    /\ \A i \in DOMAIN r :
         /\ c.hash[r[i]].next = (IF i = Len(r) THEN Null ELSE r[i + 1])
         /\ c.hash[r[i]].prev = (IF i = 1 THEN Null ELSE r[i - 1])
EndIsLast(c) == c.end = (IF c.recency = <<>> THEN Null ELSE c.recency[Len(c.recency)])

\* While m_end is the key that was not used for longest, every call leaves the list in
\* the order of use and the calls that evict take the oldest keys; once m_end is
\* stale (EvictsOldest), the list stays in order until something is evicted.
ListIsRecency ==
    [][Linked(cache) /\ (EndIsLast(cache) \/ Keys(cache) \subseteq Keys(cache'))
         => /\ Linked(cache')
            /\ EndIsLast(cache) =>
                 /\ Running(cache')
                 /\ cache'.max # cache.max =>
                      cache'.recency = SubSeq(cache.recency, 1, Len(cache'.recency))]_cvars

\* uvm_lru_cache.svh:112: evict_to_max evicts the least recently used keys.
EvictsOldest ==
    [][cache'.max # cache.max =>
         /\ Running(cache')
         /\ cache'.recency = SubSeq(cache.recency, 1, Len(cache'.recency))]_cvars
=============================================================================
