------------------------------ MODULE TextProofs ------------------------------
(* The cache of compiled expressions, the arguments and the expressions      *)
(* themselves, proved for every set of expressions, strings, command lines,  *)
(* sizes and handles: what is compiled has one owner (HandlesAreSound), the  *)
(* list of the cache is in the order of use (ListInOrder), arguments come in *)
(* the order they were typed (ArgumentsInOrder), and what is found is what a *)
(* glob is said to match (MatchesRight).                                     *)
(*                                                                           *)
(* CInv says that the cache is well formed (CacheTyped) and that every       *)
(* handle is owned (Owned, of what the cache knows of each key: Data).       *)
(* EvictParts, UpdateParts and PutParts say what an operation does to each   *)
(* part of the cache; LinkedEvict, LinkedUpdate and LinkedPut that a list in *)
(* order stays in order.  The loops of evict_to_max and flush are recursive  *)
(* functions: LoopRuns gives their values, Rounds is induction along them.   *)
(* StepTouches: every step changes the cache in one of five ways.            *)
(*                                                                           *)
(* ConcatRuns and RunsAt say what a text put together of parts holds at each *)
(* place.  WalkedIs: the walk over the array of a file pushes what was typed *)
(* in it, hence WalkIsLeaves; AInv ties the calls made to the arguments      *)
(* handed out.  GlobShape: the expression of a glob has the characters of    *)
(* the glob at known places (Shape), each of which takes what the glob's may *)
(* be dealt (CharTaken), so that the whole takes what the glob matches       *)
(* (ShapeMatches, GlobRight).  MInv adds to CInv that what callers hold was  *)
(* compiled from what the test asks for.                                     *)
EXTENDS CmdlineArgs, QueuesProofs, NaturalsInduction, SequenceTheorems, TLAPS

Names == UNION {Texts(t) : t \in Tests}
Links == Names \cup {Null}
Node == [data : Handles, next : Links, prev : Links]
CacheSet ==
  [hash : UNION {[K -> Node] : K \in SUBSET Names}, begin : Links, end : Links,
   max : Nat, recency : Seq(Names), fault : {"none", "null", "endless"}]

------------------------------------------------------------------------------
(* What the operations of the cache do, record by record                     *)

LEMMA NullApart == Null \notin Names
BY CacheAssumption DEF Names

LEMMA CacheParts ==
  ASSUME NEW c \in CacheSet
  PROVE  /\ c.hash \in [Keys(c) -> Node] /\ Keys(c) \subseteq Names
         /\ c.begin \in Links /\ c.end \in Links /\ c.max \in Nat
         /\ c.recency \in Seq(Names) /\ c.fault \in {"none", "null", "endless"}
BY DEF CacheSet, Keys

LEMMA HashSet ==
  ASSUME NEW K \in SUBSET Names, NEW h \in [K -> Node]
  PROVE  h \in UNION {[L -> Node] : L \in SUBSET Names}
OBVIOUS

LEMMA LeftType ==
  ASSUME NEW S, NEW r \in Seq(S), NEW k
  PROVE  Left(r, k) \in Seq(S)
<1> DEFINE p == CHOOSE p \in DOMAIN r : r[p] = k
           l == [i \in 1 .. Len(r) - 1 |-> IF i < p THEN r[i] ELSE r[i + 1]]
<1>1. l \in Seq(S)
  <2> HIDE DEF p
  <2>1. CASE Len(r) = 0
    <3>1. l = <<>>
      BY <2>1
    <3> QED
      BY <3>1
  <2>2. CASE Len(r) # 0
    <3>1. Len(r) - 1 \in Nat /\ \A i \in 1 .. Len(r) - 1 : l[i] \in S
      BY <2>2
    <3> QED
      BY <3>1
  <2> QED
    BY <2>1, <2>2
<1> QED
  BY <1>1 DEF Left

(* e is c without k. *)
EvictedFrom(c, k, e) ==
  LET node == c.hash[k] IN
  /\ e \in CacheSet /\ e.max = c.max
  /\ Keys(e) = Keys(c) \ {k}
  /\ \A i \in Keys(e) :
       /\ e.hash[i].data = c.hash[i].data
       /\ e.hash[i].next = IF c.begin # k /\ i = node.prev THEN node.next
                           ELSE c.hash[i].next
       /\ e.hash[i].prev = IF c.end # k /\ i = node.next THEN node.prev
                           ELSE c.hash[i].prev
  /\ e.begin = IF c.begin = k THEN node.next ELSE c.begin
  /\ e.end = IF c.end = k THEN node.prev ELSE c.end
  /\ e.recency = Left(c.recency, k)
  /\ e.fault = Faulted(c, {IF c.begin = k THEN k ELSE node.prev,
                           IF c.end = k THEN k ELSE node.next})

LEMMA EvictParts ==
  ASSUME NEW c \in CacheSet, NEW k \in Keys(c)
  PROVE  EvictedFrom(c, k, evict(c, k))
<1> DEFINE node == c.hash[k]
           links == [i \in Keys(c) \ {k} |->
                       [c.hash[i] EXCEPT
                          !.next = IF c.begin # k /\ i = node.prev THEN node.next ELSE @,
                          !.prev = IF c.end # k /\ i = node.next THEN node.prev ELSE @]]
           fault == Faulted(c, {IF c.begin = k THEN k ELSE node.prev,
                                IF c.end = k THEN k ELSE node.next})
           left == Left(c.recency, k)
           begin == IF c.begin = k THEN node.next ELSE c.begin
           end == IF c.end = k THEN node.prev ELSE c.end
           e == [c EXCEPT !.hash = links, !.begin = begin, !.end = end,
                          !.recency = left, !.fault = fault]
<1>1. /\ c.hash \in [Keys(c) -> Node] /\ Keys(c) \subseteq Names
      /\ c.begin \in Links /\ c.end \in Links /\ c.fault \in {"none", "null", "endless"}
      /\ c.recency \in Seq(Names)
  BY CacheParts
<1>2. links \in [Keys(c) \ {k} -> Node]
  BY <1>1 DEF Node
<1>3. \A i \in Keys(c) \ {k} :
        /\ links[i].data = c.hash[i].data
        /\ links[i].next = IF c.begin # k /\ i = node.prev THEN node.next
                           ELSE c.hash[i].next
        /\ links[i].prev = IF c.end # k /\ i = node.next THEN node.prev
                           ELSE c.hash[i].prev
  BY <1>1 DEF Node
<1>4. begin \in Links /\ end \in Links
  BY <1>1 DEF Node
<1>5. fault \in {"none", "null", "endless"}
  BY <1>1 DEF Faulted
<1>6. left \in Seq(Names)
  BY <1>1, LeftType
<1>7. evict(c, k) = e
  BY DEF evict
<1>8. links \in UNION {[L -> Node] : L \in SUBSET Names} /\ DOMAIN links = Keys(c) \ {k}
  BY <1>1, <1>2, HashSet
<1> HIDE DEF links, fault, left, begin, end
<1>9. /\ e \in CacheSet /\ e.hash = links /\ e.begin = begin /\ e.end = end
      /\ e.max = c.max /\ e.recency = left /\ e.fault = fault
  BY <1>4, <1>5, <1>6, <1>8 DEF CacheSet
<1>10. Keys(e) = Keys(c) \ {k}
  BY <1>8, <1>9 DEF Keys
<1>11. EvictedFrom(c, k, e)
  BY <1>3, <1>9, <1>10 DEF EvictedFrom, fault, left, begin, end
<1> QED
  BY <1>7, <1>11

(* e is c with the links of k moved to the front. *)
Moved(c, k, e) ==
  LET node == c.hash[k] IN
  /\ e.hash[k].next = c.begin /\ e.hash[k].prev = Null
  /\ \A i \in Keys(c) \ {k} :
       /\ e.hash[i].next = IF i = node.prev THEN node.next ELSE c.hash[i].next
       /\ e.hash[i].prev = IF i = c.begin THEN k
                           ELSE IF i = node.next THEN node.prev
                           ELSE c.hash[i].prev

LEMMA UpdateParts ==
  ASSUME NEW c \in CacheSet, NEW k \in Keys(c), c.begin # k
  PROVE  LET e == m_update(c, k)
             node == c.hash[k] IN
         /\ e \in CacheSet
         /\ Keys(e) = Keys(c)
         /\ \A i \in Keys(c) : e.hash[i].data = c.hash[i].data
         /\ Moved(c, k, e)
         /\ e.begin = k /\ e.end = c.end /\ e.max = c.max
         /\ e.recency = <<k>> \o Left(c.recency, k)
         /\ e.fault = Faulted(c, {node.prev, c.begin})
<1> DEFINE node == c.hash[k]
           links == [i \in Keys(c) |->
                       IF i = k THEN [node EXCEPT !.prev = Null, !.next = c.begin]
                       ELSE [c.hash[i] EXCEPT
                               !.next = IF i = node.prev THEN node.next ELSE @,
                               !.prev = IF i = c.begin THEN k
                                        ELSE IF i = node.next THEN node.prev
                                        ELSE @]]
           fault == Faulted(c, {node.prev, c.begin})
           order == <<k>> \o Left(c.recency, k)
           e == [c EXCEPT !.hash = links, !.begin = k, !.recency = order, !.fault = fault]
<1>1. /\ c.hash \in [Keys(c) -> Node] /\ Keys(c) \subseteq Names
      /\ c.begin \in Links /\ c.end \in Links /\ c.fault \in {"none", "null", "endless"}
      /\ c.recency \in Seq(Names)
  BY CacheParts
<1>2. links \in [Keys(c) -> Node]
  BY <1>1 DEF Node, Links
<1>3. /\ \A i \in Keys(c) : links[i].data = c.hash[i].data
      /\ links[k].next = c.begin /\ links[k].prev = Null
      /\ \A i \in Keys(c) \ {k} :
           /\ links[i].next = IF i = node.prev THEN node.next ELSE c.hash[i].next
           /\ links[i].prev = IF i = c.begin THEN k
                              ELSE IF i = node.next THEN node.prev
                              ELSE c.hash[i].prev
  BY <1>1 DEF Node
<1>5. fault \in {"none", "null", "endless"}
  BY <1>1 DEF Faulted
<1>6. order \in Seq(Names)
  <2>1. Left(c.recency, k) \in Seq(Names) /\ k \in Names
    BY <1>1, LeftType
  <2> QED
    BY <2>1
<1>7. m_update(c, k) = e
  BY DEF m_update
<1>8. links \in UNION {[L -> Node] : L \in SUBSET Names} /\ DOMAIN links = Keys(c)
  BY <1>1, <1>2, HashSet
<1>9. k \in Links
  BY <1>1 DEF Links
<1> HIDE DEF links, fault, order
<1>10. /\ e \in CacheSet /\ e.hash = links /\ e.begin = k /\ e.end = c.end
       /\ e.max = c.max /\ e.recency = order /\ e.fault = fault
  BY <1>5, <1>6, <1>8, <1>9 DEF CacheSet
<1>11. Keys(e) = Keys(c)
  BY <1>8, <1>10 DEF Keys
<1>12. Moved(c, k, e)
  BY <1>3, <1>10 DEF Moved
<1> QED
  BY <1>3, <1>7, <1>10, <1>11, <1>12 DEF fault, order

(* e is c with k in front. *)
PutInto(c, k, d, e) ==
  /\ e \in CacheSet /\ e.max = c.max
  /\ Keys(e) = Keys(c) \cup {k}
  /\ e.hash[k].data = d /\ e.hash[k].next = c.begin /\ e.hash[k].prev = Null
  /\ \A i \in Keys(c) :
       /\ e.hash[i].data = c.hash[i].data
       /\ e.hash[i].next = c.hash[i].next
       /\ e.hash[i].prev = IF i = c.begin THEN k ELSE c.hash[i].prev
  /\ e.begin = k /\ e.fault = c.fault
  /\ e.recency = <<k>> \o c.recency

LEMMA PutParts ==
  ASSUME NEW c \in CacheSet, NEW k \in Names \ Keys(c), NEW d \in Handles
  PROVE  PutInto(c, k, d, put(c, k, d))
<1> DEFINE links == [i \in Keys(c) \cup {k} |->
                       IF i = k THEN [data |-> d, next |-> c.begin, prev |-> Null]
                       ELSE [c.hash[i] EXCEPT !.prev = IF i = c.begin THEN k ELSE @]]
           order == <<k>> \o c.recency
           end == IF c.begin = Null THEN k ELSE c.end
           e == [c EXCEPT !.hash = links, !.begin = k, !.end = end, !.recency = order]
<1>1. /\ c.hash \in [Keys(c) -> Node] /\ Keys(c) \subseteq Names
      /\ c.begin \in Links /\ c.end \in Links
      /\ c.recency \in Seq(Names)
  BY CacheParts
<1>2. links \in [Keys(c) \cup {k} -> Node]
  BY <1>1 DEF Node, Links
<1>3. /\ links[k].data = d /\ links[k].next = c.begin /\ links[k].prev = Null
      /\ \A i \in Keys(c) :
           /\ links[i].data = c.hash[i].data
           /\ links[i].next = c.hash[i].next
           /\ links[i].prev = IF i = c.begin THEN k ELSE c.hash[i].prev
  BY <1>1 DEF Node
<1>4. order \in Seq(Names)
  BY <1>1
<1>5. k \in Links /\ end \in Links
  BY <1>1 DEF Links
<1>6. put(c, k, d) = e
  BY DEF put
<1>7. links \in UNION {[L -> Node] : L \in SUBSET Names} /\ DOMAIN links = Keys(c) \cup {k}
  BY <1>1, <1>2, HashSet
<1> HIDE DEF links, order, end
<1>8. /\ e \in CacheSet /\ e.hash = links /\ e.begin = k
      /\ e.max = c.max /\ e.recency = order /\ e.fault = c.fault
  BY <1>4, <1>5, <1>7 DEF CacheSet
<1>9. Keys(e) = Keys(c) \cup {k}
  BY <1>7, <1>8 DEF Keys
<1>10. PutInto(c, k, d, e)
  BY <1>3, <1>8, <1>9 DEF PutInto, order
<1> QED
  BY <1>6, <1>10

------------------------------------------------------------------------------
(* What they do to a list that is in order                                   *)

(* Taking an entry out of a queue without duplicates. *)
LEMMA LeftAt ==
  ASSUME NEW r \in Seq(Names), NEW k, NEW p \in DOMAIN r, r[p] = k,
         \A i, j \in DOMAIN r : r[i] = r[j] => i = j
  PROVE  /\ Len(Left(r, k)) = Len(r) - 1
         /\ DOMAIN Left(r, k) = 1 .. Len(r) - 1
         /\ Left(r, k) \in Seq(Names)
         /\ \A i \in 1 .. Len(r) - 1 : Left(r, k)[i] = IF i < p THEN r[i] ELSE r[i + 1]
<1>1. p = CHOOSE q \in DOMAIN r : r[q] = k
  OBVIOUS
<1>2. Left(r, k) = [i \in 1 .. Len(r) - 1 |-> IF i < p THEN r[i] ELSE r[i + 1]]
  BY <1>1 DEF Left
<1>3. Left(r, k) \in Seq(Names)
  BY LeftType
<1>4. Len(r) \in Nat /\ Len(r) - 1 \in Nat
  OBVIOUS
<1> QED
  BY <1>2, <1>3, <1>4

Straight(c) == Linked(c) /\ EndIsLast(c) /\ Running(c)

LEMMA LinkedEvict ==
  ASSUME NEW c \in CacheSet, Straight(c), NEW k \in Keys(c)
  PROVE  LET e == evict(c, k) IN
         /\ Straight(e)
         /\ Len(e.recency) = Len(c.recency) - 1
         /\ k = c.end => \A i \in DOMAIN e.recency : e.recency[i] = c.recency[i]
<1> DEFINE e == evict(c, k)
           node == c.hash[k]
           r == c.recency
           N == Len(r)
           l == e.recency
<1>1. /\ Keys(e) = Keys(c) \ {k}
      /\ \A i \in Keys(e) :
           /\ e.hash[i].next = IF c.begin # k /\ i = node.prev THEN node.next
                               ELSE c.hash[i].next
           /\ e.hash[i].prev = IF c.end # k /\ i = node.next THEN node.prev
                               ELSE c.hash[i].prev
      /\ e.begin = IF c.begin = k THEN node.next ELSE c.begin
      /\ e.end = IF c.end = k THEN node.prev ELSE c.end
      /\ l = Left(c.recency, k)
      /\ e.fault = Faulted(c, {IF c.begin = k THEN k ELSE node.prev,
                               IF c.end = k THEN k ELSE node.next})
  <2>1. EvictedFrom(c, k, e)
    BY EvictParts
  <2> HIDE DEF e
  <2> QED
    BY <2>1 DEF EvictedFrom
<1>2. /\ r \in Seq(Keys(c))
      /\ \A i, j \in DOMAIN r : r[i] = r[j] => i = j
      /\ \A j \in Keys(c) : \E i \in DOMAIN r : r[i] = j
  BY DEF Straight, Linked
<1>3. PICK p \in DOMAIN r : r[p] = k
  BY <1>2
<1>4. /\ N \in Nat /\ N # 0 /\ p \in 1 .. N /\ DOMAIN r = 1 .. N
      /\ c.begin = r[1] /\ c.end = r[N]
      /\ \A i \in 1 .. N :
           /\ c.hash[r[i]].next = (IF i = N THEN Null ELSE r[i + 1])
           /\ c.hash[r[i]].prev = (IF i = 1 THEN Null ELSE r[i - 1])
  <2>1. N \in Nat /\ N # 0 /\ p \in 1 .. N /\ DOMAIN r = 1 .. N /\ r # <<>>
    BY <1>2, <1>3
  <2>2. c.begin = r[1] /\ c.end = r[N]
    BY <2>1 DEF Straight, Linked, EndIsLast
  <2>3. \A i \in DOMAIN r :
          /\ c.hash[r[i]].next = (IF i = N THEN Null ELSE r[i + 1])
          /\ c.hash[r[i]].prev = (IF i = 1 THEN Null ELSE r[i - 1])
    BY DEF Straight, Linked
  <2> HIDE DEF r, N
  <2> QED
    BY <2>1, <2>2, <2>3
<1>5. /\ Len(l) = N - 1 /\ DOMAIN l = 1 .. N - 1
      /\ l \in Seq(Names)
      /\ \A i \in 1 .. N - 1 : l[i] = IF i < p THEN r[i] ELSE r[i + 1]
  <2>1. l = Left(r, k)
    BY <1>1
  <2>0. r \in Seq(Names)
    BY CacheParts
  <2> HIDE DEF l, r
  <2>2. /\ Len(l) = Len(r) - 1
        /\ DOMAIN l = 1 .. Len(r) - 1 /\ l \in Seq(Names)
        /\ \A i \in 1 .. Len(r) - 1 : l[i] = IF i < p THEN r[i] ELSE r[i + 1]
    <3>1. \A i, j \in DOMAIN r : r[i] = r[j] => i = j
      BY <1>2
    <3>2. p \in DOMAIN r /\ r[p] = k
      BY <1>3
    <3>3. /\ Len(Left(r, k)) = Len(r) - 1
          /\ DOMAIN Left(r, k) = 1 .. Len(r) - 1
          /\ Left(r, k) \in Seq(Names)
          /\ \A i \in 1 .. Len(r) - 1 : Left(r, k)[i] = IF i < p THEN r[i] ELSE r[i + 1]
      BY <2>0, <3>1, <3>2, LeftAt, ZenonT(60)
    <3> QED
      BY <2>1, <3>3
  <2> QED
    BY <2>2
<1> HIDE DEF e, r, N, l
<1>6. Null \notin Keys(c) /\ \A i \in 1 .. N : r[i] \in Keys(c)
  <2>1. Null \notin Keys(c)
    BY CacheParts, NullApart
  <2>2. ASSUME NEW i \in 1 .. N PROVE r[i] \in Keys(c)
    BY <1>2, <1>4
  <2> QED
    BY <2>1, <2>2
<1>0. \A i, j \in 1 .. N : r[i] = r[j] => i = j
  BY <1>2, <1>4
<1>7. (c.begin = k <=> p = 1) /\ (c.end = k <=> p = N)
  BY <1>0, <1>3, <1>4
<1>8. Running(e)
  <2>1. Running(c)
    BY DEF Straight
  <2>2. p # 1 => node.prev # Null
    <3>1. p # 1 => node.prev = r[p - 1] /\ p - 1 \in 1 .. N
      BY <1>3, <1>4
    <3> QED
      BY <1>6, <3>1
  <2>3. p # N => node.next # Null
    <3>1. p # N => node.next = r[p + 1] /\ p + 1 \in 1 .. N
      BY <1>3, <1>4
    <3> QED
      BY <1>6, <3>1
  <2>4. k # Null
    BY <1>6
  <2> HIDE DEF node
  <2> QED
    BY <1>1, <1>7, <2>1, <2>2, <2>3, <2>4 DEF Running, Faulted
<1>9. Linked(e)
  <2>1. \A i \in 1 .. N - 1 : l[i] \in Keys(e)
    BY <1>0, <1>1, <1>3, <1>4, <1>5, <1>6
  <2>2. l \in Seq(Keys(e))
    BY <1>5, <2>1
  <2>3. \A j \in Keys(e) : \E i \in DOMAIN l : l[i] = j
    <3> SUFFICES ASSUME NEW j \in Keys(e) PROVE \E i \in DOMAIN l : l[i] = j
      OBVIOUS
    <3>1. PICK i \in 1 .. N : r[i] = j
      BY <1>1, <1>2, <1>4
    <3>2. i # p
      BY <1>1, <1>3, <3>1
    <3>3. CASE i < p
      BY <1>4, <1>5, <3>1, <3>3
    <3>4. CASE i > p
      <4>1. i - 1 \in 1 .. N - 1 /\ ~ (i - 1 < p)
        BY <1>4, <3>4
      <4> QED
        BY <1>5, <3>1, <4>1
    <3> QED
      BY <1>4, <3>2, <3>3, <3>4
  <2>4. \A i, j \in DOMAIN l : l[i] = l[j] => i = j
    <3> SUFFICES ASSUME NEW i \in 1 .. N - 1, NEW j \in 1 .. N - 1, l[i] = l[j]
                 PROVE  i = j
      BY <1>5
    <3> DEFINE qi == IF i < p THEN i ELSE i + 1
               qj == IF j < p THEN j ELSE j + 1
    <3>1. l[i] = r[qi] /\ l[j] = r[qj] /\ qi \in 1 .. N /\ qj \in 1 .. N
      BY <1>4, <1>5
    <3>2. qi = qj
      <4> HIDE DEF qi, qj
      <4> QED
        BY <1>0, <3>1
    <3> QED
      BY <1>4, <3>2
  <2>5. e.begin = (IF l = <<>> THEN Null ELSE l[1])
    <3>1. CASE p = 1 /\ N = 1
      <4>1. l = <<>>
        BY <1>5, <3>1
      <4> QED
        BY <1>1, <1>3, <1>4, <3>1, <4>1
    <3>2. CASE p = 1 /\ N # 1
      BY <1>1, <1>3, <1>4, <1>5, <3>2
    <3>3. CASE p # 1
      BY <1>1, <1>4, <1>5, <1>7, <3>3
    <3> QED
      BY <3>1, <3>2, <3>3
  <2>6. ASSUME NEW i \in DOMAIN l
        PROVE  /\ e.hash[l[i]].next = (IF i = Len(l) THEN Null ELSE l[i + 1])
               /\ e.hash[l[i]].prev = (IF i = 1 THEN Null ELSE l[i - 1])
    <3> DEFINE q == IF i < p THEN i ELSE i + 1
    <3>1. q \in 1 .. N /\ q # p /\ l[i] = r[q] /\ l[i] \in Keys(e) /\ i \in 1 .. N - 1
      BY <1>4, <1>5, <2>1
    <3>2. node.prev = (IF p = 1 THEN Null ELSE r[p - 1])
          /\ node.next = (IF p = N THEN Null ELSE r[p + 1])
      BY <1>3, <1>4
    <3>3. /\ p # 1 => (r[q] = r[p - 1] <=> q = p - 1)
          /\ p # N => (r[q] = r[p + 1] <=> q = p + 1)
      <4>1. /\ p # 1 => p - 1 \in 1 .. N
            /\ p # N => p + 1 \in 1 .. N
        BY <1>4
      <4> HIDE DEF q
      <4> QED
        BY <1>0, <3>1, <4>1
    <3>4. e.hash[l[i]].next = (IF i = Len(l) THEN Null ELSE l[i + 1])
      <4>1. e.hash[l[i]].next = IF p # 1 /\ q = p - 1 THEN node.next ELSE c.hash[r[q]].next
        BY <1>1, <1>7, <3>1, <3>2, <3>3
      <4>2. CASE q = p - 1
        BY <1>4, <1>5, <3>1, <3>2, <4>1, <4>2
      <4>3. CASE q # p - 1
        <5>1. e.hash[l[i]].next = (IF q = N THEN Null ELSE r[q + 1])
          BY <1>4, <3>1, <4>1, <4>3
        <5>2. q = N <=> i = N - 1
          BY <1>4, <3>1, <4>3
        <5>3. ASSUME q # N PROVE l[i + 1] = r[q + 1]
          <6>1. i + 1 \in 1 .. N - 1 /\ q + 1 = IF i + 1 < p THEN i + 1 ELSE i + 2
            BY <1>4, <3>1, <4>3, <5>3
          <6> QED
            BY <1>5, <6>1
        <5> HIDE DEF q
        <5> QED
          BY <1>5, <5>1, <5>2, <5>3
      <4> QED
        BY <4>2, <4>3
    <3>5. e.hash[l[i]].prev = (IF i = 1 THEN Null ELSE l[i - 1])
      <4>1. e.hash[l[i]].prev = IF p # N /\ q = p + 1 THEN node.prev ELSE c.hash[r[q]].prev
        BY <1>1, <1>7, <3>1, <3>2, <3>3
      <4>2. CASE q = p + 1
        BY <1>4, <1>5, <3>1, <3>2, <4>1, <4>2
      <4>3. CASE q # p + 1
        <5>1. e.hash[l[i]].prev = (IF q = 1 THEN Null ELSE r[q - 1])
          BY <1>4, <3>1, <4>1, <4>3
        <5>2. q = 1 <=> i = 1
          BY <1>4, <3>1, <4>3
        <5>3. ASSUME q # 1 PROVE l[i - 1] = r[q - 1]
          <6>1. i - 1 \in 1 .. N - 1 /\ q - 1 = IF i - 1 < p THEN i - 1 ELSE i
            BY <1>4, <3>1, <4>3, <5>3
          <6> QED
            BY <1>5, <6>1
        <5> HIDE DEF q
        <5> QED
          BY <1>5, <5>1, <5>2, <5>3
      <4> QED
        BY <4>2, <4>3
    <3> QED
      BY <3>4, <3>5
  <2> QED
    BY <2>2, <2>3, <2>4, <2>5, <2>6 DEF Linked, l
<1>10. EndIsLast(e)
  <2>1. e.end = (IF l = <<>> THEN Null ELSE l[Len(l)])
    <3>1. CASE N = 1
      <4>1. l = <<>> /\ p = 1
        BY <1>4, <1>5, <3>1
      <4> QED
        BY <1>1, <1>3, <1>4, <3>1, <4>1
    <3>2. CASE N # 1 /\ p = N
      BY <1>1, <1>3, <1>4, <1>5, <3>2
    <3>3. CASE N # 1 /\ p # N
      BY <1>1, <1>4, <1>5, <1>7, <3>3
    <3> QED
      BY <3>1, <3>2, <3>3
  <2> QED
    BY <2>1 DEF EndIsLast, l
<1>11. k = c.end => \A i \in DOMAIN l : l[i] = r[i]
  BY <1>4, <1>5, <1>7
<1> QED
  BY <1>5, <1>8, <1>9, <1>10, <1>11 DEF Straight, l, r, N, e

(* Linked(c) with the length N of the list r.                                *)
InOrder(c, r, N) ==
  /\ \A i \in 1 .. N : r[i] \in Keys(c)
  /\ \A k \in Keys(c) : \E i \in 1 .. N : r[i] = k
  /\ \A i, j \in 1 .. N : r[i] = r[j] => i = j
  /\ c.begin = (IF N = 0 THEN Null ELSE r[1])
  /\ \A i \in 1 .. N :
       /\ c.hash[r[i]].next = (IF i = N THEN Null ELSE r[i + 1])
       /\ c.hash[r[i]].prev = (IF i = 1 THEN Null ELSE r[i - 1])

LEMMA LinkedParts ==
  ASSUME NEW c \in CacheSet, Linked(c)
  PROVE  /\ Len(c.recency) \in Nat /\ DOMAIN c.recency = 1 .. Len(c.recency)
         /\ c.recency \in Seq(Names)
         /\ InOrder(c, c.recency, Len(c.recency))
<1> DEFINE r == c.recency
           N == Len(r)
<1>1. r \in Seq(Keys(c)) /\ r \in Seq(Names)
  BY CacheParts DEF Linked
<1>2. N \in Nat /\ DOMAIN r = 1 .. N /\ (N = 0 <=> r = <<>>)
  BY <1>1
<1>3. \A i \in 1 .. N : r[i] \in Keys(c)
  BY <1>1, <1>2
<1>4. /\ \A k \in Keys(c) : \E i \in DOMAIN r : r[i] = k
      /\ \A i, j \in DOMAIN r : r[i] = r[j] => i = j
      /\ c.begin = (IF r = <<>> THEN Null ELSE r[1])
  BY DEF Linked
<1>5. \A i \in DOMAIN r :
        /\ c.hash[r[i]].next = (IF i = N THEN Null ELSE r[i + 1])
        /\ c.hash[r[i]].prev = (IF i = 1 THEN Null ELSE r[i - 1])
  BY DEF Linked
<1>6. InOrder(c, r, N)
  <2> HIDE DEF r, N
  <2> QED
    BY <1>2, <1>3, <1>4, <1>5 DEF InOrder
<1> QED
  BY <1>1, <1>2, <1>6

LEMMA LinkedFrom ==
  ASSUME NEW c, c.recency \in Seq(Names), InOrder(c, c.recency, Len(c.recency))
  PROVE  Linked(c)
<1> DEFINE l == c.recency
           N == Len(l)
<1>1. N \in Nat /\ DOMAIN l = 1 .. N /\ (N = 0 <=> l = <<>>)
  OBVIOUS
<1>2. l \in Seq(Keys(c))
  <2>1. \A i \in 1 .. N : l[i] \in Keys(c)
    BY DEF InOrder
  <2> QED
    BY <1>1, <2>1
<1>3. /\ \A k \in Keys(c) : \E i \in DOMAIN l : l[i] = k
      /\ \A i, j \in DOMAIN l : l[i] = l[j] => i = j
      /\ c.begin = (IF l = <<>> THEN Null ELSE l[1])
  <2>1. InOrder(c, l, N)
    OBVIOUS
  <2> HIDE DEF l, N
  <2> QED
    BY <1>1, <2>1 DEF InOrder
<1>4. \A i \in DOMAIN l :
        /\ c.hash[l[i]].next = (IF i = N THEN Null ELSE l[i + 1])
        /\ c.hash[l[i]].prev = (IF i = 1 THEN Null ELSE l[i - 1])
  <2>1. InOrder(c, l, N)
    OBVIOUS
  <2> HIDE DEF l, N
  <2> QED
    BY <1>1, <2>1 DEF InOrder
<1> QED
  BY <1>2, <1>3, <1>4 DEF Linked

LEMMA Prepended ==
  ASSUME NEW r \in Seq(Names), NEW k \in Names
  PROVE  /\ <<k>> \o r \in Seq(Names) /\ Len(<<k>> \o r) = Len(r) + 1
         /\ \A i \in 1 .. Len(r) + 1 : (<<k>> \o r)[i] = IF i = 1 THEN k ELSE r[i - 1]
<1>1. <<k>> \in Seq(Names) /\ Len(<<k>>) = 1 /\ Len(r) \in Nat
  OBVIOUS
<1>2. <<k>> \o r \in Seq(Names) /\ Len(<<k>> \o r) = Len(r) + 1
  BY <1>1
<1>3. ASSUME NEW i \in 1 .. Len(r) + 1
      PROVE  (<<k>> \o r)[i] = IF i = 1 THEN k ELSE r[i - 1]
  <2>1. CASE i = 1
    BY <1>1, <2>1
  <2>2. CASE i # 1
    BY <1>1, <2>2
  <2> QED
    BY <2>1, <2>2
<1> QED
  BY <1>2, <1>3

LEMMA LinkedUpdate ==
  ASSUME NEW c \in CacheSet, Linked(c), NEW k \in Keys(c)
  PROVE  LET e == m_update(c, k) IN Linked(e) /\ (Running(c) => Running(e))
<1>0. CASE c.begin = k
  BY <1>0 DEF m_update
<1>1. CASE c.begin # k
  <2> DEFINE e == m_update(c, k)
             node == c.hash[k]
             r == c.recency
             N == Len(r)
             l == e.recency
  <2>1. /\ e \in CacheSet /\ Keys(e) = Keys(c)
        /\ e.begin = k /\ l = <<k>> \o Left(r, k)
        /\ e.fault = Faulted(c, {node.prev, c.begin})
        /\ Moved(c, k, e)
    BY <1>1, UpdateParts
  <2>l. /\ e.hash[k].next = c.begin /\ e.hash[k].prev = Null
        /\ \A i \in Keys(c) \ {k} :
             /\ e.hash[i].next = IF i = node.prev THEN node.next ELSE c.hash[i].next
             /\ e.hash[i].prev = IF i = c.begin THEN k
                                 ELSE IF i = node.next THEN node.prev
                                 ELSE c.hash[i].prev
    <3> HIDE DEF e
    <3> QED
      BY <2>1 DEF Moved
  <2>n. N = Len(r) /\ N \in Nat /\ DOMAIN r = 1 .. N /\ r \in Seq(Names) /\ InOrder(c, r, N)
    BY LinkedParts
  <2> HIDE DEF e, r, N, l
  <2>2. /\ \A i \in 1 .. N : r[i] \in Keys(c)
        /\ \A j \in Keys(c) : \E i \in 1 .. N : r[i] = j
        /\ \A i, j \in 1 .. N : r[i] = r[j] => i = j
        /\ c.begin = (IF N = 0 THEN Null ELSE r[1])
    BY <2>n DEF InOrder
  <2>m. \A i \in 1 .. N :
          /\ c.hash[r[i]].next = (IF i = N THEN Null ELSE r[i + 1])
          /\ c.hash[r[i]].prev = (IF i = 1 THEN Null ELSE r[i - 1])
    BY <2>n DEF InOrder
  <2>3. Null \notin Keys(c) /\ k \in Names
    BY CacheParts, NullApart
  <2>4. PICK p \in 1 .. N : r[p] = k
    BY <2>2, <2>n
  <2>5. p # 1 /\ N # 0 /\ p - 1 \in 1 .. N /\ c.begin = r[1] /\ 1 \in 1 .. N
    BY <1>1, <2>2, <2>n, <2>4
  <2>6. /\ l \in Seq(Names) /\ Len(l) = N
        /\ \A i \in 1 .. N : l[i] = IF i = 1 THEN k ELSE IF i <= p THEN r[i - 1] ELSE r[i]
    <3> DEFINE q == Left(r, k)
    <3>1. /\ Len(q) = Len(r) - 1 /\ q \in Seq(Names)
          /\ \A i \in 1 .. Len(r) - 1 : q[i] = IF i < p THEN r[i] ELSE r[i + 1]
      <4>1. \A i, j \in DOMAIN r : r[i] = r[j] => i = j
        BY <2>2, <2>n
      <4>2. r \in Seq(Names) /\ p \in DOMAIN r /\ r[p] = k
        BY <2>2, <2>n, <2>4
      <4> QED
        BY <4>1, <4>2, LeftAt, ZenonT(60)
    <3> HIDE DEF q
    <3>2. l = <<k>> \o q
      BY <2>1 DEF q
    <3>3. l \in Seq(Names) /\ Len(l) = N
      BY <2>n, <2>3, <3>1, <3>2, Prepended
    <3>4. ASSUME NEW i \in 1 .. N
          PROVE  l[i] = IF i = 1 THEN k ELSE q[i - 1]
      <4>1. i \in 1 .. Len(q) + 1
        BY <2>n, <3>1
      <4> QED
        BY <2>3, <3>1, <3>2, <4>1, Prepended
    <3>5. ASSUME NEW i \in 1 .. N, i # 1
          PROVE  q[i - 1] = IF i <= p THEN r[i - 1] ELSE r[i]
      <4>1. i - 1 \in 1 .. Len(r) - 1 /\ (i - 1 < p <=> i <= p)
        BY <2>n, <2>4, <3>5
      <4>2. q[i - 1] = IF i - 1 < p THEN r[i - 1] ELSE r[(i - 1) + 1]
        BY <3>1, <4>1
      <4>3. (i - 1) + 1 = i
        OBVIOUS
      <4> QED
        BY <4>1, <4>2, <4>3
    <3> QED
      BY <3>3, <3>4, <3>5
  <2> DEFINE at(i) == IF i = 1 THEN p ELSE IF i <= p THEN i - 1 ELSE i
  <2>7. \A i \in 1 .. N : at(i) \in 1 .. N /\ l[i] = r[at(i)]
    BY <2>2, <2>n, <2>4, <2>6
  <2>8. \A i \in 1 .. N : l[i] \in Keys(e)
    <3> SUFFICES ASSUME NEW i \in 1 .. N PROVE l[i] \in Keys(e)
      OBVIOUS
    <3>1. PICK a \in 1 .. N : l[i] = r[a]
      <4> HIDE DEF at
      <4> QED
        BY <2>7
    <3>2. r[a] \in Keys(c)
      BY <2>2
    <3> QED
      BY <2>1, <3>1, <3>2
  <2>9. ASSUME NEW j \in Keys(e) PROVE \E i \in 1 .. N : l[i] = j
    <3>1. PICK i \in 1 .. N : r[i] = j
      BY <2>1, <2>2
    <3>2. CASE i = p
      BY <2>4, <2>5, <2>6, <3>1, <3>2
    <3>3. CASE i < p
      <4>1. i + 1 \in 1 .. N /\ i + 1 # 1 /\ i + 1 <= p
        BY <2>2, <2>n, <2>4, <3>3
      <4> QED
        BY <2>6, <3>1, <4>1
    <3>4. CASE i > p
      BY <2>2, <2>n, <2>4, <2>6, <3>1, <3>4
    <3> QED
      BY <2>2, <2>n, <2>4, <3>2, <3>3, <3>4
  <2>10. ASSUME NEW i \in 1 .. N, NEW j \in 1 .. N, l[i] = l[j] PROVE i = j
    <3>1. at(i) = at(j)
      <4> HIDE DEF at
      <4> QED
        <5>1. at(i) \in 1 .. N /\ at(j) \in 1 .. N /\ r[at(i)] = r[at(j)]
          BY <2>7, <2>10
        <5> QED
          BY <2>2, <5>1
    <3> QED
      BY <2>2, <2>n, <2>4, <3>1
  <2>11. e.begin = l[1]
    BY <2>1, <2>5, <2>6
  <2>12. /\ node.prev = r[p - 1]
         /\ node.next = (IF p = N THEN Null ELSE r[p + 1])
    BY <2>m, <2>n, <2>4, <2>5
  <2>13. ASSUME NEW i \in 1 .. N
         PROVE  /\ e.hash[l[i]].next = (IF i = N THEN Null ELSE l[i + 1])
                /\ e.hash[l[i]].prev = (IF i = 1 THEN Null ELSE l[i - 1])
    <3>1. CASE i = 1
      <4>1. l[i] = k /\ i # N /\ l[2] = r[1]
        BY <2>2, <2>n, <2>4, <2>5, <2>6, <3>1
      <4> QED
        BY <2>l, <2>5, <3>1, <4>1
    <3>2. CASE i # 1
      <4> DEFINE q == at(i)
      <4>1. q \in 1 .. N /\ q # p /\ l[i] = r[q] /\ r[q] # k /\ r[q] \in Keys(c)
        BY <2>2, <2>n, <2>4, <2>7, <3>2
      <4>2. /\ r[q] = r[p - 1] <=> q = p - 1
            /\ r[q] = r[1] <=> q = 1
            /\ p # N => (r[q] = r[p + 1] <=> q = p + 1)
        <5>1. p # N => p + 1 \in 1 .. N
          BY <2>2, <2>n, <2>4
        <5> HIDE DEF q
        <5> QED
          BY <2>2, <2>n, <2>5, <4>1, <5>1
      <4>3. e.hash[l[i]].next = IF q = p - 1 THEN node.next ELSE c.hash[r[q]].next
        <5> HIDE DEF q
        <5> QED
          BY <2>l, <2>12, <4>1, <4>2
      <4>4. e.hash[l[i]].prev = IF q = 1 THEN k
                                ELSE IF p # N /\ q = p + 1 THEN node.prev
                                ELSE c.hash[r[q]].prev
        <5> HIDE DEF q
        <5> QED
          BY <2>l, <2>3, <2>5, <2>12, <4>1, <4>2
      <4>5. e.hash[l[i]].next = (IF i = N THEN Null ELSE l[i + 1])
        <5>1. CASE q = p - 1
          <6>1. i = p
            BY <2>4, <3>2, <4>1, <5>1
          <6>2. p # N => l[p + 1] = r[p + 1]
            BY <2>2, <2>n, <2>4, <2>6
          <6> QED
            BY <2>12, <4>3, <5>1, <6>1, <6>2
        <5>2. CASE q # p - 1
          <6>1. e.hash[l[i]].next = (IF q = N THEN Null ELSE r[q + 1])
            BY <2>m, <4>1, <4>3, <5>2
          <6>2. q = N <=> i = N
            BY <2>2, <2>n, <2>4, <3>2, <5>2
          <6>3. ASSUME i # N PROVE l[i + 1] = r[q + 1]
            <7>1. /\ i + 1 \in 1 .. N /\ i + 1 # 1
                  /\ q + 1 = IF i + 1 <= p THEN i ELSE i + 1
              BY <2>n, <2>4, <3>2, <5>2, <6>3
            <7> QED
              BY <2>6, <7>1
          <6> HIDE DEF q
          <6> QED
            BY <6>1, <6>2, <6>3
        <5> QED
          BY <5>1, <5>2
      <4>6. e.hash[l[i]].prev = (IF i = 1 THEN Null ELSE l[i - 1])
        <5>1. CASE q = 1
          <6>1. i = 2
            BY <2>2, <2>n, <2>4, <2>5, <3>2, <5>1
          <6> QED
            BY <2>6, <3>2, <4>4, <5>1, <6>1
        <5>2. CASE q = p + 1
          <6>1. i = p + 1 /\ q # 1 /\ p # N
            BY <2>2, <2>n, <2>4, <3>2, <5>2
          <6>2. l[p] = r[p - 1]
            BY <2>4, <2>5, <2>6
          <6> QED
            BY <2>2, <2>n, <2>4, <2>12, <3>2, <4>4, <5>2, <6>1, <6>2
        <5>3. CASE q # 1 /\ q # p + 1
          <6>1. e.hash[l[i]].prev = r[q - 1]
            BY <2>m, <4>1, <4>4, <5>3
          <6>2. /\ i - 1 \in 1 .. N /\ i - 1 # 1
                /\ q - 1 = IF i - 1 <= p THEN i - 2 ELSE i - 1
            BY <2>2, <2>n, <2>4, <2>5, <3>2, <5>3
          <6>3. l[i - 1] = r[q - 1]
            BY <2>6, <6>2
          <6> QED
            BY <3>2, <6>1, <6>3
        <5> QED
          BY <5>1, <5>2, <5>3
      <4> QED
        BY <4>5, <4>6
    <3> QED
      BY <3>1, <3>2
  <2>14. Linked(e)
    <3>1. l = e.recency
      BY DEF l
    <3> HIDE DEF at, node
    <3> QED
      <4>1. InOrder(e, l, N)
        BY <2>5, <2>8, <2>9, <2>10, <2>11, <2>13 DEF InOrder
      <4> QED
        BY <2>6, <3>1, <4>1, LinkedFrom
  <2>15. Running(c) => Running(e)
    <3>1. node.prev # Null /\ c.begin # Null
      BY <2>2, <2>n, <2>3, <2>5, <2>12
    <3> HIDE DEF node
    <3> QED
      BY <2>1, <3>1 DEF Running, Faulted
  <2> QED
    BY <2>14, <2>15 DEF e
<1> QED
  BY <1>0, <1>1

LEMMA LinkedPut ==
  ASSUME NEW c \in CacheSet, Linked(c), NEW k \in Names \ Keys(c), NEW d \in Handles
  PROVE  Linked(put(c, k, d))
<1> DEFINE e == put(c, k, d)
           r == c.recency
           N == Len(r)
           l == e.recency
<1>1. /\ e \in CacheSet /\ Keys(e) = Keys(c) \cup {k}
      /\ e.hash[k].next = c.begin /\ e.hash[k].prev = Null
      /\ \A i \in Keys(c) :
           /\ e.hash[i].next = c.hash[i].next
           /\ e.hash[i].prev = IF i = c.begin THEN k ELSE c.hash[i].prev
      /\ e.begin = k /\ l = <<k>> \o r
  <2>1. PutInto(c, k, d, e)
    BY PutParts
  <2> HIDE DEF e
  <2> QED
    BY <2>1 DEF PutInto
<1>2. /\ N \in Nat /\ DOMAIN r = 1 .. N /\ r \in Seq(Names)
      /\ \A i \in 1 .. N : r[i] \in Keys(c)
      /\ \A j \in Keys(c) : \E i \in 1 .. N : r[i] = j
      /\ \A i, j \in 1 .. N : r[i] = r[j] => i = j
      /\ c.begin = (IF N = 0 THEN Null ELSE r[1])
      /\ \A i \in 1 .. N :
           /\ c.hash[r[i]].next = (IF i = N THEN Null ELSE r[i + 1])
           /\ c.hash[r[i]].prev = (IF i = 1 THEN Null ELSE r[i - 1])
  <2>1. N \in Nat /\ DOMAIN r = 1 .. N /\ r \in Seq(Names) /\ InOrder(c, r, N)
    BY LinkedParts
  <2> HIDE DEF r, N
  <2> QED
    BY <2>1 DEF InOrder
<1> HIDE DEF e, r, N, l
<1>3. /\ l \in Seq(Names) /\ Len(l) = N + 1
      /\ \A i \in 1 .. N + 1 : l[i] = IF i = 1 THEN k ELSE r[i - 1]
  <2>1. N = Len(r) /\ k \in Names
    BY DEF N
  <2>2. /\ <<k>> \o r \in Seq(Names) /\ Len(<<k>> \o r) = Len(r) + 1
        /\ \A i \in 1 .. Len(r) + 1 : (<<k>> \o r)[i] = IF i = 1 THEN k ELSE r[i - 1]
    <3>1. r \in Seq(Names)
      BY <1>2
    <3> QED
      BY <2>1, <3>1, Prepended, Zenon
  <2> QED
    BY <1>1, <2>1, <2>2
<1>4. \A i \in 1 .. N + 1 : i # 1 => i - 1 \in 1 .. N /\ l[i] = r[i - 1]
  BY <1>2, <1>3
<1>5. ASSUME NEW i \in 1 .. N + 1 PROVE l[i] \in Keys(e)
  BY <1>1, <1>2, <1>3, <1>4
<1>6. ASSUME NEW j \in Keys(e) PROVE \E i \in 1 .. N + 1 : l[i] = j
  <2>1. CASE j = k
    BY <1>2, <1>3, <2>1
  <2>2. CASE j # k
    <3>1. PICK i \in 1 .. N : r[i] = j
      BY <1>1, <1>2, <2>2
    <3>2. i + 1 \in 1 .. N + 1 /\ i + 1 # 1
      BY <1>2
    <3> QED
      BY <1>3, <3>1, <3>2
  <2> QED
    BY <2>1, <2>2
<1>7. ASSUME NEW i \in 1 .. N + 1, NEW j \in 1 .. N + 1, l[i] = l[j] PROVE i = j
  <2>1. CASE i = 1 \/ j = 1
    BY <1>2, <1>3, <1>4, <1>7, <2>1
  <2>2. CASE i # 1 /\ j # 1
    <3>1. i - 1 = j - 1
      BY <1>2, <1>4, <1>7, <2>2
    <3> QED
      BY <1>2, <3>1
  <2> QED
    BY <2>1, <2>2
<1>8. e.begin = l[1]
  BY <1>1, <1>2, <1>3
<1>9. ASSUME NEW i \in 1 .. N + 1
      PROVE  /\ e.hash[l[i]].next = (IF i = N + 1 THEN Null ELSE l[i + 1])
             /\ e.hash[l[i]].prev = (IF i = 1 THEN Null ELSE l[i - 1])
  <2>1. CASE i = 1
    <3>1. N # 0 => l[2] = r[1]
      BY <1>2, <1>3
    <3>2. l[i] = k
      BY <1>3, <2>1
    <3> QED
      BY <1>1, <1>2, <2>1, <3>1, <3>2
  <2>2. CASE i # 1
    <3>1. i - 1 \in 1 .. N /\ l[i] = r[i - 1] /\ r[i - 1] \in Keys(c) /\ N # 0
      BY <1>2, <1>4, <2>2
    <3>2. c.hash[l[i]].next = (IF i - 1 = N THEN Null ELSE r[i])
          /\ c.hash[l[i]].prev = (IF i - 1 = 1 THEN Null ELSE r[i - 2])
      BY <1>2, <3>1
    <3>3. (i # N + 1 => l[i + 1] = r[i]) /\ (i # 2 => l[i - 1] = r[i - 2]) /\ l[1] = k
      BY <1>2, <1>3, <2>2
    <3>4. l[i] = c.begin <=> i = 2
      <4>1. r[i - 1] = r[1] <=> i - 1 = 1
        BY <1>2, <3>1
      <4> QED
        BY <1>2, <3>1, <4>1
    <3> QED
      <4>1. /\ e.hash[l[i]].next = c.hash[l[i]].next
            /\ e.hash[l[i]].prev = IF i = 2 THEN k ELSE c.hash[l[i]].prev
        BY <1>1, <3>1, <3>4
      <4>2. (i - 1 = N <=> i = N + 1) /\ (i - 1 = 1 <=> i = 2)
        BY <1>2
      <4> QED
        BY <2>2, <3>2, <3>3, <4>1, <4>2
  <2> QED
    BY <2>1, <2>2
<1>10. l = e.recency /\ N + 1 \in Nat /\ N + 1 # 0
  BY <1>2 DEF l
<1> QED
  <2>1. Linked(e)
    <3>1. InOrder(e, l, N + 1)
      BY <1>5, <1>6, <1>7, <1>8, <1>9, <1>10 DEF InOrder
    <3> QED
      BY <1>3, <1>10, <3>1, LinkedFrom
  <2> QED
    BY <2>1 DEF e

------------------------------------------------------------------------------
(* The loops                                                                 *)

(* What evictions make of a cache: nothing is added, and a list that was in  *)
(* order with a true end stays so; a list that was merely in order does as   *)
(* long as nothing goes.                                                     *)
Shrinks(c, e) ==
  /\ e.max = c.max /\ Keys(e) \subseteq Keys(c)
  /\ \A k \in Keys(e) : e.hash[k].data = c.hash[k].data
  /\ Linked(c) /\ Keys(c) \subseteq Keys(e) => Linked(e)
  /\ Straight(c) => Straight(e)

(* The keys that are left are the ones used last. *)
KeepsLast(c, e) ==
  Straight(c) => /\ Len(e.recency) <= Len(c.recency)
                 /\ \A i \in 1 .. Len(e.recency) : e.recency[i] = c.recency[i]

LEMMA ShrinksTwice ==
  ASSUME NEW a, NEW b, NEW c, Shrinks(a, b), Shrinks(b, c)
  PROVE  Shrinks(a, c)
<1>1. c.max = a.max /\ Keys(c) \subseteq Keys(a)
  BY DEF Shrinks
<1>2. \A k \in Keys(c) : c.hash[k].data = a.hash[k].data
  BY DEF Shrinks
<1>3. Linked(a) /\ Keys(a) \subseteq Keys(c) => Linked(c)
  BY DEF Shrinks
<1>4. Straight(a) => Straight(c)
  BY DEF Shrinks
<1> QED
  BY <1>1, <1>2, <1>3, <1>4 DEF Shrinks

LEMMA RecencyLength ==
  ASSUME NEW c \in CacheSet
  PROVE  Len(c.recency) \in Nat /\ DOMAIN c.recency = 1 .. Len(c.recency)
<1>1. c.recency \in Seq(Names)
  BY CacheParts
<1> QED
  BY <1>1

LEMMA KeepsLastTwice ==
  ASSUME NEW a \in CacheSet, NEW b \in CacheSet, NEW c \in CacheSet,
         Shrinks(a, b), KeepsLast(a, b), KeepsLast(b, c)
  PROVE  KeepsLast(a, c)
<1> SUFFICES ASSUME Straight(a)
             PROVE  /\ Len(c.recency) <= Len(a.recency)
                    /\ \A i \in 1 .. Len(c.recency) : c.recency[i] = a.recency[i]
  BY DEF KeepsLast
<1>1. /\ Len(b.recency) <= Len(a.recency)
      /\ \A i \in 1 .. Len(b.recency) : b.recency[i] = a.recency[i]
      /\ Len(c.recency) <= Len(b.recency)
      /\ \A i \in 1 .. Len(c.recency) : c.recency[i] = b.recency[i]
  BY DEF Shrinks, KeepsLast
<1>2. Len(a.recency) \in Nat /\ Len(b.recency) \in Nat /\ Len(c.recency) \in Nat
  BY RecencyLength
<1>3. Len(c.recency) <= Len(a.recency)
  BY <1>1, <1>2
<1>4. \A i \in 1 .. Len(c.recency) : i \in 1 .. Len(b.recency)
  BY <1>1, <1>2
<1> QED
  BY <1>1, <1>3, <1>4

LEMMA EvictShrinks ==
  ASSUME NEW c \in CacheSet, NEW k
  PROVE  /\ evict(c, k) \in CacheSet /\ Shrinks(c, evict(c, k))
         /\ k = c.end => KeepsLast(c, evict(c, k))
<1> DEFINE e == evict(c, k)
<1>0. CASE k \notin Keys(c)
  <2>1. e = c
    BY <1>0 DEF evict
  <2>2. Shrinks(c, c) /\ KeepsLast(c, c)
    BY RecencyLength DEF Shrinks, KeepsLast
  <2> QED
    BY <2>1, <2>2
<1>1. CASE k \in Keys(c)
  <2>1. /\ e \in CacheSet /\ Keys(e) = Keys(c) \ {k} /\ e.max = c.max
        /\ \A i \in Keys(e) : e.hash[i].data = c.hash[i].data
    <3>1. EvictedFrom(c, k, e)
      BY <1>1, EvictParts
    <3> HIDE DEF e
    <3> QED
      BY <3>1 DEF EvictedFrom
  <2>2. Straight(c) => /\ Straight(e)
                       /\ Len(e.recency) = Len(c.recency) - 1
                       /\ k = c.end => \A i \in DOMAIN e.recency : e.recency[i] = c.recency[i]
    BY <1>1, LinkedEvict
  <2> HIDE DEF e
  <2>3. Shrinks(c, e)
    BY <1>1, <2>1, <2>2 DEF Shrinks
  <2>4. Len(c.recency) \in Nat /\ DOMAIN e.recency = 1 .. Len(e.recency)
    BY <2>1, RecencyLength
  <2>5. k = c.end => KeepsLast(c, e)
    BY <2>2, <2>4 DEF KeepsLast
  <2> QED
    BY <2>1, <2>3, <2>5 DEF e
<1> QED
  BY <1>0, <1>1

(* A fault of its own leaves the list as it is. *)
LEMMA FaultOnly ==
  ASSUME NEW c \in CacheSet, NEW x \in {"none", "null", "endless"}
  PROVE  LET e == [c EXCEPT !.fault = x] IN
         /\ e \in CacheSet /\ e.max = c.max /\ Keys(e) = Keys(c) /\ e.hash = c.hash
         /\ e.recency = c.recency /\ (Linked(c) => Linked(e))
<1> DEFINE e == [c EXCEPT !.fault = x]
<1>1. /\ e \in CacheSet /\ e.hash = c.hash /\ e.begin = c.begin /\ e.max = c.max
      /\ e.recency = c.recency
  BY DEF CacheSet
<1> HIDE DEF e
<1>2. Keys(e) = Keys(c)
  BY <1>1 DEF Keys
<1>3. Linked(c) => Linked(e)
  BY <1>1, <1>2 DEF Linked
<1> QED
  BY <1>1, <1>2, <1>3 DEF e

LEMMA EvictLastShrinks ==
  ASSUME NEW c \in CacheSet
  PROVE  /\ EvictLast(c) \in CacheSet /\ Shrinks(c, EvictLast(c))
         /\ KeepsLast(c, EvictLast(c))
<1>1. CASE c.max = 0 \/ Cardinality(Keys(c)) <= c.max \/ ~ Running(c)
  <2>1. EvictLast(c) = c
    BY <1>1 DEF EvictLast
  <2>2. Shrinks(c, c) /\ KeepsLast(c, c)
    BY RecencyLength DEF Shrinks, KeepsLast
  <2> QED
    BY <2>1, <2>2
<1>2. CASE /\ ~ (c.max = 0 \/ Cardinality(Keys(c)) <= c.max \/ ~ Running(c))
           /\ c.end \notin Keys(c)
  <2> DEFINE x == IF c.end = Null THEN "null" ELSE "endless"
             e == [c EXCEPT !.fault = x]
  <2>1. EvictLast(c) = e
    BY <1>2 DEF EvictLast
  <2>2. /\ e \in CacheSet /\ e.max = c.max /\ Keys(e) = Keys(c) /\ e.hash = c.hash
        /\ Linked(c) => Linked(e)
    <3>1. x \in {"none", "null", "endless"}
      OBVIOUS
    <3> HIDE DEF x
    <3> QED
      BY <3>1, FaultOnly
  <2>3. ~ Straight(c)
    <3> SUFFICES ASSUME Straight(c) PROVE FALSE
      OBVIOUS
    <3>1. Keys(c) # {}
      <4>1. Cardinality({}) = 0
        BY FS_EmptySet
      <4>2. c.max \in Nat
        BY CacheParts
      <4> QED
        BY <1>2, <4>1, <4>2
    <3>2. c.recency # <<>>
      <4>1. \A k \in Keys(c) : \E i \in DOMAIN c.recency : c.recency[i] = k
        BY DEF Straight, Linked
      <4>2. PICK i \in DOMAIN c.recency : TRUE
        BY <3>1, <4>1
      <4> QED
        BY <4>2
    <3>3. c.recency \in Seq(Keys(c))
      BY DEF Straight, Linked
    <3>4. c.recency[Len(c.recency)] \in Keys(c)
      BY <3>2, <3>3
    <3>5. c.end = c.recency[Len(c.recency)]
      BY <3>2 DEF Straight, EndIsLast
    <3> QED
      BY <1>2, <3>4, <3>5
  <2> HIDE DEF e
  <2> QED
    BY <2>1, <2>2, <2>3 DEF Shrinks, KeepsLast
<1>3. CASE /\ ~ (c.max = 0 \/ Cardinality(Keys(c)) <= c.max \/ ~ Running(c))
           /\ c.end \in Keys(c)
  <2>1. EvictLast(c) = evict(c, c.end)
    BY <1>3 DEF EvictLast
  <2> QED
    BY <2>1, EvictShrinks
<1> QED
  BY <1>1, <1>2, <1>3

LEMMA MaxShrinks ==
  ASSUME NEW c \in CacheSet, IsFiniteSet(Keys(c))
  PROVE  LET e == evict_to_max(c) IN
         e \in CacheSet /\ Shrinks(c, e) /\ KeepsLast(c, e)
<1> DEFINE N == Cardinality(Keys(c))
           G == [n \in 1 .. N |-> [x \in CacheSet |-> EvictLast(x)]]
           Is(f) == f = [n \in 0 .. N |-> IF n = 0 THEN c ELSE EvictLast(f[n - 1])]
           h == CHOOSE f : Is(f)
           Reached == {x \in CacheSet : Shrinks(c, x) /\ KeepsLast(c, x)}
           Q == [n \in 0 .. N |-> Reached]
<1>0. N \in Nat
  BY FS_CardinalityType
<1>1. Loops(CacheSet, N, c, G) # {}
  <2>1. \A n \in 1 .. N : \A x \in CacheSet : G[n][x] \in CacheSet
    BY EvictLastShrinks
  <2> HIDE DEF G, N, Is, h, Q
  <2> QED
    BY <1>0, <2>1, LoopRuns
<1>2. \E f : Is(f)
  <2>1. PICK f \in [0 .. N -> CacheSet] : f[0] = c /\ \A n \in 1 .. N : f[n] = G[n][f[n - 1]]
    <3> HIDE DEF G, N, Is
    <3> QED
      BY <1>1 DEF Loops
  <2>2. ASSUME NEW n \in 0 .. N PROVE f[n] = (IF n = 0 THEN c ELSE EvictLast(f[n - 1]))
    <3>1. CASE n # 0
      <4>1. n \in 1 .. N /\ n - 1 \in 0 .. N
        BY <3>1, <1>0
      <4> QED
        BY <4>1, <2>1, <3>1
    <3> QED
      BY <2>1, <3>1
  <2> HIDE DEF N
  <2>3. f = [n \in 0 .. N |-> IF n = 0 THEN c ELSE EvictLast(f[n - 1])]
    BY <2>2
  <2> QED
    BY <2>3
<1>3. Is(h)
  <2> HIDE DEF Is
  <2> QED
    BY <1>2
<1>4. evict_to_max(c) = h[N]
  BY DEF evict_to_max
<1>5. h[0] = c /\ \A n \in 1 .. N : h[n] = EvictLast(h[n - 1])
  <2> HIDE DEF h, N
  <2> QED
    BY <1>0, <1>3
<1>6. h[0] \in Reached
  <2>1. Shrinks(c, c) /\ KeepsLast(c, c)
    BY RecencyLength DEF Shrinks, KeepsLast
  <2> HIDE DEF h
  <2> QED
    BY <1>5, <2>1
<1>7. ASSUME NEW x \in Reached PROVE EvictLast(x) \in Reached
  BY <1>7, EvictLastShrinks, ShrinksTwice, KeepsLastTwice
<1>8. \A n \in 0 .. N : h[n] \in Q[n]
  <2>1. h[0] \in Q[0]
    BY <1>0, <1>6
  <2>2. \A n \in 1 .. N : h[n - 1] \in Q[n - 1] => h[n] \in Q[n]
    <3> HIDE DEF h, N, Reached
    <3> QED
      BY <1>0, <1>5, <1>7
  <2> HIDE DEF h, N, Q
  <2> QED
    BY <1>0, <2>1, <2>2, Rounds
<1>9. h[N] \in Reached
  <2> HIDE DEF h, N, Reached
  <2> QED
    BY <1>0, <1>8
<1> QED
  BY <1>4, <1>9

LEMMA EmptyShrinks ==
  ASSUME NEW c \in CacheSet, NEW ks, Len(ks) \in Nat
  PROVE  Emptied(c, ks) \in CacheSet /\ Shrinks(c, Emptied(c, ks))
<1> DEFINE N == Len(ks)
           Next(x, n) == IF Running(x) THEN evict(x, ks[n]) ELSE x
           G == [n \in 1 .. N |-> [x \in CacheSet |-> Next(x, n)]]
           Is(f) == f = [n \in 0 .. N |-> IF n = 0 THEN c
                                          ELSE IF Running(f[n - 1]) THEN evict(f[n - 1], ks[n])
                                          ELSE f[n - 1]]
           h == CHOOSE f : Is(f)
           Reached == {x \in CacheSet : Shrinks(c, x)}
           Q == [n \in 0 .. N |-> Reached]
<1>0. N \in Nat
  OBVIOUS
<1>1. Loops(CacheSet, N, c, G) # {}
  <2>1. \A n \in 1 .. N : \A x \in CacheSet : G[n][x] \in CacheSet
    BY EvictShrinks
  <2> HIDE DEF G, N, Is, h, Q
  <2> QED
    BY <1>0, <2>1, LoopRuns
<1>2. \E f : Is(f)
  <2>1. PICK f \in [0 .. N -> CacheSet] : f[0] = c /\ \A n \in 1 .. N : f[n] = G[n][f[n - 1]]
    <3> HIDE DEF G, N, Is
    <3> QED
      BY <1>1 DEF Loops
  <2>2. ASSUME NEW n \in 0 .. N PROVE f[n] = (IF n = 0 THEN c ELSE Next(f[n - 1], n))
    <3>1. CASE n # 0
      <4>1. n \in 1 .. N /\ n - 1 \in 0 .. N
        BY <3>1, <1>0
      <4> QED
        BY <4>1, <2>1, <3>1
    <3> QED
      BY <2>1, <3>1
  <2> HIDE DEF N
  <2>3. f = [n \in 0 .. N |-> IF n = 0 THEN c ELSE Next(f[n - 1], n)]
    BY <2>2
  <2> QED
    BY <2>3
<1>3. Is(h)
  <2> HIDE DEF Is
  <2> QED
    BY <1>2
<1>4. Emptied(c, ks) = h[N]
  BY DEF Emptied
<1>5. h[0] = c /\ \A n \in 1 .. N : h[n] = Next(h[n - 1], n)
  <2> HIDE DEF h, N
  <2> QED
    BY <1>0, <1>3
<1>6. h[0] \in Reached
  <2>1. Shrinks(c, c)
    BY DEF Shrinks
  <2> HIDE DEF h
  <2> QED
    BY <1>5, <2>1
<1>7. ASSUME NEW x \in Reached, NEW n PROVE Next(x, n) \in Reached
  BY <1>7, EvictShrinks, ShrinksTwice
<1>8. \A n \in 0 .. N : h[n] \in Q[n]
  <2>1. h[0] \in Q[0]
    BY <1>0, <1>6
  <2>2. \A n \in 1 .. N : h[n - 1] \in Q[n - 1] => h[n] \in Q[n]
    <3> HIDE DEF h, N, Reached, Next
    <3> QED
      BY <1>0, <1>5, <1>7
  <2> HIDE DEF h, N, Q
  <2> QED
    BY <1>0, <2>1, <2>2, Rounds
<1>9. h[N] \in Reached
  <2> HIDE DEF h, N, Reached
  <2> QED
    BY <1>0, <1>8
<1> QED
  BY <1>4, <1>9

------------------------------------------------------------------------------
(* The steps                                                                 *)

(* What the cache knows of a key is a handle.  The handles belong to the     *)
(* cache, by the table d, or to a caller, and a key finds what was compiled  *)
(* from it.                                                                  *)
Data(c) == [k \in Keys(c) |-> c.hash[k].data]

Owned(d, hp, hd) ==
  LET cached == {d[k] : k \in DOMAIN d} IN
  /\ DOMAIN hp = cached \cup hd /\ cached \cap hd = {}
  /\ \A j, k \in DOMAIN d : d[j] = d[k] => j = k
  /\ \A k \in DOMAIN d : hp[d[k]].re = k

LEMMA SoundOwned == HandlesSound <=> (Running(cache) => Owned(Data(cache), heap, held))
<1> DEFINE d == Data(cache)
<1>1. DOMAIN d = Keys(cache) /\ \A k \in Keys(cache) : d[k] = cache.hash[k].data
  BY DEF Data
<1>2. {cache.hash[k].data : k \in Keys(cache)} = {d[k] : k \in DOMAIN d}
  BY <1>1
<1> HIDE DEF d
<1>3. Owned(d, heap, held) <=>
        LET cached == {d[k] : k \in DOMAIN d} IN
        /\ DOMAIN heap = cached \cup held /\ cached \cap held = {}
        /\ \A j, k \in Keys(cache) : cache.hash[j].data = cache.hash[k].data => j = k
        /\ \A k \in Keys(cache) : heap[cache.hash[k].data].re = k
  BY <1>1 DEF Owned
<1> QED
  BY <1>2, <1>3 DEF HandlesSound, d

CacheTyped ==
  test \in Tests /\ cache \in CacheSet /\ IsFiniteSet(Keys(cache))

CInv == CacheTyped /\ HandlesSound

CNext == CacheNext \/ CacheElse

(* Every step changes the cache in one of five ways. *)
Touched ==
  \/ cache' = cache
  \/ \E k \in Keys(cache) : cache' = m_update(cache, k)
  \/ \E k \in Names \ Keys(cache), h \in Handles : cache' = put(cache, k, h)
  \/ \E n \in Nat : cache' = evict_to_max([cache EXCEPT !.max = n])
  \/ \E ks : Len(ks) \in Nat /\ cache' = Emptied(cache, ks)

LEMMA TextNames ==
  ASSUME CacheTyped
  PROVE  /\ \A q \in test.queries : q.re \in Names
         /\ \A re \in test.patterns : Glob(re).re \in Names
BY DEF CacheTyped, Names, Texts, Glob

LEMMA OrdersLength ==
  ASSUME NEW S, IsFiniteSet(S), NEW ks \in Orders(S)
  PROVE  Len(ks) \in Nat
<1>1. Cardinality(S) \in Nat
  BY FS_CardinalityType
<1>2. ks \in Seq(S)
  BY <1>1 DEF Orders
<1> QED
  BY <1>2

LEMMA FetchTouches ==
  ASSUME CacheTyped, NEW q, q.re \in Names, Fetch(q)
  PROVE  Touched
<1>1. CASE uvm_re_compexecfree(q)
  BY <1>1 DEF uvm_re_compexecfree, Touched
<1>2. CASE uvm_re_match_hit(q)
  BY <1>2 DEF uvm_re_match_hit, Touched
<1>3. CASE uvm_re_compexec(q)
  <2>1. cache' = cache \/ \E h \in Fresh : cache' = put(cache, q.re, h)
    BY <1>3 DEF uvm_re_compexec
  <2>2. q.re \in Names \ Keys(cache)
    BY <1>3 DEF uvm_re_compexec
  <2> QED
    BY <2>1, <2>2 DEF Touched, Fresh
<1> QED
  BY <1>1, <1>2, <1>3 DEF Fetch

LEMMA StepTouches ==
  ASSUME CacheTyped, CNext
  PROVE  Touched /\ Running(cache) /\ test' = test
<1>1. Running(cache)
  BY DEF CNext, CacheNext, CacheElse
<1> SUFFICES Touched /\ test' = test
  BY <1>1
<1>2. CASE \E q \in test.queries : uvm_re_comp(q)
  BY <1>2 DEF uvm_re_comp, Touched
<1>3. CASE \E q \in test.queries : \E str \in Strings : uvm_re_match(q, str)
  <2>1. PICK q \in test.queries : \E str \in Strings : uvm_re_match(q, str)
    BY <1>3
  <2>2. Fetch(q) /\ test' = test
    BY <2>1 DEF uvm_re_match
  <2>3. q.re \in Names
    BY TextNames
  <2> QED
    BY <2>2, <2>3, FetchTouches
<1>4. CASE \E h \in held : uvm_re_free(h) \/ \E str \in Strings : uvm_re_exec(h, str)
  BY <1>4 DEF uvm_re_free, uvm_re_exec, Touched
<1>5. CASE \E n \in Sizes : set_max_size(n)
  <2>1. PICK n \in Sizes : cache' = evict_to_max([cache EXCEPT !.max = n]) /\ test' = test
    BY <1>5 DEF set_max_size, Shrunk
  <2>2. n \in Nat
    BY CacheAssumption
  <2> QED
    BY <2>1, <2>2 DEF Touched
<1>6. CASE flush
  <2>1. PICK ks \in Orders(Keys(cache)) : cache' = Emptied(cache, ks) /\ test' = test
    BY <1>6 DEF flush, Shrunk
  <2>2. Len(ks) \in Nat
    BY OrdersLength DEF CacheTyped
  <2> QED
    BY <2>1, <2>2 DEF Touched
<1>7. CASE Aside
  BY <1>7 DEF Aside, Touched
<1>8. CASE \E re \in test.patterns : Search(Glob(re))
  <2>1. PICK re \in test.patterns : Search(Glob(re))
    BY <1>8
  <2>2. Fetch(Glob(re)) /\ test' = test
    BY <2>1 DEF Search
  <2>3. Glob(re).re \in Names
    BY TextNames
  <2> QED
    BY <2>2, <2>3, FetchTouches
<1> QED
  BY <1>2, <1>3, <1>4, <1>5, <1>6, <1>7, <1>8 DEF CNext, CacheNext, CacheElse

(* The size that is set changes nothing else. *)
LEMMA Resized ==
  ASSUME NEW c \in CacheSet, NEW n \in Nat
  PROVE  LET e == [c EXCEPT !.max = n] IN
         /\ e \in CacheSet /\ Keys(e) = Keys(c) /\ e.hash = c.hash /\ e.max = n
         /\ e.recency = c.recency /\ e.fault = c.fault
         /\ (Linked(c) => Linked(e)) /\ (EndIsLast(c) => EndIsLast(e))
<1> DEFINE e == [c EXCEPT !.max = n]
<1>1. /\ e \in CacheSet /\ e.hash = c.hash /\ e.begin = c.begin /\ e.end = c.end
      /\ e.recency = c.recency /\ e.fault = c.fault /\ e.max = n
  BY DEF CacheSet
<1> HIDE DEF e
<1>2. Keys(e) = Keys(c)
  BY <1>1 DEF Keys
<1>3. (Linked(c) => Linked(e)) /\ (EndIsLast(c) => EndIsLast(e))
  BY <1>1, <1>2 DEF Linked, EndIsLast
<1> QED
  BY <1>1, <1>2, <1>3 DEF e

LEMMA TypedKept ==
  ASSUME CacheTyped, CNext
  PROVE  CacheTyped'
<1> DEFINE c == cache
           e == cache'
<1>0. c \in CacheSet /\ IsFiniteSet(Keys(c)) /\ Touched /\ test' = test /\ test \in Tests
  BY StepTouches DEF CacheTyped
<1>1. e \in CacheSet /\ (Keys(e) \subseteq Keys(c) \/ \E k : Keys(e) = Keys(c) \cup {k})
  <2>1. CASE cache' = cache
    BY <1>0, <2>1
  <2>2. CASE \E k \in Keys(cache) : cache' = m_update(cache, k)
    <3>1. PICK k \in Keys(c) : e = m_update(c, k)
      BY <2>2
    <3>2. CASE c.begin = k
      BY <1>0, <3>1, <3>2 DEF m_update
    <3>3. CASE c.begin # k
      <4>1. m_update(c, k) \in CacheSet /\ Keys(m_update(c, k)) = Keys(c)
        BY <1>0, <3>3, UpdateParts
      <4> QED
        BY <3>1, <4>1
    <3> QED
      BY <3>2, <3>3
  <2>3. CASE \E k \in Names \ Keys(cache), h \in Handles : cache' = put(cache, k, h)
    <3>1. PICK k \in Names \ Keys(c), h \in Handles : e = put(c, k, h)
      BY <2>3
    <3>2. PutInto(c, k, h, e)
      BY <1>0, <3>1, PutParts
    <3> HIDE DEF e
    <3> QED
      BY <3>2 DEF PutInto
  <2>4. CASE \E n \in Nat : cache' = evict_to_max([cache EXCEPT !.max = n])
    <3>1. PICK n \in Nat : e = evict_to_max([c EXCEPT !.max = n])
      BY <2>4
    <3> DEFINE b == [c EXCEPT !.max = n]
    <3>2. b \in CacheSet /\ Keys(b) = Keys(c)
      BY <1>0, Resized
    <3> HIDE DEF b
    <3>3. evict_to_max(b) \in CacheSet /\ Shrinks(b, evict_to_max(b))
      BY <1>0, <3>2, MaxShrinks
    <3> QED
      BY <3>1, <3>2, <3>3 DEF Shrinks, b
  <2>5. CASE \E ks : Len(ks) \in Nat /\ cache' = Emptied(cache, ks)
    <3>1. PICK ks : Len(ks) \in Nat /\ e = Emptied(c, ks)
      BY <2>5
    <3>2. Emptied(c, ks) \in CacheSet /\ Shrinks(c, Emptied(c, ks))
      BY <1>0, <3>1, EmptyShrinks
    <3> QED
      BY <3>1, <3>2 DEF Shrinks
  <2> QED
    BY <1>0, <2>1, <2>2, <2>3, <2>4, <2>5 DEF Touched
<1>2. IsFiniteSet(Keys(e))
  BY <1>0, <1>1, FS_Subset, FS_AddElement
<1> QED
  BY <1>0, <1>1, <1>2 DEF CacheTyped, Keys

LEMMA CacheInitTyped == CacheInit => CInv
<1> SUFFICES ASSUME CacheInit PROVE CInv
  OBVIOUS
<1>1. cache = [hash |-> <<>>, begin |-> Null, end |-> Null, max |-> 256,
               recency |-> <<>>, fault |-> "none"]
      /\ test \in Tests /\ heap = <<>> /\ held = {}
  BY DEF CacheInit
<1>2. DOMAIN <<>> = {} /\ <<>> \in [{} -> Node]
  OBVIOUS
<1>3. <<>> \in UNION {[K -> Node] : K \in SUBSET Names}
  BY <1>2, HashSet
<1>4. cache \in CacheSet
  <2>1. <<>> \in Seq(Names) /\ Null \in Links /\ 256 \in Nat
    BY DEF Links
  <2> HIDE DEF Null
  <2> QED
    BY <1>1, <1>3, <2>1 DEF CacheSet
<1>5. Keys(cache) = {}
  BY <1>1, <1>2 DEF Keys
<1>6. IsFiniteSet(Keys(cache))
  BY <1>5, FS_EmptySet
<1>7. HandlesSound
  BY <1>1, <1>2, <1>5 DEF HandlesSound
<1> QED
  BY <1>1, <1>4, <1>6, <1>7 DEF CInv, CacheTyped

------------------------------------------------------------------------------
(* Ownership                                                                 *)

LEMMA OwnedGive ==
  ASSUME NEW d, NEW hp, NEW hd, Owned(d, hp, hd), NEW h, h \notin DOMAIN hp,
         NEW hp2, DOMAIN hp2 = DOMAIN hp \cup {h}, \A i \in DOMAIN hp : hp2[i] = hp[i]
  PROVE  Owned(d, hp2, hd \cup {h})
BY DEF Owned

LEMMA OwnedDrop ==
  ASSUME NEW d, NEW hp, NEW hd, Owned(d, hp, hd), NEW h \in hd,
         NEW hp2, hp2 = [i \in DOMAIN hp \ {h} |-> hp[i]]
  PROVE  Owned(d, hp2, hd \ {h})
BY DEF Owned

LEMMA OwnedPut ==
  ASSUME NEW d, NEW hp, NEW hd, Owned(d, hp, hd), NEW q, NEW h, h \notin DOMAIN hp,
         q.re \notin DOMAIN d,
         NEW hp2, DOMAIN hp2 = DOMAIN hp \cup {h}, hp2[h] = q,
         \A i \in DOMAIN hp : hp2[i] = hp[i],
         NEW d2, DOMAIN d2 = DOMAIN d \cup {q.re}, d2[q.re] = h,
         \A k \in DOMAIN d : d2[k] = d[k]
  PROVE  Owned(d2, hp2, hd)
<1> DEFINE cached == {d[k] : k \in DOMAIN d}
           cached2 == {d2[k] : k \in DOMAIN d2}
<1>2. cached2 = cached \cup {h}
  OBVIOUS
<1>3. /\ DOMAIN hp = cached \cup hd /\ cached \cap hd = {}
      /\ \A j, k \in DOMAIN d : d[j] = d[k] => j = k
      /\ \A k \in DOMAIN d : hp[d[k]].re = k /\ d[k] \in DOMAIN hp
  BY DEF Owned
<1>5. \A k \in DOMAIN d2 : hp2[d2[k]].re = k
  BY <1>3
<1>6. \A j, k \in DOMAIN d2 : d2[j] = d2[k] => j = k
  BY <1>3
<1> HIDE DEF cached, cached2
<1>7. DOMAIN hp2 = cached2 \cup hd /\ cached2 \cap hd = {}
  BY <1>2, <1>3
<1> QED
  BY <1>5, <1>6, <1>7 DEF Owned, cached2

LEMMA OwnedShrink ==
  ASSUME NEW d, NEW hp, NEW hd, Owned(d, hp, hd),
         NEW d2, DOMAIN d2 \subseteq DOMAIN d, \A k \in DOMAIN d2 : d2[k] = d[k],
         NEW hp2,
         hp2 = [i \in DOMAIN hp \ {d[k] : k \in DOMAIN d \ DOMAIN d2} |-> hp[i]]
  PROVE  Owned(d2, hp2, hd)
<1> DEFINE cached == {d[k] : k \in DOMAIN d}
           cached2 == {d2[k] : k \in DOMAIN d2}
           gone == {d[k] : k \in DOMAIN d \ DOMAIN d2}
<1>1. /\ DOMAIN hp = cached \cup hd /\ cached \cap hd = {}
      /\ \A j, k \in DOMAIN d : d[j] = d[k] => j = k
      /\ \A k \in DOMAIN d : hp[d[k]].re = k
  BY DEF Owned
<1>2. gone \cap cached2 = {} /\ cached = gone \cup cached2
  BY <1>1
<1>3. DOMAIN hp2 = DOMAIN hp \ gone /\ \A i \in DOMAIN hp2 : hp2[i] = hp[i]
  OBVIOUS
<1>4. \A k \in DOMAIN d2 : d2[k] \in cached2
  OBVIOUS
<1> HIDE DEF cached, cached2, gone
<1>5. DOMAIN hp2 = cached2 \cup hd /\ cached2 \cap hd = {}
  BY <1>1, <1>2, <1>3
<1>6. \A k \in DOMAIN d2 : hp2[d2[k]].re = k
  BY <1>1, <1>3, <1>4, <1>5
<1>7. \A j, k \in DOMAIN d2 : d2[j] = d2[k] => j = k
  BY <1>1
<1> QED
  BY <1>5, <1>6, <1>7 DEF Owned, cached2

LEMMA FetchOwned ==
  ASSUME CacheTyped, NEW q, q.re \in Names, Owned(Data(cache), heap, held), Fetch(q)
  PROVE  Owned(Data(cache'), heap', held)
<1>1. CASE uvm_re_compexecfree(q)
  BY <1>1 DEF uvm_re_compexecfree
<1>2. CASE uvm_re_match_hit(q)
  <2>1. /\ cache' = m_update(cache, q.re) /\ heap' = heap /\ q.re \in Keys(cache)
        /\ cache \in CacheSet
    BY <1>2 DEF uvm_re_match_hit, CacheTyped
  <2>2. Data(m_update(cache, q.re)) = Data(cache)
    <3>1. CASE cache.begin = q.re
      BY <3>1 DEF m_update
    <3>2. CASE cache.begin # q.re
      <4> DEFINE e == m_update(cache, q.re)
      <4>1. Keys(e) = Keys(cache) /\ \A i \in Keys(cache) : e.hash[i].data = cache.hash[i].data
        BY <2>1, <3>2, UpdateParts
      <4> HIDE DEF e
      <4>2. Data(e) = Data(cache)
        BY <4>1 DEF Data
      <4> QED
        BY <4>2 DEF e
    <3> QED
      BY <3>1, <3>2
  <2> QED
    BY <2>1, <2>2
<1>3. CASE uvm_re_compexec(q)
  <2>1. CASE cache' = cache /\ heap' = heap
    BY <2>1
  <2>2. CASE \E h \in Fresh : heap' = Allocated(h, q) /\ cache' = put(cache, q.re, h)
    <3>1. PICK h \in Fresh : heap' = Allocated(h, q) /\ cache' = put(cache, q.re, h)
      BY <2>2
    <3>2. h \in Handles /\ h \notin DOMAIN heap /\ q.re \in Names \ Keys(cache)
      BY <1>3 DEF Fresh, uvm_re_compexec
    <3> DEFINE e == cache'
               d == Data(cache)
               d2 == Data(e)
    <3>3. PutInto(cache, q.re, h, e)
      BY <3>1, <3>2, PutParts DEF CacheTyped
    <3> HIDE DEF e
    <3>4. DOMAIN d = Keys(cache) /\ \A k \in Keys(cache) : d[k] = cache.hash[k].data
      BY DEF Data
    <3>5. d2 = [k \in Keys(cache) \cup {q.re} |-> e.hash[k].data]
      BY <3>3 DEF PutInto, Data
    <3>6. /\ e.hash[q.re].data = h
          /\ \A k \in Keys(cache) : e.hash[k].data = cache.hash[k].data
      BY <3>3 DEF PutInto
    <3> HIDE DEF d, d2
    <3>7. /\ DOMAIN d2 = DOMAIN d \cup {q.re} /\ d2[q.re] = h
          /\ \A k \in DOMAIN d : d2[k] = d[k]
      BY <3>4, <3>5, <3>6
    <3>9. Owned(d, heap, held) /\ q.re \notin DOMAIN d
      BY <3>2, <3>4 DEF d
    <3> DEFINE hp2 == heap'
    <3>10. /\ DOMAIN hp2 = DOMAIN heap \cup {h} /\ hp2[h] = q
           /\ \A i \in DOMAIN heap : hp2[i] = heap[i]
      BY <3>1, <3>2 DEF Allocated
    <3> HIDE DEF hp2
    <3>11. Owned(d2, hp2, held)
      BY <3>2, <3>7, <3>9, <3>10, OwnedPut
    <3> QED
      BY <3>11 DEF d2, e, hp2
  <2> QED
    BY <1>3, <2>1, <2>2 DEF uvm_re_compexec
<1> QED
  BY <1>1, <1>2, <1>3 DEF Fetch

LEMMA ShrunkOwned ==
  ASSUME NEW e, Shrinks(cache, e) \/ (Keys(e) \subseteq Keys(cache)
                  /\ \A k \in Keys(e) : e.hash[k].data = cache.hash[k].data),
         Shrunk(e), Owned(Data(cache), heap, held)
  PROVE  Owned(Data(cache'), heap', held')
<1> DEFINE d == Data(cache)
           d2 == Data(e)
           hp2 == heap'
           gone == {cache.hash[k].data : k \in Keys(cache) \ Keys(e)}
<1>1. /\ Keys(e) \subseteq Keys(cache)
      /\ \A k \in Keys(e) : e.hash[k].data = cache.hash[k].data
  BY DEF Shrinks
<1>2. /\ DOMAIN d = Keys(cache) /\ \A k \in Keys(cache) : d[k] = cache.hash[k].data
      /\ DOMAIN d2 = Keys(e) /\ \A k \in Keys(e) : d2[k] = e.hash[k].data
  BY DEF Data
<1>3. cache' = e /\ held' = held /\ hp2 = [i \in DOMAIN heap \ gone |-> heap[i]]
  BY DEF Shrunk, Without
<1> HIDE DEF d, d2, hp2
<1>4. gone = {d[k] : k \in DOMAIN d \ DOMAIN d2}
  BY <1>2
<1>5. DOMAIN d2 \subseteq DOMAIN d /\ \A k \in DOMAIN d2 : d2[k] = d[k]
  BY <1>1, <1>2
<1>6. Owned(d, heap, held)
  BY DEF d
<1>7. hp2 = [i \in DOMAIN heap \ {d[k] : k \in DOMAIN d \ DOMAIN d2} |-> heap[i]]
  BY <1>3, <1>4
<1>8. Owned(d2, hp2, held)
  BY <1>5, <1>6, <1>7, OwnedShrink
<1> QED
  BY <1>3, <1>8 DEF d2, hp2

LEMMA OwnedKept ==
  ASSUME CacheTyped, Owned(Data(cache), heap, held), CNext
  PROVE  Owned(Data(cache'), heap', held')
<1>0. cache \in CacheSet /\ IsFiniteSet(Keys(cache))
  BY DEF CacheTyped
<1>1. ASSUME NEW q \in test.queries, uvm_re_comp(q) PROVE Owned(Data(cache'), heap', held')
  <2>1. CASE heap' = heap /\ held' = held
    BY <1>1, <2>1 DEF uvm_re_comp
  <2>2. CASE \E h \in Fresh : heap' = Allocated(h, q) /\ held' = held \cup {h}
    <3>1. PICK h \in Fresh : heap' = Allocated(h, q) /\ held' = held \cup {h}
      BY <2>2
    <3> DEFINE hp2 == heap'
    <3>2. /\ DOMAIN hp2 = DOMAIN heap \cup {h} /\ \A i \in DOMAIN heap : hp2[i] = heap[i]
          /\ h \notin DOMAIN heap /\ cache' = cache
      BY <1>1, <3>1 DEF Allocated, Fresh, uvm_re_comp
    <3> HIDE DEF hp2
    <3>3. Owned(Data(cache), hp2, held \cup {h})
      BY <3>2, OwnedGive
    <3> QED
      BY <3>1, <3>2, <3>3 DEF hp2
  <2> QED
    BY <1>1, <2>1, <2>2 DEF uvm_re_comp
<1>2. ASSUME NEW q \in test.queries, NEW str \in Strings, uvm_re_match(q, str)
      PROVE  Owned(Data(cache'), heap', held')
  <2>1. Fetch(q) /\ held' = held
    BY <1>2 DEF uvm_re_match
  <2>2. q.re \in Names
    BY TextNames
  <2> QED
    BY <2>1, <2>2, FetchOwned
<1>3. ASSUME NEW h \in held, uvm_re_free(h) PROVE Owned(Data(cache'), heap', held')
  <2> DEFINE hp2 == heap'
  <2>1. hp2 = [i \in DOMAIN heap \ {h} |-> heap[i]] /\ held' = held \ {h} /\ cache' = cache
    BY <1>3 DEF uvm_re_free, Without
  <2> HIDE DEF hp2
  <2>2. Owned(Data(cache), hp2, held \ {h})
    BY <2>1, OwnedDrop
  <2> QED
    BY <2>1, <2>2 DEF hp2
<1>4. ASSUME NEW h \in held, NEW str \in Strings, uvm_re_exec(h, str)
      PROVE  Owned(Data(cache'), heap', held')
  BY <1>4 DEF uvm_re_exec
<1>5. ASSUME NEW n \in Sizes, set_max_size(n) PROVE Owned(Data(cache'), heap', held')
  <2> DEFINE b == [cache EXCEPT !.max = n]
             e == evict_to_max(b)
  <2>1. b \in CacheSet /\ Keys(b) = Keys(cache) /\ b.hash = cache.hash
    <3>1. n \in Nat
      BY CacheAssumption
    <3> QED
      BY <1>0, <3>1, Resized
  <2>2. Shrunk(e)
    BY <1>5 DEF set_max_size
  <2> HIDE DEF b
  <2>3. Shrinks(b, e)
    BY <1>0, <2>1, MaxShrinks
  <2> HIDE DEF e
  <2>4. /\ Keys(e) \subseteq Keys(cache)
        /\ \A k \in Keys(e) : e.hash[k].data = cache.hash[k].data
    BY <2>1, <2>3 DEF Shrinks
  <2> QED
    BY <2>2, <2>4, ShrunkOwned
<1>6. ASSUME flush PROVE Owned(Data(cache'), heap', held')
  <2>1. PICK ks \in Orders(Keys(cache)) : Shrunk(Emptied(cache, ks))
    BY <1>6 DEF flush
  <2>2. Len(ks) \in Nat
    BY <1>0, OrdersLength
  <2>3. Shrinks(cache, Emptied(cache, ks))
    BY <1>0, <2>2, EmptyShrinks
  <2> QED
    BY <2>1, <2>3, ShrunkOwned
<1>7. ASSUME Aside PROVE Owned(Data(cache'), heap', held')
  BY <1>7 DEF Aside
<1>8. ASSUME NEW re \in test.patterns, Search(Glob(re))
      PROVE  Owned(Data(cache'), heap', held')
  <2>1. Fetch(Glob(re)) /\ held' = held
    BY <1>8 DEF Search
  <2>2. Glob(re).re \in Names
    BY TextNames
  <2> QED
    BY <2>1, <2>2, FetchOwned
<1> QED
  BY <1>1, <1>2, <1>3, <1>4, <1>5, <1>6, <1>7, <1>8 DEF CNext, CacheNext, CacheElse

LEMMA SoundOwnedNext ==
  HandlesSound' <=> (Running(cache') => Owned(Data(cache'), heap', held'))
<1> DEFINE c == cache'
           hp == heap'
           hd == held'
           d == Data(c)
<1>1. DOMAIN d = Keys(c) /\ \A k \in Keys(c) : d[k] = c.hash[k].data
  BY DEF Data
<1>2. {c.hash[k].data : k \in Keys(c)} = {d[k] : k \in DOMAIN d}
  BY <1>1
<1> HIDE DEF d
<1>3. Owned(d, hp, hd) <=>
        LET cached == {d[k] : k \in DOMAIN d} IN
        /\ DOMAIN hp = cached \cup hd /\ cached \cap hd = {}
        /\ \A j, k \in Keys(c) : c.hash[j].data = c.hash[k].data => j = k
        /\ \A k \in Keys(c) : hp[c.hash[k].data].re = k
  BY <1>1 DEF Owned
<1> QED
  BY <1>2, <1>3 DEF HandlesSound, d, Keys, Running

LEMMA CInvKept == CInv /\ [CNext]_cvars => CInv'
<1> SUFFICES ASSUME CInv, [CNext]_cvars PROVE CInv'
  OBVIOUS
<1>1. CASE CNext
  <2>1. CacheTyped'
    BY <1>1, TypedKept DEF CInv
  <2>2. Running(cache)
    BY <1>1, StepTouches DEF CInv
  <2>3. Owned(Data(cache), heap, held)
    BY <2>2, SoundOwned DEF CInv
  <2>4. Owned(Data(cache'), heap', held')
    BY <1>1, <2>3, OwnedKept DEF CInv
  <2> QED
    BY <2>1, <2>4, SoundOwnedNext DEF CInv
<1>2. CASE UNCHANGED cvars
  BY <1>2 DEF cvars, CInv, CacheTyped, HandlesSound, Keys, Running
<1> QED
  BY <1>1, <1>2

LEMMA CInvAlways == CacheSpec => []CInv
<1>1. CacheInit => CInv
  BY CacheInitTyped
<1>2. CInv /\ [CNext]_cvars => CInv'
  BY CInvKept
<1> QED
  BY <1>1, <1>2, PTL DEF CacheSpec, CNext

(* Whatever is compiled, matched, cached, evicted and freed, each compiled     *)
(* expression has one owner, and a key finds its own.                          *)
THEOREM HandlesAreSound == CacheSpec => []HandlesSound
<1>1. CInv => HandlesSound
  BY DEF CInv
<1> QED
  BY <1>1, CInvAlways, PTL

------------------------------------------------------------------------------
(* The order of use                                                          *)

LEMMA Prefix ==
  ASSUME NEW S, NEW r \in Seq(S), NEW l \in Seq(S), Len(l) <= Len(r),
         \A i \in 1 .. Len(l) : l[i] = r[i]
  PROVE  l = SubSeq(r, 1, Len(l))
<1>1. Len(l) \in Nat /\ Len(r) \in Nat /\ DOMAIN l = 1 .. Len(l)
  OBVIOUS
<1>2. SubSeq(r, 1, Len(l)) = [i \in 1 .. Len(l) |-> r[i]]
  BY <1>1
<1> QED
  BY <1>1, <1>2

Recent(c, e) ==
  Linked(c) /\ (EndIsLast(c) \/ Keys(c) \subseteq Keys(e)) =>
    /\ Linked(e)
    /\ EndIsLast(c) => /\ Running(e)
                       /\ e.max # c.max => e.recency = SubSeq(c.recency, 1, Len(e.recency))

LEMMA RecencyStep ==
  ASSUME CacheTyped, Touched, Running(cache)
  PROVE  Recent(cache, cache')
<1> DEFINE c == cache
           e == cache'
<1>0. c \in CacheSet /\ IsFiniteSet(Keys(c)) /\ Running(c)
  BY DEF CacheTyped
<1>1. CASE cache' = cache
  BY <1>0, <1>1 DEF Recent
<1>2. CASE \E k \in Keys(cache) : cache' = m_update(cache, k)
  <2>1. PICK k \in Keys(c) : e = m_update(c, k)
    BY <1>2
  <2>2. Linked(c) => Linked(e) /\ (Running(c) => Running(e))
    BY <1>0, <2>1, LinkedUpdate
  <2>3. e.max = c.max
    <3>1. CASE c.begin = k
      BY <2>1, <3>1 DEF m_update
    <3>2. CASE c.begin # k
      <4>1. m_update(c, k).max = c.max
        BY <1>0, <3>2, UpdateParts
      <4> QED
        BY <2>1, <4>1
    <3> QED
      BY <3>1, <3>2
  <2> QED
    BY <1>0, <2>2, <2>3 DEF Recent
<1>3. CASE \E k \in Names \ Keys(cache), h \in Handles : cache' = put(cache, k, h)
  <2>1. PICK k \in Names \ Keys(c), h \in Handles : e = put(c, k, h)
    BY <1>3
  <2>2. Linked(c) => Linked(e)
    BY <1>0, <2>1, LinkedPut
  <2>3. PutInto(c, k, h, e)
    BY <1>0, <2>1, PutParts
  <2>4. e.max = c.max /\ e.fault = c.fault
    BY <2>3 DEF PutInto
  <2> QED
    BY <1>0, <2>2, <2>4 DEF Recent, Running
<1>4. CASE \E n \in Nat : cache' = evict_to_max([cache EXCEPT !.max = n])
  <2>1. PICK n \in Nat : e = evict_to_max([c EXCEPT !.max = n])
    BY <1>4
  <2> DEFINE b == [c EXCEPT !.max = n]
  <2>2. /\ b \in CacheSet /\ Keys(b) = Keys(c) /\ b.recency = c.recency /\ b.fault = c.fault
        /\ (Linked(c) => Linked(b)) /\ (EndIsLast(c) => EndIsLast(b))
    BY <1>0, Resized
  <2>3. e = evict_to_max(b)
    BY <2>1
  <2> HIDE DEF b
  <2>4. e \in CacheSet /\ Shrinks(b, e) /\ KeepsLast(b, e)
    BY <1>0, <2>2, <2>3, MaxShrinks
  <2> HIDE DEF e, c
  <2>5. ASSUME Linked(c), EndIsLast(c) \/ Keys(c) \subseteq Keys(e) PROVE Linked(e)
    BY <1>0, <2>2, <2>4, <2>5 DEF Shrinks, Straight, Running
  <2>6. ASSUME Linked(c), EndIsLast(c)
        PROVE  Running(e) /\ e.recency = SubSeq(c.recency, 1, Len(e.recency))
    <3>1. Straight(b) /\ Straight(e)
      BY <1>0, <2>2, <2>4, <2>6 DEF Shrinks, Straight, Running
    <3>2. /\ Len(e.recency) <= Len(c.recency)
          /\ \A i \in 1 .. Len(e.recency) : e.recency[i] = c.recency[i]
      BY <2>2, <2>4, <3>1 DEF KeepsLast
    <3>3. e.recency \in Seq(Names) /\ c.recency \in Seq(Names)
      BY <1>0, <2>4, CacheParts
    <3> QED
      BY <3>1, <3>2, <3>3, Prefix DEF Straight
  <2> QED
    BY <2>5, <2>6 DEF Recent, e, c
<1>5. CASE \E ks : Len(ks) \in Nat /\ cache' = Emptied(cache, ks)
  <2>1. PICK ks : Len(ks) \in Nat /\ e = Emptied(c, ks)
    BY <1>5
  <2>2. Shrinks(c, e)
    BY <1>0, <2>1, EmptyShrinks
  <2> HIDE DEF e, c
  <2>3. e.max = c.max
    BY <2>2 DEF Shrinks
  <2>4. ASSUME Linked(c), EndIsLast(c) \/ Keys(c) \subseteq Keys(e) PROVE Linked(e)
    BY <1>0, <2>2, <2>4 DEF Shrinks, Straight
  <2>5. ASSUME Linked(c), EndIsLast(c) PROVE Running(e)
    BY <1>0, <2>2, <2>5 DEF Shrinks, Straight
  <2> QED
    BY <2>3, <2>4, <2>5 DEF Recent, e, c
<1> QED
  BY <1>1, <1>2, <1>3, <1>4, <1>5 DEF Touched

(* However the cache is used, resized and flushed: its list is in the order  *)
(* of use and the oldest keys go first, as long as m_end is the last of it.  *)
THEOREM ListInOrder == CacheSpec => ListIsRecency
<1>1. CInv /\ [CNext]_cvars =>
        [Linked(cache) /\ (EndIsLast(cache) \/ Keys(cache) \subseteq Keys(cache'))
           => /\ Linked(cache')
              /\ EndIsLast(cache) =>
                   /\ Running(cache')
                   /\ cache'.max # cache.max =>
                        cache'.recency = SubSeq(cache.recency, 1, Len(cache'.recency))]_cvars
  <2> SUFFICES ASSUME CInv, CNext
               PROVE  Recent(cache, cache')
    BY DEF Recent
  <2>1. CacheTyped
    BY DEF CInv
  <2>2. Touched /\ Running(cache)
    BY <2>1, StepTouches
  <2> QED
    BY <2>1, <2>2, RecencyStep
<1> QED
  BY <1>1, CInvAlways, PTL DEF CacheSpec, CNext, ListIsRecency

------------------------------------------------------------------------------
(* Texts put together                                                        *)

AtFront(x, y) ==
  Len(x) <= Len(y) /\ \A i \in 1 .. Len(x) : y[i] = x[i]

LEMMA JoinedFront ==
  ASSUME NEW S, NEW x \in Seq(S), NEW y \in Seq(S)
  PROVE  /\ x \o y \in Seq(S) /\ Len(x \o y) = Len(x) + Len(y)
         /\ AtFront(x, x \o y)
         /\ \A i \in 1 .. Len(y) : (x \o y)[Len(x) + i] = y[i]
<1> DEFINE z == x \o y
<1>1. /\ z \in Seq(S) /\ Len(x) \in Nat /\ Len(y) \in Nat
      /\ Len(z) = Len(x) + Len(y)
      /\ \A i \in 1 .. Len(x) + Len(y) :
           z[i] = IF i <= Len(x) THEN x[i] ELSE y[i - Len(x)]
  BY ConcatProperties
<1> HIDE DEF z
<1>2. \A i \in 1 .. Len(x) : i \in 1 .. Len(x) + Len(y) /\ i <= Len(x)
  BY <1>1
<1>3. \A i \in 1 .. Len(y) : /\ Len(x) + i \in 1 .. Len(x) + Len(y)
                             /\ ~ (Len(x) + i <= Len(x)) /\ Len(x) + i - Len(x) = i
  BY <1>1
<1>4. Len(x) <= Len(z)
  BY <1>1
<1> QED
  BY <1>1, <1>2, <1>3, <1>4 DEF AtFront, z

(* Concat puts its texts together one after another: the text after n of   *)
(* them is at the front of the whole.                                      *)
Runs(S, ss, p) ==
  /\ p \in [0 .. Len(ss) -> Seq(S)] /\ p[0] = <<>>
  /\ \A n \in 1 .. Len(ss) : p[n] = p[n - 1] \o ss[n]
  /\ Concat(ss) = p[Len(ss)]
  /\ \A n \in 0 .. Len(ss) : AtFront(p[n], Concat(ss))

LEMMA ConcatRuns ==
  ASSUME NEW S, NEW ss \in Seq(Seq(S))
  PROVE  \E p : Runs(S, ss, p)
<1> DEFINE N == Len(ss)
           G == [n \in 1 .. N |-> [x \in Seq(S) |-> x \o ss[n]]]
           Is(f) == f = [i \in 1 .. N |-> IF i = 1 THEN ss[i] ELSE f[i - 1] \o ss[i]]
           h == CHOOSE f : Is(f)
<1>0. N \in Nat /\ (\A n \in 1 .. N : ss[n] \in Seq(S)) /\ DOMAIN ss = 1 .. N
  OBVIOUS
<1>1. Loops(Seq(S), N, <<>>, G) # {}
  <2>1. \A n \in 1 .. N : \A x \in Seq(S) : G[n][x] \in Seq(S)
    BY <1>0
  <2>2. <<>> \in Seq(S)
    OBVIOUS
  <2> HIDE DEF G, N, Is, h
  <2> QED
    BY <1>0, <2>1, <2>2, LoopRuns
<1>2. PICK p \in [0 .. N -> Seq(S)] :
        p[0] = <<>> /\ \A n \in 1 .. N : p[n] = p[n - 1] \o ss[n]
  <2>1. PICK p \in [0 .. N -> Seq(S)] :
          p[0] = <<>> /\ \A n \in 1 .. N : p[n] = G[n][p[n - 1]]
    <3> HIDE DEF G, N, Is
    <3> QED
      BY <1>1 DEF Loops
  <2>2. ASSUME NEW n \in 1 .. N PROVE p[n] = p[n - 1] \o ss[n]
    <3>1. n - 1 \in 0 .. N
      BY <1>0
    <3> QED
      BY <2>1, <3>1
  <2> QED
    BY <2>1, <2>2
<1>3. ASSUME NEW x \in Seq(S) PROVE <<>> \o x = x
  BY ConcatEmptySeq
<1>31. N # 0 => p[1] = ss[1]
  <2> SUFFICES ASSUME N # 0 PROVE p[1] = ss[1]
    OBVIOUS
  <2>1. 1 \in 1 .. N /\ 1 - 1 = 0
    BY <1>0
  <2>2. p[1] = p[0] \o ss[1] /\ ss[1] \in Seq(S)
    <3> HIDE DEF N
    <3> QED
      BY <1>0, <1>2, <2>1
  <2> QED
    BY <1>2, <1>3, <2>2
<1>4. Concat(ss) = p[N]
  <2>1. CASE N = 0
    <3>1. Concat(ss) = ss
      BY <2>1 DEF Concat, Seqs!FlattenSeq
    <3>2. ss = <<>>
      BY <2>1
    <3> QED
      BY <1>2, <2>1, <3>1, <3>2
  <2>2. CASE N # 0
    <3> DEFINE f == [i \in 1 .. N |-> p[i]]
    <3>1. ASSUME NEW i \in 1 .. N
          PROVE  f[i] = IF i = 1 THEN ss[i] ELSE f[i - 1] \o ss[i]
      <4>1. CASE i = 1
        BY <1>31, <2>2, <4>1
      <4>2. CASE i # 1
        <5>1. i - 1 \in 1 .. N
          BY <1>0, <4>2
        <5> QED
          BY <1>2, <4>2, <5>1
      <4> QED
        BY <4>1, <4>2
    <3> HIDE DEF N
    <3>2. f = [i \in 1 .. N |-> IF i = 1 THEN ss[i] ELSE f[i - 1] \o ss[i]]
      BY <3>1
    <3>3. \E g : Is(g)
      BY <3>2
    <3> HIDE DEF f
    <3>4. Is(h)
      <4> HIDE DEF Is
      <4> QED
        BY <3>3
    <3>5. Concat(ss) = h[N]
      BY <2>2 DEF Concat, Seqs!FlattenSeq, N
    <3> HIDE DEF h
    <3>6. \A i \in 1 .. N : h[i] = IF i = 1 THEN ss[i] ELSE h[i - 1] \o ss[i]
      BY <3>4, Zenon
    <3> DEFINE k == [n \in 0 .. N - 1 |-> h[n + 1]]
               Q == [n \in 0 .. N - 1 |-> {p[n + 1]}]
    <3>7. k[0] \in Q[0]
      <4>1. 1 \in 1 .. N
        BY <1>0, <2>2
      <4>2. h[1] = ss[1]
        BY <3>6, <4>1
      <4> QED
        BY <1>0, <1>31, <2>2, <4>2
    <3>8. ASSUME NEW n \in 1 .. N - 1, k[n - 1] \in Q[n - 1] PROVE k[n] \in Q[n]
      <4>1. /\ n \in 0 .. N - 1 /\ n - 1 \in 0 .. N - 1 /\ n + 1 \in 1 .. N
            /\ n + 1 # 1 /\ (n + 1) - 1 = n /\ (n - 1) + 1 = n /\ n \in 1 .. N
        BY <1>0
      <4>2. h[n + 1] = h[n] \o ss[n + 1] /\ p[n + 1] = p[n] \o ss[n + 1]
        BY <1>2, <3>6, <4>1
      <4>3. h[n] = p[n]
        BY <3>8, <4>1
      <4> QED
        BY <4>1, <4>2, <4>3
    <3>9. \A n \in 0 .. N - 1 : k[n] \in Q[n]
      <4>1. N - 1 \in Nat
        BY <1>0, <2>2
      <4> HIDE DEF k, Q
      <4> QED
        BY <3>7, <3>8, <4>1, Rounds
    <3>10. N - 1 \in 0 .. N - 1 /\ (N - 1) + 1 = N
      BY <1>0, <2>2
    <3> QED
      BY <3>5, <3>9, <3>10
  <2> QED
    BY <2>1, <2>2
<1>5. \A n \in 0 .. N : AtFront(p[n], p[N])
  <2> DEFINE Q == [m \in 0 .. N |-> {x \in Seq(S) : \A n \in 0 .. m : AtFront(p[n], x)}]
  <2>1. ASSUME NEW x \in Seq(S) PROVE AtFront(x, x)
    BY DEF AtFront
  <2>2. p[0] \in Q[0]
    BY <1>0, <1>2, <2>1
  <2>3. ASSUME NEW m \in 1 .. N, p[m - 1] \in Q[m - 1] PROVE p[m] \in Q[m]
    <3>0. m \in 0 .. N /\ m - 1 \in 0 .. N /\ \A n \in 0 .. m : n \in 0 .. m - 1 \/ n = m
      <4> HIDE DEF Q
      <4> QED
        BY <1>0
    <3>1. p[m] \in Seq(S) /\ p[m - 1] \in Seq(S)
      <4> HIDE DEF Q, N
      <4> QED
        BY <1>2, <3>0
    <3>2. AtFront(p[m - 1], p[m])
      <4>1. ss[m] \in Seq(S) /\ p[m] = p[m - 1] \o ss[m]
        BY <1>0, <1>2
      <4> QED
        BY <3>1, <4>1, JoinedFront
    <3>3. ASSUME NEW n \in 0 .. m - 1 PROVE AtFront(p[n], p[m])
      <4>1. AtFront(p[n], p[m - 1])
        BY <2>3, <3>0
      <4>2. Len(p[n]) \in Nat /\ Len(p[m - 1]) \in Nat /\ Len(p[m]) \in Nat
        <5>1. n \in 0 .. N
          BY <1>0
        <5> HIDE DEF N, Q
        <5>2. p[n] \in Seq(S)
          BY <1>2, <5>1
        <5> QED
          BY <3>1, <5>2
      <4> HIDE DEF Q, N
      <4> QED
        BY <3>2, <4>1, <4>2 DEF AtFront
    <3>4. AtFront(p[m], p[m])
      BY <2>1, <3>1
    <3>5. \A n \in 0 .. m : AtFront(p[n], p[m])
      BY <3>0, <3>3, <3>4
    <3> QED
      BY <3>0, <3>1, <3>5
  <2>4. \A m \in 0 .. N : p[m] \in Q[m]
    <3> HIDE DEF Q, N
    <3> QED
      BY <1>0, <2>2, <2>3, Rounds
  <2> QED
    BY <1>0, <2>4
<1> QED
  BY <1>2, <1>4, <1>5 DEF Runs

LEMMA RunsLength ==
  ASSUME NEW S, NEW ss \in Seq(Seq(S)), NEW p, Runs(S, ss, p), NEW n \in 1 .. Len(ss)
  PROVE  /\ p[n - 1] \in Seq(S) /\ ss[n] \in Seq(S) /\ Concat(ss) \in Seq(S)
         /\ p[n] = p[n - 1] \o ss[n]
         /\ Len(p[n - 1]) \in Nat /\ Len(ss[n]) \in Nat /\ Len(Concat(ss)) \in Nat
         /\ Len(p[n]) = Len(p[n - 1]) + Len(ss[n])
         /\ Len(p[n]) <= Len(Concat(ss))
<1>1. n - 1 \in 0 .. Len(ss) /\ n \in 0 .. Len(ss) /\ Len(ss) \in 0 .. Len(ss) /\ ss[n] \in Seq(S)
  OBVIOUS
<1>2. p[n - 1] \in Seq(S) /\ p[n] \in Seq(S) /\ Concat(ss) \in Seq(S) /\ p[n] = p[n - 1] \o ss[n]
  BY <1>1 DEF Runs
<1>3. Len(p[n]) <= Len(Concat(ss))
  BY <1>1 DEF Runs, AtFront
<1>4. \A x, y \in Seq(S) : Len(x) \in Nat /\ Len(x \o y) = Len(x) + Len(y)
  OBVIOUS
<1>5. /\ Len(p[n - 1]) \in Nat /\ Len(ss[n]) \in Nat /\ Len(Concat(ss)) \in Nat
      /\ Len(p[n]) = Len(p[n - 1]) + Len(ss[n])
  BY <1>1, <1>2, <1>4
<1> QED
  BY <1>1, <1>2, <1>3, <1>5

LEMMA RunsAt ==
  ASSUME NEW S, NEW ss \in Seq(Seq(S)), NEW p, Runs(S, ss, p), NEW n \in 1 .. Len(ss),
         NEW i \in 1 .. Len(ss[n])
  PROVE  /\ Len(p[n - 1]) + i \in 1 .. Len(Concat(ss))
         /\ Concat(ss)[Len(p[n - 1]) + i] = ss[n][i]
<1> DEFINE x == p[n - 1]
           y == ss[n]
           z == p[n]
           w == Concat(ss)
<1>1. /\ x \in Seq(S) /\ y \in Seq(S) /\ z = x \o y
      /\ Len(x) \in Nat /\ Len(y) \in Nat /\ Len(w) \in Nat
      /\ Len(z) = Len(x) + Len(y) /\ Len(z) <= Len(w)
  BY RunsLength
<1>2. z[Len(x) + i] = y[i]
  <2>1. i \in 1 .. Len(y)
    OBVIOUS
  <2> HIDE DEF x, y, z
  <2> QED
    BY <1>1, <2>1, JoinedFront
<1>3. \A j \in 1 .. Len(z) : w[j] = z[j]
  <2>1. n \in 0 .. Len(ss)
    OBVIOUS
  <2> QED
    BY <2>1 DEF Runs, AtFront
<1>4. Len(x) + i \in 1 .. Len(w) /\ w[Len(x) + i] = y[i]
  <2>1. i \in 1 .. Len(y)
    OBVIOUS
  <2> HIDE DEF x, y, z, w
  <2>2. Len(x) + i \in 1 .. Len(z)
    BY <1>1, <2>1
  <2> DEFINE m == Len(x) + i
  <2>3. m \in 1 .. Len(w) /\ w[m] = z[m]
    <3>1. m \in 1 .. Len(z)
      BY <2>2
    <3>2. Len(z) \in Nat
      BY <1>1
    <3> HIDE DEF m
    <3> QED
      BY <1>1, <1>3, <3>1, <3>2
  <2> QED
    BY <1>2, <2>3
<1> QED
  BY <1>4

Covers(ss, p, i) ==
  \E n \in 1 .. Len(ss) : \E j \in 1 .. Len(ss[n]) : i = Len(p[n - 1]) + j

LEMMA RunsCover ==
  ASSUME NEW S, NEW ss \in Seq(Seq(S)), NEW p, Runs(S, ss, p), NEW i \in 1 .. Len(Concat(ss))
  PROVE  Covers(ss, p, i)
<1>0. ASSUME NEW n \in 1 .. Len(ss)
      PROVE  /\ Len(p[n - 1]) \in Nat /\ Len(ss[n]) \in Nat
             /\ Len(p[n]) = Len(p[n - 1]) + Len(ss[n])
  BY RunsLength
<1> DEFINE N == Len(ss)
           T == {n \in 0 .. N : i <= Len(p[n])}
           R == {xy \in Nat \X Nat : xy[1] < xy[2]}
<1>1. N \in T
  BY DEF Runs
<1>2. T \subseteq Nat
  OBVIOUS
<1>3. PICK n \in T : \A y \in T : ~ (<<y, n>> \in R)
  <2>1. IsWellFoundedOn(R, Nat)
    BY NatLessThanWellFounded DEF OpToRel
  <2> HIDE DEF R, T
  <2> QED
    BY <1>1, <1>2, <2>1, WFMin
<1>4. n # 0
  <2>1. p[0] = <<>> /\ i > 0
    BY DEF Runs
  <2>2. Len(p[0]) = 0
    BY <2>1
  <2> HIDE DEF N
  <2> QED
    BY <2>1, <2>2
<1>5. n \in 1 .. N /\ n - 1 \in 0 .. N /\ n - 1 \in Nat /\ n \in Nat
  BY <1>4
<1>6. n - 1 \notin T
  <2>1. <<n - 1, n>> \in R
    BY <1>5
  <2> HIDE DEF R, T, N
  <2> QED
    BY <1>3, <2>1
<1>7. /\ Len(p[n - 1]) \in Nat /\ Len(ss[n]) \in Nat
      /\ Len(p[n]) = Len(p[n - 1]) + Len(ss[n])
  <2>1. n \in 1 .. Len(ss)
    BY <1>5
  <2> HIDE DEF T, N, R
  <2> QED
    BY <1>0, <2>1, Zenon
<1>8. i <= Len(p[n]) /\ ~ (i <= Len(p[n - 1])) /\ i \in Int
  <2>1. i \in Int
    BY DEF Runs
  <2>2. i <= Len(p[n])
    OBVIOUS
  <2>3. ~ (i <= Len(p[n - 1]))
    <3> HIDE DEF N
    <3> QED
      BY <1>5, <1>6
  <2> QED
    BY <2>1, <2>2, <2>3
<1>9. i - Len(p[n - 1]) \in 1 .. Len(ss[n]) /\ i = Len(p[n - 1]) + (i - Len(p[n - 1]))
  <2> DEFINE a == Len(p[n - 1])
             b == Len(ss[n])
             c == Len(p[n])
  <2>1. a \in Nat /\ b \in Nat /\ c = a + b /\ i <= c /\ ~ (i <= a) /\ i \in Int
    BY <1>7, <1>8
  <2> HIDE DEF N, T, a, b, c
  <2>2. i - a \in 1 .. b /\ i = a + (i - a)
    BY <2>1
  <2> QED
    BY <2>2 DEF a, b
<1> QED
  BY <1>5, <1>9 DEF Covers

(* A table in which each entry is made from those before it.               *)
LEMMA Below ==
  ASSUME NEW N \in Nat, NEW T,
         \A n \in 1 .. N : (\A m \in 1 .. n - 1 : m \in T) => n \in T
  PROVE  \A n \in 1 .. N : n \in T
<1> DEFINE U == {n \in 1 .. N : n \notin T}
           R == {xy \in Nat \X Nat : xy[1] < xy[2]}
<1> SUFFICES ASSUME U # {} PROVE FALSE
  OBVIOUS
<1>1. IsWellFoundedOn(R, Nat)
  BY NatLessThanWellFounded DEF OpToRel
<1>2. U \subseteq Nat
  OBVIOUS
<1>3. PICK n \in U : \A y \in U : ~ (<<y, n>> \in R)
  <2> HIDE DEF R, U
  <2> QED
    BY <1>1, <1>2, WFMin
<1>4. ASSUME NEW m \in 1 .. n - 1 PROVE m \in T
  <2>1. <<m, n>> \in R /\ m \in 1 .. N
    BY <1>2
  <2>2. m \notin U
    <3> HIDE DEF R, U
    <3> QED
      BY <1>3, <2>1
  <2> QED
    BY <2>1, <2>2
<1> QED
  BY <1>4

MadeBy(S, N, G, f) ==
  f \in [1 .. N -> S] /\ \A n \in 1 .. N : f[n] = G[n][[m \in 1 .. n - 1 |-> f[m]]]

LEMMA Tables ==
  ASSUME NEW S, NEW N \in Nat, NEW G,
         \A n \in 1 .. N : \A t \in [1 .. n - 1 -> S] : G[n][t] \in S
  PROVE  \E f : MadeBy(S, N, G, f)
<1> DEFINE Fine(k, f) == \A n \in 1 .. k : f[n] = G[n][[m \in 1 .. n - 1 |-> f[m]]]
           T == {k \in 0 .. N : \E f \in [1 .. k -> S] : Fine(k, f)}
           id == [k \in 0 .. N |-> k]
           Q == [k \in 0 .. N |-> T]
<1>1. id[0] \in Q[0]
  <2> DEFINE e == [i \in 1 .. 0 |-> 0]
  <2>1. e \in [1 .. 0 -> S] /\ Fine(0, e)
    OBVIOUS
  <2>2. 0 \in T
    <3> HIDE DEF Fine, e
    <3>1. 0 \in 0 .. N
      OBVIOUS
    <3> QED
      BY <2>1, <3>1
  <2> QED
    BY <2>2
<1>2. ASSUME NEW k \in 1 .. N, k - 1 \in T PROVE k \in T
  <2>1. PICK f \in [1 .. k - 1 -> S] : Fine(k - 1, f)
    BY <1>2
  <2>2. G[k][f] \in S
    OBVIOUS
  <2> DEFINE g == [i \in 1 .. k |-> IF i = k THEN G[k][f] ELSE f[i]]
  <2>3. g \in [1 .. k -> S]
    <3>1. \A i \in 1 .. k : i # k => i \in 1 .. k - 1
      OBVIOUS
    <3> HIDE DEF T
    <3> QED
      BY <2>2, <3>1
  <2>4. ASSUME NEW n \in 1 .. k PROVE g[n] = G[n][[m \in 1 .. n - 1 |-> g[m]]]
    <3>1. \A m \in 1 .. n - 1 : m \in 1 .. k /\ m # k /\ m \in 1 .. k - 1
      OBVIOUS
    <3>2. [m \in 1 .. n - 1 |-> g[m]] = [m \in 1 .. n - 1 |-> f[m]]
      BY <3>1
    <3>3. CASE n = k
      <4>1. [m \in 1 .. n - 1 |-> f[m]] = f
        BY <3>3
      <4> QED
        BY <3>2, <3>3, <4>1
    <3>4. CASE n # k
      <4>1. n \in 1 .. k - 1
        BY <3>4
      <4>2. f[n] = G[n][[m \in 1 .. n - 1 |-> f[m]]]
        BY <2>1, <4>1
      <4>3. g[n] = f[n]
        BY <3>4
      <4> HIDE DEF g
      <4> QED
        BY <3>2, <4>2, <4>3
    <3> QED
      BY <3>3, <3>4
  <2>5. Fine(k, g)
    <3> HIDE DEF g
    <3> QED
      BY <2>4
  <2>6. k \in 0 .. N
    OBVIOUS
  <2> HIDE DEF Fine, g
  <2> QED
    BY <2>3, <2>5, <2>6
<1>3. \A k \in 0 .. N : id[k] \in Q[k]
  <2>1. \A k \in 1 .. N : id[k - 1] \in Q[k - 1] => id[k] \in Q[k]
    <3>1. \A k \in 1 .. N : k \in 0 .. N /\ k - 1 \in 0 .. N
      OBVIOUS
    <3> HIDE DEF T
    <3> QED
      BY <1>2, <3>1
  <2> HIDE DEF id, Q
  <2> QED
    BY <1>1, <2>1, Rounds
<1>4. N \in T
  <2>1. N \in 0 .. N
    OBVIOUS
  <2> HIDE DEF T
  <2> QED
    BY <1>3, <2>1
<1> QED
  BY <1>4 DEF MadeBy

------------------------------------------------------------------------------
(* What the arrays of a command line hold                                    *)

(* The provers do not know that a name in quotes is a STRING: those that the *)
(* model itself writes are added.                                            *)
Letters == STRING \cup {"f", ".", "\\", "^", "$"}
Words == Seq(Letters)
Item == [s : Words, file : Nat]
Slot == [s : Words, to : Nat]

Fine(line) ==
  /\ line \in Seq(Seq(Item)) /\ Len(line) > 0
  /\ \A a \in DOMAIN line : \A i \in DOMAIN line[a] :
       Nests(line[a][i]) => line[a][i].file \in 1 .. a - 1

LEMMA EntryShape ==
  ASSUME NEW it \in Item
  PROVE  LET e == Entries(it) IN
         /\ e \in Seq(Slot) /\ Len(e) = (IF Nests(it) THEN 2 ELSE 1)
         /\ e[1] = Entry(it.s) /\ e[1].s = it.s
         /\ Nests(it) => e[2].to = it.file
         /\ Nests(e[1]) <=> Nests(it)
         /\ ~ Nests(e[Len(e)])
<1>1. /\ Entry(it.s) \in Slot /\ Entry(it.s).s = it.s
      /\ [s |-> <<>>, to |-> it.file] \in Slot
  BY DEF Entry, Slot, Item, Words
<1>2. ~ Nests([s |-> <<>>, to |-> it.file])
  BY DEF Nests, FileFlags
<1>3. Nests(Entry(it.s)) <=> Nests(it)
  BY <1>1 DEF Nests
<1> HIDE DEF Item
<1>4. CASE Nests(it)
  BY <1>1, <1>2, <1>3, <1>4 DEF Entries
<1>5. CASE ~ Nests(it)
  BY <1>1, <1>2, <1>3, <1>5 DEF Entries
<1> QED
  BY <1>4, <1>5

(* What one entry of an array adds to what was pushed before.               *)
Push(arr, first, t, i, x) ==
  IF i < first THEN <<>>
  ELSE IF i > first /\ Nests(arr[i - 1]) THEN x \o t[arr[i].to]
  ELSE IF Nests(arr[i]) THEN x
  ELSE Append(x, arr[i].s)

Pointing(argv, a, first, t) ==
  \A i \in 1 .. Len(argv[a]) :
    i > first /\ Nests(argv[a][i - 1]) => t[argv[a][i].to] \in Seq(Words)
PushRun(argv, a, first, t, f) ==
  /\ f \in [0 .. Len(argv[a]) -> Seq(Words)] /\ f[0] = <<>>
  /\ \A i \in 1 .. Len(argv[a]) : f[i] = Push(argv[a], first, t, i, f[i - 1])
  /\ Walked(argv, a, first, t) = f[Len(argv[a])]

LEMMA PushedRuns ==
  ASSUME NEW argv, NEW a, argv[a] \in Seq(Slot), NEW first \in Nat \ {0}, NEW t,
         Pointing(argv, a, first, t)
  PROVE  \E f : PushRun(argv, a, first, t, f)
<1> DEFINE arr == argv[a]
           N == Len(arr)
           G == [i \in 1 .. N |-> [x \in Seq(Words) |-> Push(arr, first, t, i, x)]]
           Is(f) == f = [i \in 0 .. N |->
                           IF i < first THEN <<>>
                           ELSE IF i > first /\ Nests(arr[i - 1]) THEN f[i - 1] \o t[arr[i].to]
                           ELSE IF Nests(arr[i]) THEN f[i - 1]
                           ELSE Append(f[i - 1], arr[i].s)]
           h == CHOOSE f : Is(f)
<1>0. N \in Nat
  OBVIOUS
<1>1. ASSUME NEW i \in 1 .. N, NEW x \in Seq(Words)
      PROVE  Push(arr, first, t, i, x) \in Seq(Words)
  <2>1. arr[i].s \in Words
    <3>1. arr[i] \in Slot
      OBVIOUS
    <3> HIDE DEF arr
    <3> QED
      BY <3>1 DEF Slot
  <2>2. i > first /\ Nests(arr[i - 1]) => t[arr[i].to] \in Seq(Words)
    BY DEF Pointing
  <2>3. <<>> \in Seq(Words)
    OBVIOUS
  <2> HIDE DEF arr, N
  <2> QED
    BY <2>1, <2>2, <2>3 DEF Push
<1>2. Loops(Seq(Words), N, <<>>, G) # {}
  <2>1. \A n \in 1 .. N : \A x \in Seq(Words) : G[n][x] \in Seq(Words)
    BY <1>1
  <2>2. <<>> \in Seq(Words)
    OBVIOUS
  <2> HIDE DEF G, N, Is, h
  <2> QED
    BY <1>0, <2>1, <2>2, LoopRuns
<1>3. PICK f \in [0 .. N -> Seq(Words)] :
        f[0] = <<>> /\ \A i \in 1 .. N : f[i] = Push(arr, first, t, i, f[i - 1])
  <2>1. PICK f \in [0 .. N -> Seq(Words)] : f[0] = <<>> /\ \A i \in 1 .. N : f[i] = G[i][f[i - 1]]
    <3> HIDE DEF G, N, Is
    <3> QED
      BY <1>2 DEF Loops
  <2>2. ASSUME NEW i \in 1 .. N PROVE f[i] = Push(arr, first, t, i, f[i - 1])
    <3>1. i - 1 \in 0 .. N
      BY <1>0
    <3> HIDE DEF N
    <3> QED
      BY <2>1, <3>1
  <2> QED
    BY <2>1, <2>2
<1>4. Is(f)
  <2> HIDE DEF arr, N
  <2>1. ASSUME NEW i \in 0 .. N
        PROVE  f[i] = IF i < first THEN <<>>
                      ELSE IF i > first /\ Nests(arr[i - 1]) THEN f[i - 1] \o t[arr[i].to]
                      ELSE IF Nests(arr[i]) THEN f[i - 1]
                      ELSE Append(f[i - 1], arr[i].s)
    <3>1. CASE i = 0
      <4>1. i < first
        BY <3>1
      <4> QED
        BY <1>3, <3>1, <4>1
    <3>2. CASE i # 0
      <4>1. i \in 1 .. N
        BY <1>0, <3>2
      <4> QED
        BY <1>3, <4>1 DEF Push
    <3> QED
      BY <3>1, <3>2
  <2> QED
    BY <1>3, <2>1
<1>5. Is(h)
  <2> HIDE DEF Is
  <2> QED
    BY <1>4
<1>6. Walked(argv, a, first, t) = h[N]
  BY DEF Walked
<1> HIDE DEF h
<1>7. h[0] = <<>> /\ \A i \in 1 .. N : h[i] = Push(arr, first, t, i, h[i - 1])
  <2> HIDE DEF arr, N
  <2>1. h[0] = <<>>
    <3>1. 0 \in 0 .. N /\ 0 < first
      BY <1>0
    <3> QED
      BY <1>5, <3>1
  <2>2. ASSUME NEW i \in 1 .. N PROVE h[i] = Push(arr, first, t, i, h[i - 1])
    <3>1. i \in 0 .. N
      BY <1>0
    <3> QED
      BY <1>5, <3>1 DEF Push
  <2> QED
    BY <2>1, <2>2
<1>8. h \in [0 .. N -> Seq(Words)]
  <2> DEFINE Q == [n \in 0 .. N |-> Seq(Words)]
  <2>1. h[0] \in Q[0]
    <3>1. 0 \in 0 .. N
      BY <1>0
    <3> HIDE DEF N
    <3> QED
      BY <1>7, <3>1
  <2>2. ASSUME NEW n \in 1 .. N, h[n - 1] \in Q[n - 1] PROVE h[n] \in Q[n]
    <3>1. n \in 0 .. N /\ n - 1 \in 0 .. N
      BY <1>0
    <3> HIDE DEF N, arr
    <3> QED
      BY <1>1, <1>7, <2>2, <3>1
  <2>3. \A n \in 0 .. N : h[n] \in Q[n]
    <3> HIDE DEF N, Q
    <3> QED
      BY <1>0, <2>1, <2>2, Rounds
  <2>4. \A n \in 0 .. N : h[n] \in Seq(Words)
    BY <2>3
  <2>5. h = [n \in 0 .. N |-> h[n]]
    <3> HIDE DEF N, arr
    <3> QED
      BY <1>5
  <2> HIDE DEF N
  <2> QED
    BY <2>4, <2>5
<1> QED
  BY <1>6, <1>7, <1>8 DEF PushRun

(* What an item of the command line stands for, if t[b] is what is in file b. *)
Said(i, t) == IF Nests(i) THEN t[i.file] ELSE <<i.s>>
Typed(line, a, t) == Concat([i \in DOMAIN line[a] |-> Said(line[a][i], t)])

Lead(line, a) == IF a = Len(line) THEN <<>> ELSE <<Entry(<<"f">>)>>
Laid(line, a) == [i \in DOMAIN line[a] |-> Entries(line[a][i])]

LEMMA ArgvIs ==
  ASSUME NEW line, Fine(line), NEW a \in 1 .. Len(line)
  PROVE  /\ Argv(line)[a] = Lead(line, a) \o Concat(Laid(line, a))
         /\ Laid(line, a) \in Seq(Seq(Slot)) /\ Len(Laid(line, a)) = Len(line[a])
         /\ line[a] \in Seq(Item) /\ Len(line[a]) \in Nat
         /\ DOMAIN Argv(line) = 1 .. Len(line) /\ Len(Argv(line)) = Len(line)
<1>1. line[a] \in Seq(Item) /\ DOMAIN line = 1 .. Len(line) /\ Len(line) \in Nat
  BY DEF Fine
<1>2. ASSUME NEW i \in 1 .. Len(line[a])
      PROVE  line[a][i] \in Item /\ Entries(line[a][i]) \in Seq(Slot)
  <2>1. line[a][i] \in Item
    BY <1>1
  <2> HIDE DEF Item, Slot
  <2> QED
    BY <2>1, EntryShape
<1>3. DOMAIN line[a] = 1 .. Len(line[a]) /\ Len(line[a]) \in Nat
  BY <1>1
<1>4. Laid(line, a) \in Seq(Seq(Slot)) /\ Len(Laid(line, a)) = Len(line[a])
  BY <1>2, <1>3 DEF Laid
<1>5. Argv(line)[a] = Lead(line, a) \o Concat(Laid(line, a))
  BY <1>1 DEF Argv, Laid, Lead
<1>6. DOMAIN Argv(line) = 1 .. Len(line) /\ Len(Argv(line)) = Len(line)
  BY <1>1 DEF Argv
<1> QED
  BY <1>1, <1>3, <1>4, <1>5, <1>6

LEMMA SaidWords ==
  ASSUME NEW line, Fine(line), NEW a \in 1 .. Len(line), NEW t,
         \A b \in 1 .. a - 1 : t[b] \in Seq(Words)
  PROVE  LET ss == [i \in DOMAIN line[a] |-> Said(line[a][i], t)] IN
         /\ ss \in Seq(Seq(Words)) /\ Len(ss) = Len(line[a])
         /\ Typed(line, a, t) \in Seq(Words)
<1> DEFINE ss == [i \in DOMAIN line[a] |-> Said(line[a][i], t)]
<1>1. line[a] \in Seq(Item) /\ DOMAIN line[a] = 1 .. Len(line[a]) /\ Len(line[a]) \in Nat
  BY DEF Fine
<1>2. ASSUME NEW i \in 1 .. Len(line[a]) PROVE Said(line[a][i], t) \in Seq(Words)
  <2>1. line[a][i] \in Item
    BY <1>1
  <2>2. line[a][i].s \in Words
    BY <2>1 DEF Item
  <2>3. Nests(line[a][i]) => line[a][i].file \in 1 .. a - 1
    BY <1>1 DEF Fine
  <2> QED
    BY <2>2, <2>3 DEF Said
<1>3. ss \in Seq(Seq(Words)) /\ Len(ss) = Len(line[a])
  BY <1>1, <1>2
<1>4. Concat(ss) \in Seq(Words)
  <2>1. PICK p : Runs(Words, ss, p)
    BY <1>3, ConcatRuns
  <2>2. Len(ss) \in 0 .. Len(ss)
    BY <1>1, <1>3
  <2> HIDE DEF ss
  <2> QED
    BY <2>1, <2>2 DEF Runs
<1> QED
  BY <1>3, <1>4 DEF Typed

------------------------------------------------------------------------------
(* What a walk over the arrays pushes                                        *)

From(line, a) == IF a = Len(line) THEN 1 ELSE 2

(* A walk over the array of a file pushes what its items stand for: walked *)
(* up to the end of item n, it has pushed what the first n items stand for. *)
LEMMA WalkedIs ==
  ASSUME NEW line, Fine(line), NEW a \in 1 .. Len(line), NEW t,
         \A b \in 1 .. a - 1 : t[b] \in Seq(Words)
  PROVE  Walked(Argv(line), a, From(line, a), t) = Typed(line, a, t)
<1> DEFINE argv == Argv(line)
           arr == argv[a]
           lead == Lead(line, a)
           d == Len(lead)
           E == Laid(line, a)
           K == Len(line[a])
           ss == [i \in DOMAIN line[a] |-> Said(line[a][i], t)]
           first == From(line, a)
<1>1. /\ arr = lead \o Concat(E) /\ E \in Seq(Seq(Slot)) /\ Len(E) = K
      /\ line[a] \in Seq(Item) /\ K \in Nat
  BY ArgvIs
<1>2. ss \in Seq(Seq(Words)) /\ Len(ss) = K
  BY SaidWords
<1>3. lead \in Seq(Slot) /\ d \in Nat /\ first = d + 1 /\ (d = 0 \/ d = 1)
  <2>1. Entry(<<"f">>) \in Slot
    <3>1. <<"f">> \in Words
      <4> DEFINE f == "f"
      <4>1. f \in Letters
        BY DEF Letters
      <4> HIDE DEF f
      <4>2. <<f>> \in Seq(Letters)
        BY <4>1
      <4> QED
        BY <4>2 DEF f, Words
    <3> HIDE DEF Words
    <3> QED
      BY <3>1 DEF Entry, Slot
  <2> HIDE DEF Slot
  <2>2. CASE a = Len(line)
    BY <2>2 DEF Lead, From
  <2>3. CASE a # Len(line)
    BY <2>1, <2>3 DEF Lead, From
  <2> QED
    BY <2>2, <2>3
<1>4. ASSUME NEW n \in 1 .. K
      PROVE  /\ line[a][n] \in Item /\ E[n] = Entries(line[a][n]) /\ ss[n] = Said(line[a][n], t)
             /\ Nests(line[a][n]) => line[a][n].file \in 1 .. a - 1
  <2>1. DOMAIN line[a] = 1 .. K /\ line[a][n] \in Item
    BY <1>1
  <2>2. Nests(line[a][n]) => line[a][n].file \in 1 .. a - 1
    BY <2>1 DEF Fine
  <2> QED
    BY <2>1, <2>2 DEF Laid
<1> HIDE DEF E, ss, lead, first, d
<1>5. PICK p : Runs(Slot, E, p)
  BY <1>1, ConcatRuns
<1>6. PICK q : Runs(Words, ss, q)
  BY <1>2, ConcatRuns
<1>7. /\ arr \in Seq(Slot) /\ Len(arr) = d + Len(Concat(E)) /\ Len(Concat(E)) \in Nat
      /\ \A i \in 1 .. Len(Concat(E)) : arr[d + i] = Concat(E)[i]
  <2> DEFINE w == Concat(E)
  <2>1. w \in Seq(Slot) /\ w = p[K]
    <3>1. Len(E) \in 0 .. Len(E)
      BY <1>1
    <3> QED
      BY <1>1, <1>5, <3>1 DEF Runs
  <2>2. Len(w) \in Nat
    BY <2>1
  <2> HIDE DEF w, arr
  <2>3. /\ lead \o w \in Seq(Slot) /\ Len(lead \o w) = d + Len(w)
        /\ \A i \in 1 .. Len(w) : (lead \o w)[d + i] = w[i]
    BY <1>3, <2>1, JoinedFront DEF d
  <2>4. arr = lead \o w
    BY <1>1 DEF w
  <2> QED
    BY <2>2, <2>3, <2>4 DEF w
<1>8. ASSUME NEW n \in 1 .. K
      PROVE  /\ Len(p[n - 1]) \in Nat /\ Len(E[n]) \in Nat
             /\ Len(p[n]) = Len(p[n - 1]) + Len(E[n])
             /\ Len(p[n]) <= Len(Concat(E))
  <2>1. n \in 1 .. Len(E)
    BY <1>1
  <2> HIDE DEF argv, arr
  <2> QED
    BY <1>1, <1>5, <2>1, RunsLength
<1>9. ASSUME NEW n \in 1 .. K, NEW i \in 1 .. Len(E[n])
      PROVE  /\ d + Len(p[n - 1]) + i \in 1 .. Len(arr)
             /\ arr[d + Len(p[n - 1]) + i] = E[n][i]
  <2> DEFINE x == Len(p[n - 1]) + i
             w == Concat(E)
  <2>1. x \in 1 .. Len(w) /\ w[x] = E[n][i]
    BY <1>1, <1>5, RunsAt
  <2>2. x = Len(p[n - 1]) + i /\ Len(p[n - 1]) \in Nat /\ i \in Int
    BY <1>8
  <2>3. Len(arr) = d + Len(w) /\ Len(w) \in Nat /\ arr[d + x] = w[x]
    <3> HIDE DEF arr, w, x
    <3> QED
      BY <1>7, <2>1 DEF w
  <2> HIDE DEF arr, w, x
  <2>4. d + Len(p[n - 1]) + i = d + x /\ d + x \in 1 .. Len(arr)
    BY <1>3, <2>1, <2>2, <2>3
  <2> QED
    BY <2>1, <2>3, <2>4
<1>10. ASSUME NEW i \in 1 .. Len(arr), i > d
       PROVE  \E n \in 1 .. K : \E j \in 1 .. Len(E[n]) : i = d + Len(p[n - 1]) + j
  <2> DEFINE w == Concat(E)
  <2>1. i - d \in 1 .. Len(w)
    <3>1. Len(arr) = d + Len(w) /\ Len(w) \in Nat
      BY <1>7
    <3> HIDE DEF arr, w
    <3> QED
      BY <1>3, <1>10, <3>1
  <2>2. PICK n \in 1 .. Len(E) : \E j \in 1 .. Len(E[n]) : i - d = Len(p[n - 1]) + j
    <3> HIDE DEF arr
    <3>0. E \in Seq(Seq(Slot)) /\ Runs(Slot, E, p)
      BY <1>1, <1>5
    <3>1. ASSUME NEW m \in 1 .. Len(Concat(E))
          PROVE  Covers(E, p, m)
      BY <3>0, RunsCover
    <3> QED
      BY <2>1, <3>1 DEF Covers
  <2>3. PICK j \in 1 .. Len(E[n]) : i - d = Len(p[n - 1]) + j
    BY <2>2
  <2>4. n \in 1 .. K
    BY <1>1
  <2>5. Len(p[n - 1]) \in Nat
    BY <1>8, <2>4
  <2>6. i = d + Len(p[n - 1]) + j
    <3> HIDE DEF arr
    <3> QED
      BY <1>3, <2>3, <2>5
  <2> QED
    BY <2>4, <2>6
<1>11. ASSUME NEW n \in 1 .. K
       PROVE  /\ Len(E[n]) = (IF Nests(line[a][n]) THEN 2 ELSE 1)
              /\ E[n][1].s = line[a][n].s
              /\ Nests(line[a][n]) => E[n][2].to = line[a][n].file
              /\ Nests(E[n][1]) <=> Nests(line[a][n])
              /\ ~ Nests(E[n][Len(E[n])])
  <2>1. line[a][n] \in Item /\ E[n] = Entries(line[a][n])
    BY <1>4
  <2> QED
    BY <2>1, EntryShape
<1>12. ASSUME NEW n \in 1 .. K PROVE ~ Nests(arr[d + Len(p[n])])
  <2>1. Len(E[n]) \in 1 .. Len(E[n])
    BY <1>11
  <2>2. arr[d + Len(p[n - 1]) + Len(E[n])] = E[n][Len(E[n])]
    BY <1>9, <2>1
  <2>3. d + Len(p[n - 1]) + Len(E[n]) = d + Len(p[n])
    <3> DEFINE x == Len(p[n - 1])
               y == Len(p[n])
               z == Len(E[n])
    <3>1. x \in Nat /\ z \in Nat /\ y = x + z
      BY <1>8
    <3> HIDE DEF x, y, z
    <3>2. d + x + z = d + y
      BY <1>3, <3>1
    <3> QED
      BY <3>2 DEF x, y, z
  <2> HIDE DEF arr
  <2> QED
    BY <1>11, <2>2, <2>3
<1>13. ASSUME NEW i \in 1 .. Len(arr), i > first, Nests(arr[i - 1])
       PROVE  t[arr[i].to] \in Seq(Words)
  <2>0. i - 1 \in 1 .. Len(arr) /\ i - 1 > d /\ i \in Int
    BY <1>3, <1>13
  <2>1. PICK n \in 1 .. K : \E j \in 1 .. Len(E[n]) : i - 1 = d + Len(p[n - 1]) + j
    BY <1>10, <2>0
  <2>2. PICK j \in 1 .. Len(E[n]) : i - 1 = d + Len(p[n - 1]) + j
    BY <2>1
  <2> DEFINE x == d + Len(p[n - 1])
  <2>3. x \in Nat /\ i - 1 = x + j /\ j \in Int
    BY <1>3, <1>8, <2>2
  <2>4. arr[i - 1] = E[n][j]
    <3>1. arr[d + Len(p[n - 1]) + j] = E[n][j]
      BY <1>9
    <3> HIDE DEF arr
    <3> QED
      BY <2>2, <3>1
  <2>5. Nests(E[n][j])
    <3> HIDE DEF arr
    <3> QED
      BY <1>13, <2>4
  <2>6. j = 1 /\ Nests(line[a][n]) /\ Len(E[n]) = 2
    <3>1. j # Len(E[n])
      BY <1>11, <2>5
    <3>2. Len(E[n]) = (IF Nests(line[a][n]) THEN 2 ELSE 1)
      BY <1>11
    <3> HIDE DEF arr
    <3> QED
      BY <3>1, <3>2
  <2>7. 2 \in 1 .. Len(E[n]) /\ i = x + 2
    <3> HIDE DEF x, arr
    <3> QED
      BY <2>0, <2>3, <2>6
  <2>8. arr[i] = E[n][2]
    <3>1. arr[d + Len(p[n - 1]) + 2] = E[n][2]
      BY <1>9, <2>7
    <3> HIDE DEF arr
    <3> QED
      BY <2>7, <3>1
  <2>9. line[a][n].file \in 1 .. a - 1 /\ E[n][2].to = line[a][n].file
    BY <1>4, <1>11, <2>6
  <2> HIDE DEF arr
  <2> QED
    BY <2>8, <2>9
<1>14. PICK f \in [0 .. Len(arr) -> Seq(Words)] :
         /\ f[0] = <<>>
         /\ \A i \in 1 .. Len(arr) : f[i] = Push(arr, first, t, i, f[i - 1])
         /\ Walked(argv, a, first, t) = f[Len(arr)]
  <2>1. first \in Nat \ {0}
    BY <1>3
  <2>2. argv[a] \in Seq(Slot)
    BY <1>7
  <2>3. Pointing(argv, a, first, t)
    BY <1>13 DEF Pointing
  <2>4. \E f : PushRun(argv, a, first, t, f)
    <3> HIDE DEF argv
    <3> QED
      BY <2>1, <2>2, <2>3, PushedRuns
  <2> QED
    BY <2>4 DEF PushRun
<1> HIDE DEF argv, arr
<1>15. ASSUME NEW n \in 1 .. K, f[d + Len(p[n - 1])] = q[n - 1]
       PROVE  f[d + Len(p[n])] = q[n]
  <2> DEFINE x == d + Len(p[n - 1])
  <2>1. /\ x \in Nat /\ d + Len(p[n]) = x + Len(E[n]) /\ x >= d
        /\ Len(E[n]) = (IF Nests(line[a][n]) THEN 2 ELSE 1)
    <3> DEFINE y == Len(p[n - 1])
               z == Len(E[n])
               w == Len(p[n])
    <3>1. y \in Nat /\ z \in Nat /\ w = y + z
      BY <1>8
    <3>2. z = (IF Nests(line[a][n]) THEN 2 ELSE 1)
      BY <1>11
    <3> HIDE DEF w, y, z
    <3>3. d + y \in Nat /\ d + w = (d + y) + z /\ d + y >= d
      BY <1>3, <3>1
    <3> QED
      BY <3>2, <3>3 DEF w, y, z
  <2>2. \A j \in 1 .. Len(E[n]) : x + j \in 1 .. Len(arr) /\ arr[x + j] = E[n][j]
    BY <1>9
  <2>3. q[n] = q[n - 1] \o Said(line[a][n], t) /\ q[n - 1] \in Seq(Words)
    <3>1. n \in 1 .. Len(ss) /\ ss[n] = Said(line[a][n], t)
      BY <1>2, <1>4
    <3> QED
      BY <1>2, <1>6, <3>1, RunsLength
  <2>4. x + 1 > first => ~ Nests(arr[(x + 1) - 1])
    <3> SUFFICES ASSUME x + 1 > first PROVE ~ Nests(arr[(x + 1) - 1])
      OBVIOUS
    <3>1. n - 1 \in 1 .. K
      <4>1. n # 1
        <5> SUFFICES ASSUME n = 1 PROVE FALSE
          OBVIOUS
        <5>1. p[0] = <<>>
          BY <1>5 DEF Runs
        <5>2. x = d
          BY <1>3, <5>1
        <5> HIDE DEF x
        <5> QED
          BY <1>3, <5>2
      <4> QED
        BY <1>1, <4>1
    <3>2. ~ Nests(arr[x])
      BY <1>12, <3>1
    <3>3. (x + 1) - 1 = x
      BY <2>1
    <3> QED
      BY <3>2, <3>3
  <2>5. f[x] = q[n - 1]
    BY <1>15
  <2>6. x + 1 \in 1 .. Len(arr) /\ arr[x + 1] = E[n][1] /\ (x + 1) - 1 = x /\ x + 1 >= first
    <3>1. 1 \in 1 .. Len(E[n])
      BY <2>1
    <3>2. x + 1 \in 1 .. Len(arr) /\ arr[x + 1] = E[n][1]
      BY <2>2, <3>1
    <3> HIDE DEF x
    <3> QED
      BY <1>3, <2>1, <3>2
  <2> HIDE DEF x
  <2>7. f[x + 1] = Push(arr, first, t, x + 1, q[n - 1])
    BY <1>14, <2>5, <2>6
  <2>8. ~ (x + 1 < first)
    BY <1>3, <2>1, <2>6
  <2>9. E[n][1].s = line[a][n].s /\ (Nests(E[n][1]) <=> Nests(line[a][n]))
    BY <1>11
  <2>10. CASE ~ Nests(line[a][n])
    <3>1. f[x + 1] = Append(q[n - 1], line[a][n].s)
      BY <2>4, <2>6, <2>7, <2>8, <2>9, <2>10 DEF Push
    <3>2. Append(q[n - 1], line[a][n].s) = q[n - 1] \o <<line[a][n].s>>
      BY <2>3
    <3>3. d + Len(p[n]) = x + 1
      BY <2>1, <2>10
    <3> QED
      BY <2>3, <2>10, <3>1, <3>2, <3>3 DEF Said
  <2>11. CASE Nests(line[a][n])
    <3>1. f[x + 1] = q[n - 1]
      BY <2>4, <2>6, <2>7, <2>8, <2>9, <2>11 DEF Push
    <3>2. 2 \in 1 .. Len(E[n]) /\ d + Len(p[n]) = x + 2 /\ (x + 2) - 1 = x + 1
      BY <2>1, <2>11
    <3>3. x + 2 \in 1 .. Len(arr) /\ arr[x + 2] = E[n][2]
      BY <2>2, <3>2
    <3>4. f[x + 2] = Push(arr, first, t, x + 2, q[n - 1])
      BY <1>14, <3>1, <3>2, <3>3
    <3>5. ~ (x + 2 < first) /\ x + 2 > first
      BY ONLY <1>3, <2>1
    <3>6. Nests(arr[(x + 2) - 1])
      BY <2>6, <2>9, <2>11, <3>2
    <3>7. f[x + 2] = q[n - 1] \o t[E[n][2].to]
      BY <3>3, <3>4, <3>5, <3>6 DEF Push
    <3>8. E[n][2].to = line[a][n].file
      BY <1>11, <2>11
    <3> QED
      BY <2>3, <2>11, <3>2, <3>7, <3>8 DEF Said
  <2> QED
    BY <2>10, <2>11
<1>16. f[d + Len(p[0])] = q[0]
  <2>1. p[0] = <<>> /\ q[0] = <<>>
    BY <1>5, <1>6 DEF Runs
  <2>2. d + Len(p[0]) = d
    BY <1>3, <2>1
  <2>3. f[d] = <<>>
    <3>1. CASE d = 0
      BY <1>14, <3>1
    <3>2. CASE d = 1
      <4>1. 1 \in 1 .. Len(arr) /\ 1 < first
        <5>1. Len(arr) = d + Len(Concat(E)) /\ Len(Concat(E)) \in Nat
          BY <1>7
        <5> QED
          BY <1>3, <3>2, <5>1
      <4> QED
        BY <1>14, <3>2, <4>1 DEF Push
    <3> QED
      BY <1>3, <3>1, <3>2
  <2> QED
    BY <2>1, <2>2, <2>3
<1>17. f[d + Len(p[K])] = q[K]
  <2> DEFINE k == [n \in 0 .. K |-> f[d + Len(p[n])]]
             Q == [n \in 0 .. K |-> {q[n]}]
  <2>1. k[0] \in Q[0]
    BY <1>1, <1>16
  <2>2. ASSUME NEW n \in 1 .. K, k[n - 1] \in Q[n - 1] PROVE k[n] \in Q[n]
    <3>1. n \in 0 .. K /\ n - 1 \in 0 .. K
      BY <1>1
    <3>2. f[d + Len(p[n - 1])] = q[n - 1]
      BY <2>2, <3>1
    <3>3. f[d + Len(p[n])] = q[n]
      BY <1>15, <3>2
    <3> QED
      BY <3>1, <3>3
  <2>3. \A n \in 0 .. K : k[n] \in Q[n]
    <3> HIDE DEF k, Q, K
    <3> QED
      BY <1>1, <2>1, <2>2, Rounds
  <2>4. K \in 0 .. K
    BY <1>1
  <2> QED
    BY <2>3, <2>4
<1>18. Concat(E) = p[K] /\ Concat(ss) = q[K]
  BY <1>1, <1>2, <1>5, <1>6 DEF Runs
<1>19. Len(arr) = d + Len(p[K])
  BY <1>7, <1>18
<1>20. Typed(line, a, t) = Concat(ss)
  BY DEF Typed, ss
<1> QED
  BY <1>14, <1>17, <1>18, <1>19, <1>20 DEF first, argv

(* The files of a command line one by one: each stands for what was typed in *)
(* it, and both recursions of the model come to that.                        *)
Tabled(line, f) ==
  f \in [1 .. Len(line) -> Seq(Words)] /\ \A a \in 1 .. Len(line) : f[a] = Typed(line, a, f)

LEMMA SaidEarlier ==
  ASSUME NEW line, Fine(line), NEW a \in 1 .. Len(line), NEW t, NEW u,
         \A b \in 1 .. a - 1 : t[b] = u[b]
  PROVE  Typed(line, a, t) = Typed(line, a, u)
<1>1. line[a] \in Seq(Item) /\ DOMAIN line = 1 .. Len(line)
  BY DEF Fine
<1>2. ASSUME NEW i \in DOMAIN line[a] PROVE Said(line[a][i], t) = Said(line[a][i], u)
  <2>1. Nests(line[a][i]) => line[a][i].file \in 1 .. a - 1
    BY <1>1 DEF Fine
  <2> QED
    BY <2>1 DEF Said
<1>3. [i \in DOMAIN line[a] |-> Said(line[a][i], t)] = [i \in DOMAIN line[a] |-> Said(line[a][i], u)]
  BY <1>2
<1> QED
  BY <1>3 DEF Typed

LEMMA TableExists ==
  ASSUME NEW line, Fine(line)
  PROVE  \E f : Tabled(line, f)
<1> DEFINE N == Len(line)
           S == Seq(Words)
           G == [a \in 1 .. N |-> [t \in [1 .. a - 1 -> S] |-> Typed(line, a, t)]]
<1>0. N \in Nat
  BY DEF Fine
<1>1. \A a \in 1 .. N : \A t \in [1 .. a - 1 -> S] : G[a][t] \in S
  <2> SUFFICES ASSUME NEW a \in 1 .. N, NEW t \in [1 .. a - 1 -> S]
               PROVE  Typed(line, a, t) \in S
    OBVIOUS
  <2>1. \A b \in 1 .. a - 1 : t[b] \in Seq(Words)
    OBVIOUS
  <2> QED
    BY <2>1, SaidWords
<1>2. PICK f \in [1 .. N -> S] : \A a \in 1 .. N : f[a] = G[a][[b \in 1 .. a - 1 |-> f[b]]]
  <2> HIDE DEF S, G, N
  <2>1. PICK f : MadeBy(S, N, G, f)
    BY <1>0, <1>1, Tables
  <2> QED
    BY <2>1 DEF MadeBy
<1>3. ASSUME NEW a \in 1 .. N PROVE f[a] = Typed(line, a, f)
  <2> DEFINE t == [b \in 1 .. a - 1 |-> f[b]]
  <2>1. t \in [1 .. a - 1 -> S]
    <3>1. \A b \in 1 .. a - 1 : b \in 1 .. N
      BY <1>0
    <3> HIDE DEF N, S
    <3> QED
      BY <3>1
  <2>2. f[a] = Typed(line, a, t)
    <3>1. f[a] = G[a][t]
      BY <1>2
    <3> HIDE DEF t, S
    <3> QED
      BY <2>1, <3>1
  <2>3. \A b \in 1 .. a - 1 : t[b] = f[b]
    OBVIOUS
  <2> HIDE DEF t
  <2>4. Typed(line, a, t) = Typed(line, a, f)
    BY <2>3, SaidEarlier
  <2> QED
    BY <2>2, <2>4
<1> QED
  BY <1>3 DEF Tabled

LEMMA LeavesAre ==
  ASSUME NEW line, Fine(line), NEW f, Tabled(line, f)
  PROVE  Leaves(line) = f[Len(line)]
<1> DEFINE N == Len(line)
           Is(h) == h = [a \in DOMAIN line |->
                          Concat([i \in DOMAIN line[a] |->
                                    IF Nests(line[a][i]) THEN h[line[a][i].file]
                                    ELSE <<line[a][i].s>>])]
           k == CHOOSE h : Is(h)
<1>0. DOMAIN line = 1 .. N /\ N \in Nat /\ N \in 1 .. N
  BY DEF Fine
<1>1. ASSUME NEW h, NEW a \in 1 .. N
      PROVE  Concat([i \in DOMAIN line[a] |-> IF Nests(line[a][i]) THEN h[line[a][i].file]
                                              ELSE <<line[a][i].s>>]) = Typed(line, a, h)
  BY DEF Typed, Said
<1>2. Is(f)
  <2>1. \A a \in 1 .. N : f[a] = Typed(line, a, f)
    BY DEF Tabled
  <2>2. f = [a \in 1 .. N |-> Typed(line, a, f)]
    BY <2>1 DEF Tabled
  <2> HIDE DEF N
  <2> QED
    BY <1>0, <1>1, <2>2
<1>3. Is(k)
  <2> HIDE DEF Is
  <2> QED
    BY <1>2
<1>4. Leaves(line) = k[N]
  BY DEF Leaves
<1> HIDE DEF k, N
<1>5. \A a \in 1 .. N : k[a] = Typed(line, a, k)
  BY <1>0, <1>1, <1>3
<1> DEFINE T == {a \in 1 .. N : k[a] = f[a]}
<1>6. ASSUME NEW a \in 1 .. N, \A b \in 1 .. a - 1 : b \in T PROVE a \in T
  <2>1. \A b \in 1 .. a - 1 : k[b] = f[b]
    BY <1>6
  <2>2. Typed(line, a, k) = Typed(line, a, f)
    BY <2>1, SaidEarlier DEF N
  <2>3. f[a] = Typed(line, a, f)
    BY DEF Tabled, N
  <2> QED
    BY <1>5, <2>2, <2>3
<1>7. \A a \in 1 .. N : a \in T
  <2> HIDE DEF T
  <2> QED
    BY <1>0, <1>6, Below
<1> QED
  BY <1>0, <1>4, <1>7 DEF N

LEMMA WalkIs ==
  ASSUME NEW line, Fine(line), NEW f, Tabled(line, f)
  PROVE  walk_level(Argv(line)) = f[Len(line)]
<1> DEFINE N == Len(line)
           argv == Argv(line)
           Is(h) == h = [a \in DOMAIN argv |->
                           Walked(argv, a, IF a = Len(argv) THEN 1 ELSE 2, h)]
           k == CHOOSE h : Is(h)
<1>0. N \in Nat /\ N \in 1 .. N /\ DOMAIN argv = 1 .. N /\ Len(argv) = N
  <2>1. N \in Nat /\ N \in 1 .. N
    BY DEF Fine
  <2> QED
    BY <2>1, ArgvIs
<1>1. ASSUME NEW h, NEW a \in 1 .. N, \A b \in 1 .. a - 1 : h[b] = f[b]
      PROVE  Walked(argv, a, From(line, a), h) = f[a]
  <2>1. \A b \in 1 .. a - 1 : h[b] \in Seq(Words)
    <3>1. \A b \in 1 .. a - 1 : b \in 1 .. N
      BY <1>0
    <3> QED
      BY <1>1, <3>1 DEF Tabled
  <2>2. Walked(argv, a, From(line, a), h) = Typed(line, a, h)
    BY <2>1, WalkedIs
  <2>3. Typed(line, a, h) = Typed(line, a, f)
    BY <1>1, SaidEarlier
  <2>4. f[a] = Typed(line, a, f)
    BY DEF Tabled
  <2> QED
    BY <2>2, <2>3, <2>4
<1>2. Is(f)
  <2>1. ASSUME NEW a \in 1 .. N PROVE f[a] = Walked(argv, a, From(line, a), f)
    BY <1>1
  <2>2. f = [a \in 1 .. N |-> f[a]]
    BY DEF Tabled
  <2> HIDE DEF argv
  <2>3. f = [a \in 1 .. N |-> Walked(argv, a, From(line, a), f)]
    <3> HIDE DEF N
    <3> QED
      BY <2>1, <2>2
  <2> QED
    BY <1>0, <2>3 DEF From
<1>3. Is(k)
  <2> HIDE DEF Is
  <2> QED
    BY <1>2
<1>4. walk_level(argv) = k[N]
  BY <1>0 DEF walk_level
<1> HIDE DEF k, argv
<1>5. \A a \in 1 .. N : k[a] = Walked(argv, a, From(line, a), k)
  BY <1>0, <1>3 DEF From
<1> DEFINE T == {a \in 1 .. N : k[a] = f[a]}
<1>6. ASSUME NEW a \in 1 .. N, \A b \in 1 .. a - 1 : b \in T PROVE a \in T
  <2>1. \A b \in 1 .. a - 1 : k[b] = f[b]
    BY <1>6
  <2>2. Walked(argv, a, From(line, a), k) = f[a]
    BY <1>1, <2>1
  <2> QED
    BY <1>5, <2>2
<1>7. \A a \in 1 .. N : a \in T
  <2> HIDE DEF T, N
  <2> QED
    BY <1>0, <1>6, Below
<1>8. k[N] = f[N]
  BY <1>0, <1>7
<1> QED
  BY <1>4, <1>8 DEF argv

LEMMA WalkIsLeaves ==
  ASSUME NEW line, Fine(line)
  PROVE  walk_level(Argv(line)) = Leaves(line) /\ Leaves(line) \in Seq(Words)
<1>1. PICK f : Tabled(line, f)
  BY TableExists
<1>2. f[Len(line)] \in Seq(Words)
  <2>1. Len(line) \in 1 .. Len(line)
    BY DEF Fine
  <2> QED
    BY <1>1, <2>1 DEF Tabled
<1> QED
  BY <1>1, <1>2, LeavesAre, WalkIs

------------------------------------------------------------------------------
(* The arguments, handed out and fetched                                     *)

LEMMA LinesFine ==
  ASSUME NEW t \in Tests
  PROVE  Fine(t.line)
<1> DEFINE I == [s : Seq(STRING), file : Nat]
<1>1. /\ Len(t.line) > 0 /\ t.line \in Seq(Seq(I))
      /\ \A a \in DOMAIN t.line : \A i \in DOMAIN t.line[a] :
           Nests(t.line[a][i]) => t.line[a][i].file \in 1 .. a - 1
  BY LineAssumption
<1>2. I \subseteq Item
  <2>1. STRING \subseteq Letters
    BY DEF Letters
  <2>2. Seq(STRING) \subseteq Words
    <3> DEFINE X == STRING
    <3>1. X \subseteq Letters
      BY <2>1
    <3> HIDE DEF X
    <3>2. Seq(X) \subseteq Seq(Letters)
      BY <3>1
    <3> QED
      BY <3>2 DEF X, Words
  <2> HIDE DEF Words
  <2> QED
    BY <2>2 DEF Item
<1> HIDE DEF I, Item
<1>3. Seq(I) \subseteq Seq(Item)
  BY <1>2
<1>4. Seq(Seq(I)) \subseteq Seq(Seq(Item))
  <2> DEFINE X == Seq(I)
             Y == Seq(Item)
  <2>1. X \subseteq Y
    BY <1>3
  <2> HIDE DEF X, Y
  <2>2. Seq(X) \subseteq Seq(Y)
    BY <2>1
  <2> QED
    BY <2>2 DEF X, Y
<1>5. t.line \in Seq(Seq(Item))
  BY <1>1, <1>4
<1> QED
  BY <1>1, <1>5 DEF Fine

LEMMA UptoEmpty ==
  ASSUME NEW all \in Seq(Words)
  PROVE  /\ Upto(all) \in 0 .. Len(all)
         /\ Upto(all) < Len(all) => all[Upto(all) + 1] = <<>>
<1> DEFINE empty == {i \in DOMAIN all : all[i] = <<>>}
           e == CHOOSE i \in empty : \A j \in empty : i <= j
<1>0. Len(all) \in Nat /\ DOMAIN all = 1 .. Len(all)
  OBVIOUS
<1>1. CASE empty = {}
  <2>1. Upto(all) = Len(all)
    BY <1>1 DEF Upto
  <2> QED
    BY <1>0, <2>1
<1>2. CASE empty # {}
  <2>1. empty \in SUBSET (1 .. Len(all))
    BY <1>0
  <2>2. e \in empty
    <3> HIDE DEF empty
    <3>1. First(empty) \in empty
      BY <1>0, <1>2, <2>1, FirstIsLeast
    <3> QED
      BY <3>1 DEF First
  <2>3. Upto(all) = e - 1
    BY <1>2 DEF Upto
  <2>4. e \in 1 .. Len(all) /\ all[e] = <<>>
    <3> HIDE DEF e
    <3> QED
      BY <1>0, <2>2
  <2> HIDE DEF e
  <2>5. e - 1 \in 0 .. Len(all) /\ (e - 1) + 1 = e
    BY <1>0, <2>4
  <2> QED
    BY <2>3, <2>4, <2>5
<1> QED
  BY <1>1, <1>2

(* What was fetched is the front of the arguments, and the calls since the   *)
(* last init have handed out the arguments one after another.                *)
FrontOf(got, all) ==
  got # <<>> =>
    /\ got = SubSeq(all, 1, Len(got))
    /\ Len(got) < Len(all) => all[Len(got) + 1] = <<>>
Handed(all) ==
  idx > 0 =>
    /\ argv_stack = all
    /\ argv_ptr = (IF idx <= Len(all) THEN idx ELSE Len(all))
    /\ given = (IF idx <= Len(all) THEN all[idx] ELSE NoArg)

AInv ==
  /\ test \in Tests /\ idx \in Nat
  /\ Handed(Leaves(test.line))
  /\ FrontOf(m_argv, Leaves(test.line))

LEMMA SameTest == CacheNext => test' = test
BY DEF CacheNext, uvm_re_comp, uvm_re_match, uvm_re_free, uvm_re_exec, set_max_size, flush,
       Shrunk

LEMMA AInvKept == AInv /\ [TextNext]_vars => AInv'
<1> SUFFICES ASSUME AInv, [TextNext]_vars PROVE AInv'
  OBVIOUS
<1> DEFINE all == Leaves(test.line)
<1>1. test \in Tests /\ idx \in Nat /\ Handed(all) /\ FrontOf(m_argv, all)
  BY DEF AInv
<1>2. all \in Seq(Words) /\ walk_level(Argv(test.line)) = all /\ Len(all) \in Nat
  <2>1. all \in Seq(Words) /\ walk_level(Argv(test.line)) = all
    BY <1>1, LinesFine, WalkIsLeaves
  <2> QED
    BY <2>1
<1>3. CASE UNCHANGED avars /\ test' = test
  BY <1>1, <1>3 DEF AInv, Handed, avars
<1>4. ASSUME NEW init \in BOOLEAN, uvm_dpi_get_next_arg_c(init) PROVE AInv'
  <2>1. test' = test /\ m_argv' = m_argv
    BY <1>4 DEF uvm_dpi_get_next_arg_c, Aside
  <2> HIDE DEF all
  <2>2. idx' \in Nat /\ Handed(all)'
    <3>0. all' = all
      BY <2>1 DEF all
    <3>1. CASE init
      <4>1. argv_stack' = all
        BY <1>2, <1>4, <3>1 DEF uvm_dpi_get_next_arg_c
      <4>2. /\ idx' = 1
            /\ IF 0 >= Len(all) THEN argv_ptr' = 0 /\ given' = NoArg
               ELSE argv_ptr' = 1 /\ given' = all[1]
        BY <1>4, <3>1, <4>1 DEF uvm_dpi_get_next_arg_c
      <4> QED
        BY <1>2, <3>0, <4>1, <4>2 DEF Handed
    <3>2. CASE ~ init
      <4>1. idx > 0 /\ argv_stack' = argv_stack /\ argv_stack = all
        BY <1>1, <1>4, <3>2 DEF uvm_dpi_get_next_arg_c, Handed
      <4>2. argv_ptr = (IF idx <= Len(all) THEN idx ELSE Len(all))
        BY <1>1, <4>1 DEF Handed
      <4>3. /\ idx' = idx + 1
            /\ IF idx >= Len(all) THEN argv_ptr' = argv_ptr /\ given' = NoArg
               ELSE argv_ptr' = argv_ptr + 1 /\ given' = all[argv_ptr + 1]
        BY <1>4, <3>2, <4>1 DEF uvm_dpi_get_next_arg_c
      <4> QED
        BY <1>1, <1>2, <3>0, <4>1, <4>2, <4>3 DEF Handed
    <3> QED
      BY <3>1, <3>2
  <2> QED
    BY <1>1, <2>1, <2>2 DEF AInv, all
<1>5. CASE new
  <2> DEFINE n == Upto(all)
  <2>1. test' = test /\ argv_stack' = all
    BY <1>2, <1>5 DEF new, Aside
  <2>2. n \in 0 .. Len(all) /\ (n < Len(all) => all[n + 1] = <<>>)
    BY <1>2, UptoEmpty
  <2>3. /\ idx' = n + 1 /\ m_argv' = SubSeq(all, 1, n)
        /\ IF n = Len(all) THEN argv_ptr' = n /\ given' = NoArg
           ELSE argv_ptr' = n + 1 /\ given' = <<>>
    BY <1>5, <2>1 DEF new
  <2>4. all' = all
    BY <2>1
  <2> HIDE DEF all, n
  <2>5. idx' \in Nat /\ Handed(all)'
    BY <1>2, <2>1, <2>2, <2>3, <2>4 DEF Handed
  <2>6. Len(m_argv') = n
    BY <1>2, <2>2, <2>3
  <2>7. FrontOf(m_argv', all)
    BY <2>2, <2>3, <2>6 DEF FrontOf
  <2> QED
    BY <1>1, <2>1, <2>4, <2>5, <2>7 DEF AInv, all
<1>6. ASSUME NEW pattern \in test.patterns, get_arg_matches(pattern) PROVE AInv'
  <2>1. test' = test
    BY <1>6 DEF get_arg_matches, Search, Aside
  <2> QED
    BY <1>1, <1>6, <2>1 DEF get_arg_matches, AInv, Handed
<1> QED
  BY <1>3, <1>4, <1>5, <1>6, SameTest DEF TextNext, ArgsNext, vars, cvars, avars

LEMMA AInvAlways == TextSpec => []AInv
<1>1. TextInit => AInv
  BY DEF TextInit, CacheInit, ArgsInit, AInv, Handed, FrontOf
<1> QED
  BY <1>1, AInvKept, PTL DEF TextSpec

(* The arguments are handed out and fetched in the order they were typed.  *)
THEOREM ArgumentsInOrder == TextSpec => []ArgsInOrder
<1>1. AInv => ArgsInOrder
  BY DEF AInv, ArgsInOrder, Handed, FrontOf
<1> QED
  BY <1>1, AInvAlways, PTL

------------------------------------------------------------------------------
(* What an expression takes, character by character                          *)

(* regexec, character by character of the expression.                      *)
Step(e, p, str, x) ==
  IF e[p] = "\\" \/ Repeats(e, p) THEN x
  ELSE UNION {{k \in j .. Len(str) : Takes(e, p, str, j, k)} : j \in x}

Reaches(e, str, after) ==
  /\ after \in [0 .. Len(e) -> SUBSET (0 .. Len(str))]
  /\ after[0] = 0 .. Len(str)
  /\ \A p \in 1 .. Len(e) : after[p] = Step(e, p, str, after[p - 1])
  /\ regexec(e, str) <=> after[Len(e)] # {}

LEMMA RegexecRuns ==
  ASSUME NEW e, Len(e) \in Nat, NEW str, Len(str) \in Nat
  PROVE  \E after : Reaches(e, str, after)
<1> DEFINE N == Len(e)
           S == SUBSET (0 .. Len(str))
           c == 0 .. Len(str)
           G == [p \in 1 .. N |-> [x \in S |-> Step(e, p, str, x)]]
           Is(f) == f = [p \in 0 .. N |->
                           IF p = 0 THEN 0 .. Len(str)
                           ELSE IF e[p] = "\\" \/ Repeats(e, p) THEN f[p - 1]
                           ELSE UNION {{k \in j .. Len(str) : Takes(e, p, str, j, k)} : j \in f[p - 1]}]
           h == CHOOSE f : Is(f)
<1>0. N \in Nat
  OBVIOUS
<1>1. ASSUME NEW p \in 1 .. N, NEW x \in S PROVE Step(e, p, str, x) \in S
  <2>1. ASSUME NEW j \in x PROVE {k \in j .. Len(str) : Takes(e, p, str, j, k)} \subseteq 0 .. Len(str)
    <3>1. j \in 0 .. Len(str)
      OBVIOUS
    <3> QED
      BY <3>1
  <2> QED
    BY <2>1 DEF Step
<1>2. Loops(S, N, c, G) # {}
  <2>1. \A p \in 1 .. N : \A x \in S : G[p][x] \in S
    BY <1>1
  <2>2. c \in S
    OBVIOUS
  <2> HIDE DEF G, N, Is, h, S, c
  <2> QED
    BY <1>0, <2>1, <2>2, LoopRuns
<1>3. PICK f \in [0 .. N -> S] : f[0] = c /\ \A p \in 1 .. N : f[p] = Step(e, p, str, f[p - 1])
  <2>1. PICK f \in [0 .. N -> S] : f[0] = c /\ \A p \in 1 .. N : f[p] = G[p][f[p - 1]]
    <3> HIDE DEF G, N, Is, S, c
    <3> QED
      BY <1>2 DEF Loops
  <2>2. ASSUME NEW p \in 1 .. N PROVE f[p] = Step(e, p, str, f[p - 1])
    <3>1. p - 1 \in 0 .. N
      BY <1>0
    <3> HIDE DEF N, S
    <3> QED
      BY <2>1, <3>1
  <2> HIDE DEF N, S, c
  <2> QED
    BY <2>1, <2>2
<1>4. Is(f)
  <2> HIDE DEF N, S
  <2>1. ASSUME NEW p \in 0 .. N
        PROVE  f[p] = IF p = 0 THEN 0 .. Len(str)
                      ELSE IF e[p] = "\\" \/ Repeats(e, p) THEN f[p - 1]
                      ELSE UNION {{k \in j .. Len(str) : Takes(e, p, str, j, k)} : j \in f[p - 1]}
    <3>1. CASE p = 0
      BY <1>3, <3>1
    <3>2. CASE p # 0
      <4>1. p \in 1 .. N
        BY <1>0, <3>2
      <4>2. f[p] = Step(e, p, str, f[p - 1])
        BY <1>3, <4>1
      <4> QED
        BY <3>2, <4>2 DEF Step
    <3> QED
      BY <3>1, <3>2
  <2>2. f = [p \in 0 .. N |-> f[p]]
    BY <1>3
  <2> QED
    BY <2>1, <2>2
<1>5. Is(h)
  <2> HIDE DEF Is
  <2> QED
    BY <1>4
<1>6. regexec(e, str) <=> h[N] # {}
  BY DEF regexec
<1> HIDE DEF h
<1>7. h[0] = c /\ \A p \in 1 .. N : h[p] = Step(e, p, str, h[p - 1])
  <2> HIDE DEF N
  <2>1. h[0] = c
    <3>1. 0 \in 0 .. N
      BY <1>0
    <3> QED
      BY <1>5, <3>1
  <2>2. ASSUME NEW p \in 1 .. N PROVE h[p] = Step(e, p, str, h[p - 1])
    <3>1. p \in 0 .. N /\ p # 0
      BY <1>0
    <3> QED
      BY <1>5, <3>1 DEF Step
  <2> QED
    BY <2>1, <2>2
<1>8. h \in [0 .. N -> S]
  <2> DEFINE Q == [n \in 0 .. N |-> S]
  <2>1. h[0] \in Q[0]
    <3>1. 0 \in 0 .. N
      BY <1>0
    <3> HIDE DEF N
    <3> QED
      BY <1>7, <3>1
  <2>2. ASSUME NEW n \in 1 .. N, h[n - 1] \in Q[n - 1] PROVE h[n] \in Q[n]
    <3>1. n \in 0 .. N /\ n - 1 \in 0 .. N
      BY <1>0
    <3> HIDE DEF N, S
    <3> QED
      BY <1>1, <1>7, <2>2, <3>1
  <2>3. \A n \in 0 .. N : h[n] \in Q[n]
    <3> HIDE DEF N, Q
    <3> QED
      BY <1>0, <2>1, <2>2, Rounds
  <2>4. \A n \in 0 .. N : h[n] \in S
    BY <2>3
  <2>5. h = [n \in 0 .. N |-> h[n]]
    <3> HIDE DEF N
    <3> QED
      BY <1>5
  <2> HIDE DEF N, S
  <2> QED
    BY <2>4, <2>5
<1> QED
  BY <1>6, <1>7, <1>8 DEF Reaches

(* Where the characters of a glob g are in the expression e that it becomes: *)
(* those of its i-th character behind st[i], between a ^ and a $.            *)
Shape(e, g, st) ==
  /\ g \in Seq(Letters) /\ \A i \in 1 .. Len(g) : g[i] \notin {"\\", "^", "$"}
  /\ st \in [1 .. Len(g) + 1 -> Nat] /\ st[1] = 1
  /\ \A i \in 1 .. Len(g) : st[i + 1] = st[i] + Len(Expanded(g[i]))
  /\ \A i \in 1 .. Len(g) : \A r \in 1 .. Len(Expanded(g[i])) : e[st[i] + r] = Expanded(g[i])[r]
  /\ Len(e) = st[Len(g) + 1] + 1 /\ e[1] = "^" /\ e[Len(e)] = "$"

LEMMA ExpandedShape ==
  ASSUME NEW c, c \notin {"\\", "^", "$"}
  PROVE  LET w == Expanded(c) IN
         /\ Len(w) \in {1, 2}
         /\ w[1] \notin {"*", "+"} /\ w[Len(w)] # "\\"
<1>1. CASE c \in {"*", "+"}
  BY <1>1 DEF Expanded
<1>2. CASE c \in {".", "[", "]", "(", ")"}
  BY <1>2 DEF Expanded
<1>3. CASE c = "?"
  BY <1>3 DEF Expanded
<1>4. CASE c \notin {"*", "+", ".", "[", "]", "(", ")", "?"}
  BY <1>4 DEF Expanded
<1> QED
  BY <1>1, <1>2, <1>3, <1>4

LEMMA ShapeOne ==
  ASSUME NEW e, NEW g, NEW st, Shape(e, g, st), NEW i \in 1 .. Len(g)
  PROVE  /\ i + 1 \in 1 .. Len(g) + 1 /\ st[i] \in Nat /\ st[i + 1] \in Nat
         /\ Len(Expanded(g[i])) \in {1, 2} /\ st[i + 1] = st[i] + Len(Expanded(g[i]))
         /\ e[st[i] + 1] = Expanded(g[i])[1]
         /\ e[st[i] + 1] \notin {"*", "+"}
         /\ e[st[i + 1]] = Expanded(g[i])[Len(Expanded(g[i]))]
         /\ e[st[i + 1]] # "\\"
<1> DEFINE w == Expanded(g[i])
<1>0. Len(g) \in Nat
  BY DEF Shape
<1>1. i + 1 \in 1 .. Len(g) + 1 /\ i \in 1 .. Len(g) + 1
  BY <1>0
<1>2. st[i] \in Nat /\ st[i + 1] \in Nat
  BY <1>1 DEF Shape
<1>3. Len(w) \in {1, 2} /\ w[1] \notin {"*", "+"} /\ w[Len(w)] # "\\"
  BY ExpandedShape DEF Shape
<1>4. st[i + 1] = st[i] + Len(w) /\ \A r \in 1 .. Len(w) : e[st[i] + r] = w[r]
  BY DEF Shape
<1> HIDE DEF w
<1>5. 1 \in 1 .. Len(w) /\ Len(w) \in 1 .. Len(w)
  BY <1>3
<1>6. e[st[i] + 1] = w[1] /\ e[st[i] + Len(w)] = w[Len(w)]
  BY <1>4, <1>5
<1> QED
  BY <1>1, <1>2, <1>3, <1>4, <1>6 DEF w

LEMMA ShapeBounds ==
  ASSUME NEW e, NEW g, NEW st, Shape(e, g, st), NEW i \in 1 .. Len(g) + 1
  PROVE  /\ st[i] \in Nat /\ st[i] >= 1 /\ st[i] + 1 <= Len(e) /\ Len(e) \in Nat
         /\ e[st[i]] # "\\" /\ e[st[i] + 1] \notin {"*", "+"}
<1> DEFINE L == Len(g)
           top == st[L + 1]
           up == [n \in 0 .. L |-> st[n + 1]]
           Up == [n \in 0 .. L |-> Nat \ {0}]
           down == [n \in 0 .. L |-> st[L + 1 - n]]
           Down == [n \in 0 .. L |-> {x \in Nat : x <= top}]
<1>0. L \in Nat
  BY DEF Shape
<1>1. \A n \in 1 .. L + 1 : st[n] \in Nat
  BY DEF Shape
<1>2. top \in Nat /\ Len(e) = top + 1
  <2>1. L + 1 \in 1 .. L + 1
    BY <1>0
  <2> QED
    BY <1>1, <2>1 DEF Shape
<1>3. ASSUME NEW n \in 1 .. L PROVE st[n + 1] >= st[n]
  <2>1. st[n] \in Nat /\ Len(Expanded(g[n])) \in {1, 2} /\ st[n + 1] = st[n] + Len(Expanded(g[n]))
    BY ShapeOne
  <2> QED
    BY <2>1
<1> HIDE DEF L, top
<1>4. \A n \in 0 .. L : up[n] \in Up[n]
  <2>1. up[0] \in Up[0]
    BY <1>0 DEF Shape
  <2>2. ASSUME NEW n \in 1 .. L, up[n - 1] \in Up[n - 1] PROVE up[n] \in Up[n]
    <3>1. n \in 0 .. L /\ n - 1 \in 0 .. L /\ (n - 1) + 1 = n /\ n \in 1 .. L + 1 /\ n + 1 \in 1 .. L + 1
      BY <1>0
    <3>2. st[n] \in Nat \ {0}
      BY <2>2, <3>1
    <3>3. st[n + 1] \in Nat
      BY <1>1, <3>1
    <3> QED
      BY <1>3, <3>1, <3>2, <3>3
  <2> HIDE DEF up, Up
  <2> QED
    BY <1>0, <2>1, <2>2, Rounds
<1>5. \A n \in 0 .. L : down[n] \in Down[n]
  <2>1. down[0] \in Down[0]
    <3>1. L + 1 - 0 = L + 1 /\ 0 \in 0 .. L
      BY <1>0
    <3> QED
      BY <1>2, <3>1 DEF top
  <2>2. ASSUME NEW n \in 1 .. L, down[n - 1] \in Down[n - 1] PROVE down[n] \in Down[n]
    <3>1. n \in 0 .. L /\ n - 1 \in 0 .. L /\ L + 1 - n \in 1 .. L /\ L + 1 - (n - 1) = (L + 1 - n) + 1
          /\ L + 1 - n \in 1 .. L + 1
      BY <1>0
    <3>2. st[(L + 1 - n) + 1] <= top /\ st[(L + 1 - n) + 1] \in Nat
      BY <2>2, <3>1
    <3>3. st[L + 1 - n] \in Nat
      BY <1>1, <3>1
    <3>4. st[L + 1 - n] <= top
      BY <1>2, <1>3, <3>1, <3>2, <3>3
    <3> QED
      BY <3>1, <3>3, <3>4
  <2> HIDE DEF down, Down
  <2> QED
    BY <1>0, <2>1, <2>2, Rounds
<1>6. st[i] \in Nat /\ st[i] >= 1
  <2>1. i - 1 \in 0 .. L /\ (i - 1) + 1 = i
    BY <1>0 DEF L
  <2> QED
    BY <1>4, <2>1
<1>7. st[i] <= top
  <2>1. L + 1 - i \in 0 .. L /\ L + 1 - (L + 1 - i) = i
    BY <1>0 DEF L
  <2> QED
    BY <1>5, <2>1
<1>8. e[st[i]] # "\\"
  <2>1. CASE i = 1
    BY <2>1 DEF Shape
  <2>2. CASE i # 1
    <3>1. i - 1 \in 1 .. Len(g) /\ (i - 1) + 1 = i
      BY <1>0, <2>2 DEF L
    <3>2. \A n \in 1 .. Len(g) : e[st[n + 1]] # "\\"
      BY ShapeOne
    <3>3. e[st[(i - 1) + 1]] # "\\"
      BY <3>1, <3>2
    <3> QED
      BY <3>1, <3>3
  <2> QED
    BY <2>1, <2>2
<1>9. e[st[i] + 1] \notin {"*", "+"}
  <2>1. CASE i = L + 1
    <3>1. st[i] + 1 = Len(e)
      BY <1>2, <2>1 DEF top
    <3>2. e[Len(e)] = "$"
      BY DEF Shape
    <3> QED
      BY <3>1, <3>2
  <2>2. CASE i # L + 1
    <3>1. i \in 1 .. Len(g)
      BY <1>0, <2>2 DEF L
    <3> QED
      BY <3>1, ShapeOne
  <2> QED
    BY <2>1, <2>2
<1> QED
  BY <1>2, <1>6, <1>7, <1>8, <1>9

(* What one character of a glob may add to the letters taken so far.        *)
Beyond(c, str, x) ==
  {k \in 0 .. Len(str) : \E j \in x : j <= k /\ Fits(c, SubSeq(str, j + 1, k))}

OneLetter(str, j, k, c) == SubSeq(str, j + 1, k) = <<c>>

LEMMA PieceLength ==
  ASSUME NEW str \in Seq(Letters), NEW k \in 0 .. Len(str), NEW j \in 0 .. k, NEW c
  PROVE  /\ Len(SubSeq(str, j + 1, k)) = k - j
         /\ OneLetter(str, j, k, c) <=> k = j + 1 /\ str[k] = c
<1> DEFINE s == SubSeq(str, j + 1, k)
<1>1. /\ Len(s) = k - j /\ s \in Seq(Letters)
      /\ \A m \in 1 .. k - j : s[m] = str[j + m]
  <2>1. Len(str) \in Nat
    OBVIOUS
  <2>2. k - j \in Nat /\ (k - (j + 1)) + 1 = k - j
    OBVIOUS
  <2>3. s = [m \in 1 .. k - j |-> str[m + j]]
    BY <2>1
  <2> HIDE DEF s
  <2> QED
    BY <2>1, <2>2, <2>3
<1> HIDE DEF s
<1>2. s = <<c>> <=> k = j + 1 /\ str[k] = c
  <2>1. ASSUME s = <<c>> PROVE k = j + 1 /\ str[k] = c
    <3>1. Len(s) = 1 /\ s[1] = c
      BY <2>1
    <3>2. k - j = 1
      BY <1>1, <3>1
    <3>3. k = j + 1 /\ 1 \in 1 .. k - j
      BY <3>2
    <3> QED
      BY <1>1, <3>1, <3>3
  <2>2. ASSUME k = j + 1, str[k] = c PROVE s = <<c>>
    <3>1. Len(s) = 1 /\ s[1] = c
      BY <1>1, <2>2
    <3> QED
      BY <1>1, <3>1
  <2> QED
    BY <2>1, <2>2
<1> QED
  BY <1>1, <1>2 DEF s, OneLetter

(* A character that is not repeated takes one letter.                      *)
LEMMA OnceTaken ==
  ASSUME NEW e, NEW p, NEW str, Len(str) \in Nat, NEW x \in SUBSET (0 .. Len(str)),
         e[p] # "\\", ~ Repeats(e, p), ~ Repeats(e, p + 1),
         Escaped(e, p) \/ e[p] \notin {"^", "$"}
  PROVE  Step(e, p, str, x) =
           {k \in 0 .. Len(str) : \E j \in x : k = j + 1 /\ One(e, p, str[k])}
<1> DEFINE n == Len(str)
<1>1. ASSUME NEW j \in x, NEW k \in j .. n
      PROVE  Takes(e, p, str, j, k) <=> k = j + 1 /\ One(e, p, str[k])
  <2>0. j \in 0 .. n /\ k \in 0 .. n
    OBVIOUS
  <2>1. Takes(e, p, str, j, k) <=> k = j + 1 /\ \A m \in j + 1 .. k : One(e, p, str[m])
    BY DEF Takes
  <2>2. k = j + 1 => j + 1 .. k = {k}
    BY <2>0
  <2> QED
    BY <2>1, <2>2
<1>2. Step(e, p, str, x) = UNION {{k \in j .. n : Takes(e, p, str, j, k)} : j \in x}
  BY DEF Step
<1>3. ASSUME NEW k
      PROVE  (\E j \in x : k \in j .. n /\ Takes(e, p, str, j, k))
               <=> (k \in 0 .. n /\ \E j \in x : k = j + 1 /\ One(e, p, str[k]))
  <2>1. ASSUME NEW j \in x, k \in j .. n, Takes(e, p, str, j, k)
        PROVE  k \in 0 .. n /\ k = j + 1 /\ One(e, p, str[k])
    <3>1. j \in 0 .. n
      OBVIOUS
    <3>2. k \in 0 .. n
      BY <2>1, <3>1
    <3> QED
      BY <1>1, <2>1, <3>2
  <2>2. ASSUME NEW j \in x, k \in 0 .. n, k = j + 1, One(e, p, str[k])
        PROVE  k \in j .. n /\ Takes(e, p, str, j, k)
    <3>1. k \in j .. n
      BY <2>2
    <3> QED
      BY <1>1, <2>2, <3>1
  <2> QED
    BY <2>1, <2>2
<1> HIDE DEF n
<1> QED
  BY <1>2, <1>3 DEF n

LEMMA OneBeyond ==
  ASSUME NEW str \in Seq(Letters), NEW x \in SUBSET (0 .. Len(str)), NEW c,
         c \notin {"*", "+"}
  PROVE  Beyond(c, str, x) =
           {k \in 0 .. Len(str) : \E j \in x : k = j + 1 /\ (c = "?" \/ str[k] = c)}
<1>0. Len(str) \in Nat
  OBVIOUS
<1>1. ASSUME NEW k \in 0 .. Len(str), NEW j \in x
      PROVE  j <= k /\ Fits(c, SubSeq(str, j + 1, k)) <=> k = j + 1 /\ (c = "?" \/ str[k] = c)
  <2>1. j \in 0 .. Len(str)
    OBVIOUS
  <2>2. CASE ~ (j <= k)
    BY <2>1, <2>2
  <2>3. CASE j <= k
    <3>1. j \in 0 .. k
      BY <2>1, <2>3
    <3>2. Len(SubSeq(str, j + 1, k)) = k - j /\ (OneLetter(str, j, k, c) <=> k = j + 1 /\ str[k] = c)
      BY <3>1, PieceLength
    <3>3. k - j = 1 <=> k = j + 1
      BY <2>1
    <3> QED
      BY <2>3, <3>2, <3>3 DEF Fits, OneLetter
  <2> QED
    BY <2>2, <2>3
<1> QED
  BY <1>1 DEF Beyond

LEMMA ManyBeyond ==
  ASSUME NEW str \in Seq(Letters), NEW x \in SUBSET (0 .. Len(str)), NEW c \in {"*", "+"}
  PROVE  Beyond(c, str, x) = {k \in 0 .. Len(str) : \E j \in x : j <= k /\ (c = "+" => k > j)}
<1>0. Len(str) \in Nat
  OBVIOUS
<1>1. ASSUME NEW k \in 0 .. Len(str), NEW j \in x
      PROVE  j <= k /\ Fits(c, SubSeq(str, j + 1, k)) <=> j <= k /\ (c = "+" => k > j)
  <2>1. j \in 0 .. Len(str)
    OBVIOUS
  <2>2. CASE ~ (j <= k)
    BY <2>2
  <2>3. CASE j <= k
    <3>1. j \in 0 .. k
      BY <2>1, <2>3
    <3>2. Len(SubSeq(str, j + 1, k)) = k - j
      BY <3>1, PieceLength
    <3>3. k - j >= 1 <=> k > j
      BY <2>1
    <3> QED
      BY <2>3, <3>2, <3>3 DEF Fits
  <2> QED
    BY <2>2, <2>3
<1> QED
  BY <1>1 DEF Beyond

LEMMA CharTaken ==
  ASSUME NEW e, NEW g, NEW st, Shape(e, g, st), NEW i \in 1 .. Len(g),
         NEW str \in Seq(Letters), NEW after, Reaches(e, str, after)
  PROVE  after[st[i + 1]] = Beyond(g[i], str, after[st[i]])
<1> DEFINE b == st[i]
           c == g[i]
           w == Expanded(c)
           x == after[b]
           n == Len(str)
<1>0. n \in Nat
  OBVIOUS
<1>1. /\ b \in Nat /\ b >= 1 /\ Len(e) \in Nat /\ e[b] # "\\"
      /\ st[i + 1] = b + Len(w) /\ st[i + 1] + 1 <= Len(e)
      /\ e[st[i + 1] + 1] \notin {"*", "+"}
  <2>1. i \in 1 .. Len(g) + 1 /\ i + 1 \in 1 .. Len(g) + 1
    BY DEF Shape
  <2>2. \A m \in 1 .. Len(g) + 1 :
          /\ st[m] \in Nat /\ st[m] >= 1 /\ st[m] + 1 <= Len(e) /\ Len(e) \in Nat
          /\ e[st[m]] # "\\" /\ e[st[m] + 1] \notin {"*", "+"}
    BY ShapeBounds
  <2>3. st[i + 1] = b + Len(w)
    BY DEF Shape
  <2> QED
    BY <2>1, <2>2, <2>3
<1>2. c \notin {"\\", "^", "$"} /\ \A r \in 1 .. Len(w) : e[b + r] = w[r]
  BY DEF Shape
<1>3. \A p \in 1 .. Len(e) : after[p] = Step(e, p, str, after[p - 1])
  BY DEF Reaches
<1>4. x \in SUBSET (0 .. n)
  <2>1. b \in 0 .. Len(e)
    <3> HIDE DEF w, b
    <3>1. st[i + 1] \in Int
      BY <1>1, ShapeOne
    <3>2. Len(w) \in {1, 2}
      BY <1>2, ExpandedShape DEF w
    <3> QED
      BY <1>1, <3>1, <3>2
  <2> QED
    BY <2>1 DEF Reaches
<1> HIDE DEF b, x, n
<1>5. CASE c \in {"*", "+"}
  <2>1. w = <<".", c>> /\ Len(w) = 2 /\ w[1] = "." /\ w[2] = c
    BY <1>5 DEF Expanded
  <2>2. e[b + 1] = "." /\ e[b + 2] = c /\ st[i + 1] = b + 2 /\ b + 3 <= Len(e)
    <3>1. 1 \in 1 .. Len(w) /\ 2 \in 1 .. Len(w)
      BY <2>1
    <3>2. e[b + 1] = w[1] /\ e[b + 2] = w[2]
      BY <1>2, <3>1
    <3> HIDE DEF w, c
    <3> QED
      BY <1>1, <2>1, <3>2
  <2> HIDE DEF w, c
  <2>3. /\ b + 1 \in 1 .. Len(e) /\ b + 2 \in 1 .. Len(e) /\ b + 2 \in 2 .. Len(e)
        /\ (b + 1) - 1 = b /\ (b + 2) - 1 = b + 1 /\ (b + 1) + 1 = b + 2
    BY <1>1, <2>2
  <2>4. ~ Repeats(e, b + 1) /\ ~ Escaped(e, b + 1) /\ ~ Escaped(e, b + 2) /\ Repeats(e, b + 2)
    BY <1>1, <1>5, <2>2, <2>3 DEF Repeats, Escaped
  <2>5. ASSUME NEW j, NEW k PROVE Takes(e, b + 1, str, j, k) <=> (c = "+" => k > j)
    BY <2>2, <2>3, <2>4 DEF Takes, One
  <2>6. after[b + 1] = UNION {{k \in j .. n : Takes(e, b + 1, str, j, k)} : j \in x}
    <3>1. after[b + 1] = Step(e, b + 1, str, x)
      BY <1>3, <2>3 DEF x
    <3> QED
      BY <2>2, <2>4, <3>1 DEF Step, n
  <2>7. after[b + 2] = after[b + 1]
    BY <1>3, <2>3, <2>4 DEF Step
  <2>8. ASSUME NEW k
        PROVE  (\E j \in x : k \in j .. n /\ (c = "+" => k > j))
                 <=> (k \in 0 .. n /\ \E j \in x : j <= k /\ (c = "+" => k > j))
    <3>1. \A j \in x : j \in 0 .. n
      BY <1>4
    <3> QED
      BY <1>0, <3>1
  <2>9. after[b + 1] = {k \in 0 .. n : \E j \in x : j <= k /\ (c = "+" => k > j)}
    BY <2>5, <2>6, <2>8
  <2>10. Beyond(c, str, x) = {k \in 0 .. n : \E j \in x : j <= k /\ (c = "+" => k > j)}
    BY <1>4, <1>5, ManyBeyond DEF n
  <2> QED
    BY <2>2, <2>7, <2>9, <2>10 DEF c, x, b
<1>6. CASE c \notin {"*", "+"}
  <2> DEFINE p == st[i + 1]
  <2>1. /\ p \in 1 .. Len(e) /\ after[p] = Step(e, p, str, x)
        /\ e[p] # "\\" /\ ~ Repeats(e, p) /\ ~ Repeats(e, p + 1)
        /\ Escaped(e, p) \/ e[p] \notin {"^", "$"}
        /\ \A a : One(e, p, a) <=> (c = "?" \/ a = c)
    <3>1. ~ Repeats(e, p + 1)
      BY <1>1 DEF Repeats
    <3>2. CASE c \in {".", "[", "]", "(", ")"}
      <4>1. w = <<"\\", c>> /\ Len(w) = 2 /\ w[1] = "\\" /\ w[2] = c
        BY <3>2 DEF Expanded
      <4>2. e[b + 1] = "\\" /\ e[b + 2] = c /\ p = b + 2 /\ b + 3 <= Len(e)
        <5>1. 1 \in 1 .. Len(w) /\ 2 \in 1 .. Len(w)
          BY <4>1
        <5>2. e[b + 1] = w[1] /\ e[b + 2] = w[2]
          BY <1>2, <5>1
        <5> HIDE DEF w, c
        <5> QED
          BY <1>1, <4>1, <5>2
      <4> HIDE DEF w, c, p
      <4>3. /\ b + 1 \in 1 .. Len(e) /\ b + 2 \in 1 .. Len(e) /\ b + 2 > 1
            /\ (b + 1) - 1 = b /\ (b + 2) - 1 = b + 1
        BY <1>1, <4>2
      <4>4. Escaped(e, p)
        BY <4>2, <4>3 DEF Escaped
      <4>5. after[b + 1] = x
        <5>1. after[b + 1] = Step(e, b + 1, str, x)
          BY <1>3, <4>3 DEF x
        <5> QED
          BY <4>2, <5>1 DEF Step
      <4>6. after[p] = Step(e, p, str, x)
        BY <1>3, <4>2, <4>3, <4>5
      <4>7. c # "?" /\ c # "\\"
        BY <3>2
      <4> QED
        BY <1>6, <3>1, <4>2, <4>3, <4>4, <4>6, <4>7 DEF One, Repeats
    <3>3. CASE c \notin {".", "[", "]", "(", ")"}
      <4>1. Len(w) = 1 /\ w[1] = (IF c = "?" THEN "." ELSE c)
        BY <1>6, <3>3 DEF Expanded
      <4>2. e[b + 1] = (IF c = "?" THEN "." ELSE c) /\ p = b + 1 /\ b + 2 <= Len(e)
        <5>1. 1 \in 1 .. Len(w)
          BY <4>1
        <5>2. e[b + 1] = w[1]
          BY <1>2, <5>1
        <5> HIDE DEF w, c
        <5> QED
          BY <1>1, <4>1, <5>2
      <4> HIDE DEF w, c, p
      <4>3. b + 1 \in 1 .. Len(e) /\ (b + 1) - 1 = b
        BY <1>1, <4>2
      <4>4. ~ Escaped(e, p)
        BY <1>1, <4>2, <4>3 DEF Escaped
      <4>5. after[p] = Step(e, p, str, x)
        BY <1>3, <4>2, <4>3 DEF x
      <4>6. c # "." /\ c \notin {"\\", "^", "$"}
        BY <1>2, <3>3
      <4>7. e[p] \notin {"\\", "^", "$", "*", "+"}
        BY <1>6, <4>2, <4>6
      <4>8. \A a : One(e, p, a) <=> (c = "?" \/ a = c)
        BY <4>2, <4>4, <4>6 DEF One
      <4> QED
        BY <3>1, <4>2, <4>3, <4>5, <4>7, <4>8 DEF Repeats
    <3> QED
      BY <3>2, <3>3
  <2> HIDE DEF w, c, p
  <2>2. Step(e, p, str, x) = {k \in 0 .. n : \E j \in x : k = j + 1 /\ One(e, p, str[k])}
    BY <1>0, <1>4, <2>1, OnceTaken DEF n
  <2>3. Beyond(c, str, x) = {k \in 0 .. n : \E j \in x : k = j + 1 /\ (c = "?" \/ str[k] = c)}
    BY <1>4, <1>6, OneBeyond DEF n
  <2>4. Step(e, p, str, x) = Beyond(c, str, x)
    BY <2>1, <2>2, <2>3
  <2> QED
    BY <2>1, <2>4 DEF p, c, x, b
<1> QED
  BY <1>5, <1>6

------------------------------------------------------------------------------
(* What the characters of a glob are dealt                                   *)

(* The ends of what the first i characters of a glob may be dealt.         *)
Deals(g, str, i, f) ==
  /\ f \in [0 .. i -> 0 .. Len(str)] /\ f[0] = 0
  /\ \A m \in 1 .. i : f[m - 1] <= f[m] /\ Fits(g[m], SubSeq(str, f[m - 1] + 1, f[m]))
Dealt(g, str, i) == {k \in 0 .. Len(str) : \E f : Deals(g, str, i, f) /\ f[i] = k}

LEMMA DealtNone ==
  ASSUME NEW g, NEW str, Len(str) \in Nat
  PROVE  Dealt(g, str, 0) = {0}
<1> DEFINE f == [i \in 0 .. 0 |-> 0]
<1>1. Deals(g, str, 0, f) /\ f[0] = 0
  BY DEF Deals
<1> HIDE DEF f
<1>2. 0 \in Dealt(g, str, 0)
  BY <1>1 DEF Dealt
<1>3. Dealt(g, str, 0) \subseteq {0}
  BY DEF Dealt, Deals
<1> QED
  BY <1>2, <1>3

LEMMA DealtNext ==
  ASSUME NEW g, NEW str, Len(str) \in Nat, NEW i \in Nat \ {0}
  PROVE  Dealt(g, str, i) = Beyond(g[i], str, Dealt(g, str, i - 1))
<1>1. ASSUME NEW k \in 0 .. Len(str), NEW f, Deals(g, str, i, f), f[i] = k
      PROVE  \E j \in Dealt(g, str, i - 1) : j <= k /\ Fits(g[i], SubSeq(str, j + 1, k))
  <2> DEFINE h == [m \in 0 .. i - 1 |-> f[m]]
             j == f[i - 1]
  <2>1. i \in 1 .. i /\ i - 1 \in 0 .. i - 1 /\ i - 1 \in 0 .. i /\ 0 \in 0 .. i - 1
    OBVIOUS
  <2>2. j <= k /\ Fits(g[i], SubSeq(str, j + 1, k))
    BY <1>1, <2>1 DEF Deals
  <2>3. j \in 0 .. Len(str)
    BY <1>1, <2>1 DEF Deals
  <2>4. h[i - 1] = j /\ h[0] = 0 /\ h \in [0 .. i - 1 -> 0 .. Len(str)]
    <3>1. \A m \in 0 .. i - 1 : m \in 0 .. i
      OBVIOUS
    <3> QED
      BY <1>1, <2>1, <3>1 DEF Deals
  <2>5. ASSUME NEW m \in 1 .. i - 1
        PROVE  h[m - 1] <= h[m] /\ Fits(g[m], SubSeq(str, h[m - 1] + 1, h[m]))
    <3>1. m \in 1 .. i /\ m \in 0 .. i - 1 /\ m - 1 \in 0 .. i - 1
      OBVIOUS
    <3>2. h[m] = f[m] /\ h[m - 1] = f[m - 1]
      BY <3>1
    <3> HIDE DEF h, j
    <3> QED
      BY <1>1, <3>1, <3>2 DEF Deals
  <2> HIDE DEF h, j
  <2>6. Deals(g, str, i - 1, h)
    BY <2>4, <2>5 DEF Deals
  <2>7. j \in Dealt(g, str, i - 1)
    BY <2>3, <2>4, <2>6 DEF Dealt
  <2> QED
    BY <2>2, <2>7
<1>2. ASSUME NEW k \in 0 .. Len(str), NEW j \in Dealt(g, str, i - 1),
             j <= k, Fits(g[i], SubSeq(str, j + 1, k))
      PROVE  \E f : Deals(g, str, i, f) /\ f[i] = k
  <2>1. PICK h : Deals(g, str, i - 1, h) /\ h[i - 1] = j
    BY DEF Dealt
  <2> DEFINE f == [m \in 0 .. i |-> IF m = i THEN k ELSE h[m]]
  <2>2. f[0] = 0 /\ f[i] = k /\ f \in [0 .. i -> 0 .. Len(str)]
    <3>1. \A m \in 0 .. i : m # i => m \in 0 .. i - 1
      OBVIOUS
    <3>2. 0 \in 0 .. i /\ 0 # i /\ i \in 0 .. i
      OBVIOUS
    <3> QED
      BY <2>1, <3>1, <3>2 DEF Deals
  <2>3. ASSUME NEW m \in 1 .. i
        PROVE  f[m - 1] <= f[m] /\ Fits(g[m], SubSeq(str, f[m - 1] + 1, f[m]))
    <3>1. m - 1 \in 0 .. i /\ m - 1 # i /\ m \in 0 .. i
      OBVIOUS
    <3>2. f[m - 1] = h[m - 1]
      BY <3>1
    <3>3. CASE m = i
      <4>1. f[m] = k /\ h[m - 1] = j
        BY <2>1, <3>1, <3>3
      <4> HIDE DEF f
      <4> QED
        BY <1>2, <3>2, <3>3, <4>1
    <3>4. CASE m # i
      <4>1. f[m] = h[m] /\ m \in 1 .. i - 1
        BY <3>1, <3>4
      <4> HIDE DEF f
      <4> QED
        BY <2>1, <3>2, <4>1 DEF Deals
    <3> QED
      BY <3>3, <3>4
  <2> HIDE DEF f
  <2>4. Deals(g, str, i, f)
    BY <2>2, <2>3 DEF Deals
  <2> QED
    BY <2>2, <2>4
<1>3. ASSUME NEW k \in 0 .. Len(str)
      PROVE  (\E f : Deals(g, str, i, f) /\ f[i] = k)
               <=> \E j \in Dealt(g, str, i - 1) : j <= k /\ Fits(g[i], SubSeq(str, j + 1, k))
  BY <1>1, <1>2
<1> DEFINE A == Dealt(g, str, i - 1)
<1>4. \A k : k \in Dealt(g, str, i) <=> k \in 0 .. Len(str) /\ \E f : Deals(g, str, i, f) /\ f[i] = k
  BY DEF Dealt
<1>5. \A k : k \in Beyond(g[i], str, A) <=>
               k \in 0 .. Len(str) /\ \E j \in A : j <= k /\ Fits(g[i], SubSeq(str, j + 1, k))
  BY DEF Beyond
<1> HIDE DEF A
<1>6. \A k : k \in Dealt(g, str, i) <=> k \in Beyond(g[i], str, A)
  BY <1>3, <1>4, <1>5 DEF A
<1> QED
  BY <1>6 DEF A

(* An expression made from a glob finds what the glob's characters can be dealt. *)
LEMMA ShapeMatches ==
  ASSUME NEW e, NEW g, NEW st, Shape(e, g, st), NEW str \in Seq(Letters)
  PROVE  regexec(e, str) <=> \E f : Deals(g, str, Len(g), f) /\ f[Len(g)] = Len(str)
<1> DEFINE L == Len(g)
           n == Len(str)
           p == st[L + 1]
<1>0. L \in Nat /\ n \in Nat
  BY DEF Shape
<1>1. /\ p \in Nat /\ p >= 1 /\ Len(e) = p + 1 /\ e[p] # "\\"
      /\ e[Len(e)] = "$" /\ e[1] = "^" /\ st[1] = 1
  <2>1. L + 1 \in 1 .. Len(g) + 1
    BY <1>0
  <2>2. p \in Nat /\ p >= 1 /\ e[p] # "\\"
    BY <2>1, ShapeBounds
  <2> QED
    BY <2>2 DEF Shape
<1>2. PICK after : Reaches(e, str, after)
  <2>1. Len(e) \in Nat
    BY <1>1
  <2> QED
    BY <1>0, <2>1, RegexecRuns
<1>3. \A m \in 1 .. Len(e) : after[m] = Step(e, m, str, after[m - 1])
  BY <1>2 DEF Reaches
<1>4. after[st[1]] = {0}
  <2>1. after[1] = Step(e, 1, str, after[0]) /\ after[0] = 0 .. n
    BY <1>1, <1>2, <1>3 DEF Reaches
  <2>2. ~ Escaped(e, 1) /\ ~ Repeats(e, 1)
    BY DEF Escaped, Repeats
  <2>3. ASSUME NEW j, NEW k PROVE Takes(e, 1, str, j, k) <=> j = 0 /\ k = 0
    BY <1>1, <2>2 DEF Takes
  <2>4. after[1] = UNION {{k \in j .. n : Takes(e, 1, str, j, k)} : j \in 0 .. n}
    BY <1>1, <2>1, <2>2 DEF Step
  <2>5. \A k : (\E j \in 0 .. n : k \in j .. n /\ j = 0 /\ k = 0) <=> k = 0
    BY <1>0
  <2> HIDE DEF n
  <2>6. after[1] = {0}
    BY <2>3, <2>4, <2>5
  <2> QED
    BY <1>1, <2>6
<1>5. after[p] = Dealt(g, str, L)
  <2> DEFINE k == [i \in 0 .. L |-> after[st[i + 1]]]
             Q == [i \in 0 .. L |-> {Dealt(g, str, i)}]
  <2>1. k[0] \in Q[0]
    <3>1. after[st[1]] = Dealt(g, str, 0)
      BY <1>0, <1>4, DealtNone
    <3>2. k[0] = after[st[1]] /\ Q[0] = {Dealt(g, str, 0)}
      BY <1>0
    <3> HIDE DEF k, Q
    <3> QED
      BY <3>1, <3>2
  <2>2. ASSUME NEW i \in 1 .. L, k[i - 1] \in Q[i - 1] PROVE k[i] \in Q[i]
    <3>1. i \in 0 .. L /\ i - 1 \in 0 .. L /\ (i - 1) + 1 = i /\ i \in Nat \ {0}
      BY <1>0
    <3>2. after[st[i]] = Dealt(g, str, i - 1)
      BY <2>2, <3>1
    <3>3. after[st[i + 1]] = Beyond(g[i], str, after[st[i]])
      BY <1>2, CharTaken
    <3>4. Dealt(g, str, i) = Beyond(g[i], str, Dealt(g, str, i - 1))
      BY <1>0, <3>1, DealtNext
    <3>5. after[st[i + 1]] = Dealt(g, str, i)
      BY <3>2, <3>3, <3>4
    <3>6. k[i] = after[st[i + 1]] /\ Q[i] = {Dealt(g, str, i)}
      BY <3>1
    <3> HIDE DEF k, Q
    <3> QED
      BY <3>5, <3>6
  <2>3. \A i \in 0 .. L : k[i] \in Q[i]
    <3> HIDE DEF k, Q, L
    <3> QED
      BY <1>0, <2>1, <2>2, Rounds
  <2>4. L \in 0 .. L
    BY <1>0
  <2>5. k[L] = after[p] /\ Q[L] = {Dealt(g, str, L)}
    BY <2>4
  <2> HIDE DEF k, Q, L
  <2> QED
    BY <2>3, <2>4, <2>5
<1> HIDE DEF L, p
<1>6. after[Len(e)] # {} <=> n \in Dealt(g, str, L)
  <2> DEFINE q == Len(e)
  <2>1. q \in 1 .. Len(e) /\ q - 1 = p /\ q > 1 /\ e[q] = "$"
    BY <1>1
  <2>2. ~ Escaped(e, q) /\ ~ Repeats(e, q)
    BY <1>1, <2>1 DEF Escaped, Repeats
  <2>3. after[q] = Step(e, q, str, after[p])
    BY <1>3, <2>1
  <2> HIDE DEF q
  <2>4. ASSUME NEW j, NEW k PROVE Takes(e, q, str, j, k) <=> j = n /\ k = j
    BY <2>1, <2>2 DEF Takes
  <2>5. after[q] = UNION {{k \in j .. n : Takes(e, q, str, j, k)} : j \in Dealt(g, str, L)}
    BY <1>5, <2>1, <2>2, <2>3 DEF Step
  <2>6. after[q] = UNION {{k \in j .. n : j = n /\ k = j} : j \in Dealt(g, str, L)}
    BY <2>4, <2>5
  <2>7. n \in n .. n
    BY <1>0
  <2> HIDE DEF n
  <2>8. after[q] # {} <=> n \in Dealt(g, str, L)
    <3>1. ASSUME n \in Dealt(g, str, L) PROVE n \in after[q]
      <4>1. n \in {k \in n .. n : n = n /\ k = n}
        BY <2>7
      <4> HIDE DEF Dealt
      <4>2. {k \in n .. n : n = n /\ k = n} \in {{k \in j .. n : j = n /\ k = j} : j \in Dealt(g, str, L)}
        BY <3>1
      <4> QED
        BY <2>6, <4>1, <4>2, Zenon
    <3>2. ASSUME NEW m \in after[q] PROVE n \in Dealt(g, str, L)
      <4>1. PICK j \in Dealt(g, str, L) : m \in {k \in j .. n : j = n /\ k = j}
        BY <2>6
      <4> QED
        BY <4>1
    <3> QED
      BY <3>1, <3>2
  <2> QED
    BY <2>8 DEF q
<1>7. n \in Dealt(g, str, L) <=> \E f : Deals(g, str, L, f) /\ f[L] = n
  <2>1. n \in 0 .. Len(str)
    BY <1>0
  <2> QED
    BY <2>1 DEF Dealt
<1>8. regexec(e, str) <=> after[Len(e)] # {}
  BY <1>2 DEF Reaches
<1> QED
  BY <1>6, <1>7, <1>8 DEF L

(* The anchors of a glob.                                                  *)
Hat(glob) == IF glob[1] = "^" THEN 1 ELSE 0
Dollar(glob) == IF Last(glob) = "$" THEN 1 ELSE 0

LEMMA PlainIs ==
  ASSUME NEW glob \in Seq(Letters), glob # <<>>
  PROVE  /\ Plain(glob) \in Seq(Letters) /\ Len(glob) \in Nat /\ Len(glob) >= 1
         /\ Hat(glob) + Dollar(glob) <= Len(glob)
         /\ Len(Plain(glob)) = Len(glob) - Hat(glob) - Dollar(glob)
         /\ \A i \in 1 .. Len(Plain(glob)) : Plain(glob)[i] = glob[Hat(glob) + i]
<1> DEFINE N == Len(glob)
           h == Hat(glob)
           d == Dollar(glob)
           a == IF glob[1] = "^" THEN Tail(glob) ELSE glob
<1>1. N \in Nat /\ N >= 1 /\ Last(glob) = glob[N]
  BY DEF Last
<1>2. /\ h \in {0, 1} /\ a \in Seq(Letters) /\ Len(a) = N - h
      /\ \A i \in 1 .. N - h : a[i] = glob[h + i]
  <2>1. CASE glob[1] = "^"
    <3>1. h = 1 /\ a = Tail(glob)
      BY <2>1 DEF Hat
    <3>2. /\ Tail(glob) \in Seq(Letters) /\ Len(Tail(glob)) = N - 1
          /\ \A i \in 1 .. N - 1 : Tail(glob)[i] = glob[i + 1]
      BY <1>1
    <3> HIDE DEF h, a, N
    <3>3. \A i \in 1 .. N - 1 : i + 1 = 1 + i
      BY <1>1
    <3> QED
      BY <3>1, <3>2, <3>3
  <2>2. CASE glob[1] # "^"
    <3>1. h = 0 /\ a = glob
      BY <2>2 DEF Hat
    <3> HIDE DEF h, a
    <3>2. N - 0 = N /\ \A i \in 1 .. N : 0 + i = i
      BY <1>1
    <3> QED
      BY <1>1, <3>1, <3>2
  <2> QED
    BY <2>1, <2>2
<1>3. d \in {0, 1} /\ h + d <= N
  <2>1. N = 1 => Last(glob) = glob[1]
    BY <1>1
  <2>2. CASE N = 1
    BY <2>1, <2>2 DEF Hat, Dollar
  <2>3. CASE N # 1
    BY <1>1, <2>3 DEF Hat, Dollar
  <2> QED
    BY <2>2, <2>3
<1>4. Plain(glob) = (IF a # <<>> /\ Last(a) = "$" THEN SubSeq(a, 1, Len(a) - 1) ELSE a)
  BY DEF Plain
<1>5. (a # <<>> /\ Last(a) = "$") <=> d = 1
  <2>1. CASE N - h = 0
    <3>1. a = <<>>
      BY <1>2, <2>1
    <3>2. h = 1 /\ N = 1
      <4> HIDE DEF a, h, N
      <4> QED
        BY <1>1, <1>2, <2>1
    <3>3. glob[1] = "^" /\ Last(glob) = "^"
      BY <1>1, <3>2 DEF Hat
    <3> QED
      BY <3>1, <3>3 DEF Dollar
  <2>2. CASE N - h # 0
    <3>1. a # <<>> /\ Last(a) = a[N - h]
      BY <1>2, <2>2 DEF Last
    <3>2. N - h \in 1 .. N - h /\ h + (N - h) = N
      BY <1>1, <1>2, <2>2
    <3>3. a[N - h] = glob[N]
      <4> HIDE DEF a, h, N
      <4> QED
        BY <1>2, <3>2
    <3>4. d = 1 <=> Last(glob) = "$"
      BY DEF Dollar
    <3> HIDE DEF a, h, N, d
    <3> QED
      BY <1>1, <3>1, <3>3, <3>4
  <2> QED
    BY <2>1, <2>2
<1> HIDE DEF a, h, d, N
<1>6. CASE d = 0
  <2>1. Plain(glob) = a
    BY <1>4, <1>5, <1>6
  <2>2. N - h - 0 = N - h
    BY <1>1, <1>2
  <2> QED
    BY <1>1, <1>2, <1>3, <1>6, <2>1, <2>2 DEF h, d, N
<1>7. CASE d = 1
  <2>1. Plain(glob) = SubSeq(a, 1, Len(a) - 1)
    BY <1>4, <1>5, <1>7
  <2>2. Len(a) - 1 \in Nat /\ Len(a) - 1 = N - h - 1 /\ Len(a) \in Nat
    BY <1>1, <1>2, <1>3, <1>7
  <2>3. SubSeq(a, 1, Len(a) - 1) = [i \in 1 .. Len(a) - 1 |-> a[i]]
    BY <1>2, <2>2
  <2>4. \A i \in 1 .. Len(a) - 1 : i \in 1 .. Len(a) /\ i \in 1 .. N - h
    BY <1>2, <2>2
  <2>5. \A i \in 1 .. Len(a) - 1 : a[i] \in Letters
    BY <1>2, <2>4
  <2> DEFINE s == [i \in 1 .. Len(a) - 1 |-> a[i]]
  <2>6. s \in Seq(Letters) /\ Len(s) = Len(a) - 1 /\ \A i \in 1 .. Len(a) - 1 : s[i] = a[i]
    BY <2>2, <2>5
  <2>7. Plain(glob) = s
    BY <2>1, <2>3
  <2> HIDE DEF s
  <2> QED
    BY <1>1, <1>2, <1>3, <1>7, <2>2, <2>4, <2>6, <2>7 DEF h, d, N
<1> QED
  BY <1>3, <1>6, <1>7

LEMMA ExpandedType ==
  ASSUME NEW c \in Letters
  PROVE  Expanded(c) \in Seq(Letters)
<1>1. "." \in Letters /\ "\\" \in Letters
  BY DEF Letters
<1> DEFINE x == "."
           y == "\\"
<1>2. x \in Letters /\ y \in Letters
  BY <1>1
<1>3. Expanded(c) = <<x, c>> \/ Expanded(c) = <<y, c>> \/ Expanded(c) = <<x>> \/ Expanded(c) = <<c>>
  BY DEF Expanded
<1> HIDE DEF x, y
<1>4. /\ <<x, c>> \in Seq(Letters) /\ <<y, c>> \in Seq(Letters)
      /\ <<x>> \in Seq(Letters) /\ <<c>> \in Seq(Letters)
  BY <1>2
<1> QED
  BY <1>3, <1>4

(* The text that a glob becomes, without the anchors that are added.       *)
LEMMA BodyRuns ==
  ASSUME NEW glob \in Seq(Letters)
  PROVE  LET ss == [i \in DOMAIN glob |-> Expanded(glob[i])] IN
         ss \in Seq(Seq(Letters)) /\ Len(ss) = Len(glob) /\ \E p : Runs(Letters, ss, p)
<1> DEFINE ss == [i \in DOMAIN glob |-> Expanded(glob[i])]
<1>1. DOMAIN glob = 1 .. Len(glob) /\ Len(glob) \in Nat /\ \A i \in 1 .. Len(glob) : glob[i] \in Letters
  OBVIOUS
<1>2. \A i \in 1 .. Len(glob) : Expanded(glob[i]) \in Seq(Letters)
  BY <1>1, ExpandedType
<1>3. ss \in Seq(Seq(Letters)) /\ Len(ss) = Len(glob)
  BY <1>1, <1>2
<1>4. \E p : Runs(Letters, ss, p)
  <2> HIDE DEF ss
  <2> QED
    BY <1>3, ConcatRuns
<1> QED
  BY <1>3, <1>4

(* The inner part of a glob, and the expression it becomes.                *)
Inner(glob) == IF glob = <<>> \/ glob = <<"/">> THEN <<>> ELSE Plain(glob)

LEMMA AnchoredText ==
  ASSUME NEW glob \in Seq(Letters), glob # <<>>, glob # <<"/">>, ~ Bracketed(glob),
         Source(glob, TRUE).ok
  PROVE  LET body == Concat([i \in DOMAIN glob |-> Expanded(glob[i])])
             start == IF glob[1] = "^" THEN body ELSE <<"^">> \o body IN
         Source(glob, TRUE).text = (IF Last(start) = "$" THEN start ELSE start \o <<"$">>)
BY DEF Source, uvm_re_deglobbed, Text, TooLong, Bracket

LEMMA GlobShape ==
  ASSUME NEW glob \in Seq(Letters), Modelled(glob), glob # <<>>, glob # <<"/">>,
         ~ Bracketed(glob), Source(glob, TRUE).ok
  PROVE  \E st : Shape(Source(glob, TRUE).text, Plain(glob), st)
<1> DEFINE N == Len(glob)
           h == Hat(glob)
           d == Dollar(glob)
           o == 1 - h
           g == Plain(glob)
           L == N - h - d
           ss == [i \in DOMAIN glob |-> Expanded(glob[i])]
           body == Concat(ss)
           M == Len(body)
           start == IF glob[1] = "^" THEN body ELSE <<"^">> \o body
           e == Source(glob, TRUE).text
<1>1. /\ g \in Seq(Letters) /\ Len(g) = L /\ N \in Nat /\ N >= 1 /\ h + d <= N
      /\ \A i \in 1 .. L : g[i] = glob[h + i]
  BY PlainIs
<1>2. /\ h \in {0, 1} /\ d \in {0, 1} /\ (h = 1 <=> glob[1] = "^") /\ (d = 1 <=> glob[N] = "$")
  BY DEF Hat, Dollar, Last
<1>3. PICK p : ss \in Seq(Seq(Letters)) /\ Len(ss) = N /\ Runs(Letters, ss, p)
  BY BodyRuns
<1>4. ASSUME NEW i \in 1 .. N
      PROVE  /\ glob[i] \in Letters /\ ss[i] = Expanded(glob[i])
             /\ Len(ss[i]) \in {1, 2}
             /\ glob[i] \in {"^", "$"} => Len(ss[i]) = 1 /\ ss[i][1] = glob[i]
             /\ ss[i][Len(ss[i])] = "$" <=> glob[i] = "$"
  <2>1. glob[i] \in Letters /\ ss[i] = Expanded(glob[i])
    OBVIOUS
  <2> DEFINE c == glob[i]
  <2>2. /\ Len(Expanded(c)) \in {1, 2}
        /\ c \in {"^", "$"} => Len(Expanded(c)) = 1 /\ Expanded(c)[1] = c
        /\ Expanded(c)[Len(Expanded(c))] = "$" <=> c = "$"
    <3> HIDE DEF c
    <3>1. CASE c \in {"*", "+"}
      BY <3>1 DEF Expanded
    <3>2. CASE c \in {".", "[", "]", "(", ")"}
      BY <3>2 DEF Expanded
    <3>3. CASE c = "?"
      BY <3>3 DEF Expanded
    <3>4. CASE c \notin {"*", "+", ".", "[", "]", "(", ")", "?"}
      BY <3>4 DEF Expanded
    <3> QED
      BY <3>1, <3>2, <3>3, <3>4
  <2> HIDE DEF ss
  <2> QED
    BY <2>1, <2>2
<1> HIDE DEF N, h, d, ss
<1>5. ASSUME NEW i \in 1 .. N
      PROVE  /\ Len(p[i - 1]) \in Nat /\ Len(p[i]) = Len(p[i - 1]) + Len(ss[i])
             /\ Len(p[i]) <= M
  <2>1. i \in 1 .. Len(ss)
    BY <1>3
  <2>2. /\ Len(p[i - 1]) \in Nat /\ Len(p[i]) = Len(p[i - 1]) + Len(ss[i])
        /\ Len(p[i]) <= Len(Concat(ss))
    <3> HIDE DEF body, M, start, e, g, L, o
    <3>1. \A n \in 1 .. Len(ss) : Len(p[n - 1]) \in Nat
      BY <1>3, RunsLength
    <3>2. ASSUME NEW n \in 1 .. Len(ss)
          PROVE  /\ Len(p[n - 1]) \in Nat /\ Len(ss[n]) \in Nat
                 /\ Len(p[n]) = Len(p[n - 1]) + Len(ss[n])
      <4>1. p[n - 1] \in Seq(Letters) /\ ss[n] \in Seq(Letters)
        BY <1>3, RunsLength
      <4>2. p[n] = p[n - 1] \o ss[n]
        BY <1>3, RunsLength
      <4> DEFINE x == p[n - 1]
                 y == ss[n]
      <4>3. x \in Seq(Letters) /\ y \in Seq(Letters) /\ p[n] = x \o y
        BY <4>1, <4>2
      <4> HIDE DEF x, y
      <4>4. Len(x) \in Nat /\ Len(y) \in Nat /\ Len(p[n]) = Len(x) + Len(y)
        BY <4>3
      <4> QED
        BY <4>4 DEF x, y
    <3>3. \A n \in 1 .. Len(ss) : Len(p[n]) <= Len(Concat(ss))
      BY <1>3, RunsLength
    <3> QED
      BY <2>1, <3>1, <3>2, <3>3
  <2> QED
    BY <2>2
<1>6. ASSUME NEW i \in 1 .. N, NEW r \in 1 .. Len(ss[i])
      PROVE  body[Len(p[i - 1]) + r] = ss[i][r] /\ Len(p[i - 1]) + r \in 1 .. M
  <2>1. i \in 1 .. Len(ss)
    BY <1>3
  <2>2. /\ Len(p[i - 1]) + r \in 1 .. Len(Concat(ss))
        /\ Concat(ss)[Len(p[i - 1]) + r] = ss[i][r]
    <3> HIDE DEF body, M, start, e, g, L, o
    <3> QED
      BY <1>3, <2>1, RunsAt
  <2> QED
    BY <2>2
<1>7. body \in Seq(Letters) /\ body = p[N] /\ p[0] = <<>> /\ Len(p[0]) = 0
  <2>1. Len(ss) \in 0 .. Len(ss)
    BY <1>1, <1>3
  <2>2. body = p[N] /\ p[0] = <<>> /\ p[Len(ss)] \in Seq(Letters)
    BY <1>3, <2>1 DEF Runs
  <2> QED
    BY <1>3, <2>2
<1>8. M \in Nat /\ M >= 1 /\ M = Len(p[N]) /\ (body[M] = "$" <=> d = 1)
  <2>1. N \in 1 .. N
    BY <1>1
  <2>2. Len(p[N - 1]) \in Nat /\ Len(p[N]) = Len(p[N - 1]) + Len(ss[N]) /\ Len(ss[N]) \in {1, 2}
    BY <1>4, <1>5, <2>1
  <2>3. M = Len(p[N])
    BY <1>7
  <2> DEFINE q == Len(p[N - 1])
             s == Len(ss[N])
  <2>4. s \in 1 .. s /\ q \in Nat /\ s \in Nat /\ Len(p[N]) = q + s
    <3>1. s \in {1, 2} /\ q \in Nat /\ Len(p[N]) = q + s
      BY <2>2
    <3> HIDE DEF s, q
    <3> QED
      BY <3>1
  <2>5. body[Len(p[N - 1]) + Len(ss[N])] = ss[N][Len(ss[N])]
    BY <1>6, <2>1, <2>4
  <2>6. ss[N][Len(ss[N])] = "$" <=> glob[N] = "$"
    BY <1>4, <2>1
  <2>7. q + s >= 1
    <3> HIDE DEF s, q
    <3> QED
      BY <2>4
  <2>8. q + s = M /\ M \in Nat /\ M >= 1
    <3> HIDE DEF s, q, M
    <3> QED
      BY <2>3, <2>4, <2>7
  <2>9. body[M] = ss[N][Len(ss[N])]
    <3> HIDE DEF body, M
    <3> QED
      BY <2>5, <2>8
  <2> HIDE DEF body, M
  <2> QED
    BY <1>2, <2>3, <2>6, <2>8, <2>9
<1>9. h = 1 => body[1] = "^" /\ Len(p[h]) = 1
  <2> SUFFICES ASSUME h = 1 PROVE body[1] = "^" /\ Len(p[1]) = 1
    OBVIOUS
  <2>1. 1 \in 1 .. N /\ 1 - 1 = 0 /\ glob[1] = "^"
    BY <1>1, <1>2
  <2>2. Len(ss[1]) = 1 /\ ss[1][1] = "^"
    BY <1>4, <2>1
  <2>3. Len(p[1]) = Len(p[1 - 1]) + Len(ss[1])
    BY <1>5, <2>1
  <2>4. body[Len(p[1 - 1]) + 1] = ss[1][1]
    BY <1>6, <2>1, <2>2
  <2> HIDE DEF body
  <2> QED
    BY <1>7, <2>1, <2>2, <2>3, <2>4
<1> HIDE DEF body, M
<1>10. /\ start \in Seq(Letters) /\ Len(start) = o + M /\ start[1] = "^" /\ o \in {0, 1}
       /\ \A x \in 1 .. M : start[o + x] = body[x]
  <2>1. CASE h = 1
    <3>1. o = 0 /\ start = body
      BY <1>2, <2>1
    <3>2. Len(body) = M /\ 0 + M = M /\ \A x \in 1 .. M : 0 + x = x
      BY <1>8 DEF M
    <3> HIDE DEF o, start
    <3> QED
      BY <1>7, <1>9, <2>1, <3>1, <3>2
  <2>2. CASE h = 0
    <3>1. o = 1 /\ start = <<"^">> \o body
      BY <1>2, <2>2
    <3> DEFINE u == "^"
               v == <<u>>
    <3>2. u \in Letters
      BY DEF Letters
    <3> HIDE DEF u
    <3>3. v \in Seq(Letters) /\ Len(v) = 1 /\ v[1] = u
      BY <3>2
    <3> HIDE DEF v
    <3>4. /\ v \o body \in Seq(Letters) /\ Len(v \o body) = 1 + Len(body)
          /\ AtFront(v, v \o body)
          /\ \A x \in 1 .. Len(body) : (v \o body)[1 + x] = body[x]
      BY <1>7, <3>3, JoinedFront
    <3>5. (v \o body)[1] = u
      BY <3>3, <3>4 DEF AtFront
    <3>6. start = v \o body
      BY <3>1 DEF u, v
    <3> HIDE DEF o, start
    <3> QED
      BY <3>1, <3>4, <3>5, <3>6 DEF u, M
  <2> QED
    BY <1>2, <2>1, <2>2
<1>11. e = (IF Last(start) = "$" THEN start ELSE start \o <<"$">>)
  BY AnchoredText DEF body, ss
<1> HIDE DEF start, e
<1>12. Last(start) = "$" <=> d = 1
  <2>1. Last(start) = start[o + M]
    BY <1>10 DEF Last
  <2>2. M \in 1 .. M
    BY <1>8
  <2> HIDE DEF o
  <2> QED
    BY <1>8, <1>10, <2>1, <2>2
<1> HIDE DEF o
<1>13. /\ Len(e) = o + M + 1 - d /\ e[Len(e)] = "$"
       /\ \A x \in 1 .. o + M : e[x] = start[x]
  <2>1. CASE d = 1
    <3>1. e = start
      BY <1>11, <1>12, <2>1
    <3>2. Len(start) = o + M + 1 - 1
      BY <1>8, <1>10
    <3>3. start[Len(start)] = "$"
      BY <1>12, <2>1 DEF Last
    <3> QED
      BY <2>1, <3>1, <3>2, <3>3
  <2>2. CASE d = 0
    <3> DEFINE u == "$"
               v == <<u>>
    <3>1. e = start \o v
      BY <1>11, <1>12, <2>2
    <3>2. u \in Letters
      BY DEF Letters
    <3> HIDE DEF u
    <3>3. v \in Seq(Letters) /\ Len(v) = 1 /\ v[1] = u
      BY <3>2
    <3> HIDE DEF v
    <3>31. start \in Seq(Letters) /\ v \in Seq(Letters)
      BY <1>10, <3>3
    <3>4. Len(start \o v) = Len(start) + Len(v) /\ AtFront(start, start \o v)
      BY <3>31, JoinedFront
    <3>5. (start \o v)[Len(start) + 1] = u
      <4>1. \A x \in 1 .. Len(v) : (start \o v)[Len(start) + x] = v[x]
        BY <3>31, JoinedFront
      <4>2. 1 \in 1 .. Len(v)
        BY <3>3
      <4> QED
        BY <3>3, <4>1, <4>2
    <3>6. \A x \in 1 .. Len(start) : (start \o v)[x] = start[x]
      BY <3>4 DEF AtFront
    <3>7. o + M + 1 - 0 = o + M + 1
      BY <1>8, <1>10
    <3> QED
      BY <1>10, <2>2, <3>1, <3>3, <3>4, <3>5, <3>6, <3>7 DEF u
  <2> QED
    BY <1>2, <2>1, <2>2
<1> DEFINE st == [i \in 1 .. L + 1 |-> o + Len(p[h + i - 1])]
<1>14. L \in Nat /\ h + L + 1 - 1 = N - d /\ 1 \in 1 .. L + 1
  BY <1>1, <1>2
<1>15. ASSUME NEW i \in 1 .. L
       PROVE  /\ h + i \in 1 .. N /\ g[i] = glob[h + i] /\ Expanded(g[i]) = ss[h + i]
              /\ i \in 1 .. L + 1 /\ i + 1 \in 1 .. L + 1
              /\ h + (i + 1) - 1 = h + i /\ (h + i) - 1 = h + i - 1
  <2>1. h + i \in 1 .. N
    BY <1>1, <1>2
  <2>2. i \in 1 .. L + 1 /\ i + 1 \in 1 .. L + 1 /\ h + (i + 1) - 1 = h + i /\ (h + i) - 1 = h + i - 1
    BY <1>1, <1>2
  <2> HIDE DEF L, g
  <2> QED
    BY <1>1, <1>4, <2>1, <2>2
<1>16. \A i \in 0 .. N : Len(p[i]) \in Nat
  <2>1. \A i \in 0 .. N : p[i] \in Seq(Letters)
    BY <1>3 DEF Runs
  <2> QED
    BY <2>1
<1>17. st \in [1 .. L + 1 -> Nat]
  <2>1. ASSUME NEW i \in 1 .. L + 1 PROVE o + Len(p[h + i - 1]) \in Nat
    <3>1. h + i - 1 \in 0 .. N
      BY <1>1, <1>2
    <3>2. Len(p[h + i - 1]) \in Nat
      BY <1>16, <3>1
    <3> QED
      BY <1>10, <3>2
  <2> QED
    BY <2>1
<1>18. st[1] = 1
  <2>1. st[1] = o + Len(p[h])
    <3>1. h + 1 - 1 = h
      BY <1>2
    <3> QED
      BY <1>14, <3>1
  <2> HIDE DEF st
  <2>2. CASE h = 1
    BY <1>9, <2>1, <2>2 DEF o
  <2>3. CASE h = 0
    BY <1>7, <2>1, <2>3 DEF o
  <2> QED
    BY <1>2, <2>2, <2>3
<1>19. ASSUME NEW i \in 1 .. L PROVE st[i + 1] = st[i] + Len(Expanded(g[i]))
  <2>1. st[i + 1] = o + Len(p[h + i]) /\ st[i] = o + Len(p[(h + i) - 1])
    <3> HIDE DEF L, g
    <3> QED
      BY <1>15
  <2>2. Len(p[(h + i) - 1]) \in Nat /\ Len(p[h + i]) = Len(p[(h + i) - 1]) + Len(ss[h + i])
    BY <1>5, <1>15
  <2>3. Len(ss[h + i]) \in {1, 2} /\ Expanded(g[i]) = ss[h + i]
    BY <1>4, <1>15
  <2> DEFINE q == Len(p[(h + i) - 1])
             s == Len(ss[h + i])
  <2>4. q \in Nat /\ s \in Nat /\ o \in Nat
    BY <1>10, <2>2, <2>3
  <2> HIDE DEF st, L, g, q, s
  <2>5. o + (q + s) = (o + q) + s
    BY <2>4
  <2> QED
    BY <2>1, <2>2, <2>3, <2>5 DEF q, s
<1>20. ASSUME NEW i \in 1 .. L, NEW r \in 1 .. Len(Expanded(g[i]))
       PROVE  e[st[i] + r] = Expanded(g[i])[r]
  <2>1. Expanded(g[i]) = ss[h + i] /\ st[i] = o + Len(p[(h + i) - 1]) /\ h + i \in 1 .. N
    <3> HIDE DEF L, g
    <3> QED
      BY <1>15
  <2> DEFINE q == Len(p[(h + i) - 1])
             m == q + r
  <2>2. r \in 1 .. Len(ss[h + i])
    BY <2>1
  <2>3. body[m] = ss[h + i][r] /\ m \in 1 .. M
    BY <1>6, <2>1, <2>2
  <2>4. q \in Nat /\ r \in Int
    BY <1>5, <2>1
  <2> HIDE DEF st, L, g, q
  <2>5. (o + q) + r = o + m
    BY <1>10, <2>4
  <2> HIDE DEF m
  <2>6. start[o + m] = body[m]
    BY <1>10, <2>3
  <2>7. o + m \in 1 .. o + M
    BY <1>8, <1>10, <2>3
  <2>8. e[o + m] = start[o + m]
    BY <1>13, <2>7
  <2> QED
    BY <2>1, <2>3, <2>5, <2>6, <2>8 DEF q
<1>21. Len(e) = st[L + 1] + 1
  <2>1. L + 1 \in 1 .. L + 1 /\ h + (L + 1) - 1 = N - d
    BY <1>1, <1>2
  <2>2. st[L + 1] = o + Len(p[N - d])
    <3> HIDE DEF L
    <3> QED
      BY <2>1
  <2> HIDE DEF st, L
  <2>3. CASE d = 0
    <3>1. N - d = N
      BY <1>1, <2>3
    <3> QED
      BY <1>8, <1>10, <1>13, <2>2, <2>3, <3>1
  <2>4. CASE d = 1
    <3>1. N \in 1 .. N /\ glob[N] = "$" /\ N - d = N - 1
      BY <1>1, <1>2, <2>4
    <3>2. Len(ss[N]) = 1
      BY <1>4, <3>1
    <3>3. Len(p[N]) = Len(p[N - 1]) + 1 /\ Len(p[N - 1]) \in Nat
      BY <1>5, <3>1, <3>2
    <3> QED
      BY <1>8, <1>10, <1>13, <2>2, <2>4, <3>1, <3>3
  <2> QED
    BY <1>2, <2>3, <2>4
<1>22. e[1] = "^"
  <2>1. 1 \in 1 .. o + M
    BY <1>8, <1>10
  <2> QED
    BY <1>10, <1>13, <2>1
<1>23. ASSUME NEW i \in 1 .. L PROVE g[i] \notin {"\\", "^", "$"}
  <2>1. h + i \in 1 .. N /\ g[i] = glob[h + i]
    BY <1>15
  <2>2. /\ glob[h + i] # "\\"
        /\ glob[h + i] = "^" => h + i = 1
        /\ glob[h + i] = "$" => h + i = N
    <3>1. h + i \in DOMAIN glob
      BY <2>1 DEF N
    <3> QED
      BY <3>1 DEF Modelled, N
  <2>3. h + i = 1 => h = 0 /\ h + i = 1
    BY <1>2
  <2>4. h + i = N => d = 0
    BY <1>1, <1>2
  <2> HIDE DEF L, g
  <2> QED
    BY <1>2, <2>1, <2>2, <2>3, <2>4
<1>24. Shape(e, g, st)
  <2> HIDE DEF st, L, g
  <2> QED
    BY <1>1, <1>13, <1>17, <1>18, <1>19, <1>20, <1>21, <1>22, <1>23 DEF Shape
<1> HIDE DEF st
<1> QED
  BY <1>24 DEF e

------------------------------------------------------------------------------
(* Every glob that compiles                                                  *)

LEMMA MatchesDealt ==
  ASSUME NEW glob, NEW str, Len(Inner(glob)) \in Nat
  PROVE  GlobMatches(glob, str) <=>
           \E f : Deals(Inner(glob), str, Len(Inner(glob)), f) /\ f[Len(Inner(glob))] = Len(str)
<1> DEFINE g == Inner(glob)
           cuts == {f \in [0 .. Len(g) -> 0 .. Len(str)] :
                      /\ f[0] = 0 /\ f[Len(g)] = Len(str)
                      /\ \A i \in 1 .. Len(g) : f[i - 1] <= f[i]}
<1>1. GlobMatches(glob, str) <=>
        \E f \in cuts : \A i \in 1 .. Len(g) : Fits(g[i], SubSeq(str, f[i - 1] + 1, f[i]))
  BY DEF GlobMatches, Inner
<1> HIDE DEF g
<1>2. ASSUME NEW f
      PROVE  f \in cuts /\ (\A i \in 1 .. Len(g) : Fits(g[i], SubSeq(str, f[i - 1] + 1, f[i])))
               <=> Deals(g, str, Len(g), f) /\ f[Len(g)] = Len(str)
  BY DEF Deals
<1> HIDE DEF cuts
<1> QED
  BY <1>1, <1>2 DEF g

LEMMA GlobRight ==
  ASSUME NEW glob \in Seq(Letters), Modelled(glob), ~ Bracketed(glob) \/ glob = <<"/">>,
         Source(glob, TRUE).ok, NEW str \in Seq(Letters)
  PROVE  regexec(Source(glob, TRUE).text, str) <=> GlobMatches(glob, str)
<1> DEFINE e == Source(glob, TRUE).text
           g == Inner(glob)
<1>1. g \in Seq(Letters) /\ Len(g) \in Nat /\ \E st : Shape(e, g, st)
  <2>1. CASE glob = <<>> \/ glob = <<"/">>
    <3>1. e = <<"^", "$">>
      BY <2>1 DEF Source, uvm_re_deglobbed, Text, Bracket
    <3>2. g = <<>>
      BY <2>1 DEF Inner
    <3> DEFINE st == [i \in 1 .. 1 |-> 1]
    <3>3. /\ Len(e) = 2 /\ e[1] = "^" /\ e[2] = "$"
          /\ g \in Seq(Letters) /\ Len(g) = 0
      <4>1. <<>> \in Seq(Letters) /\ Len(<<>>) = 0
        OBVIOUS
      <4> HIDE DEF e, g
      <4> QED
        BY <3>1, <3>2, <4>1
    <3>4. st \in [1 .. 1 -> Nat] /\ st[1] = 1
      OBVIOUS
    <3> HIDE DEF e, g, st
    <3>5. Shape(e, g, st)
      BY <3>3, <3>4 DEF Shape
    <3> QED
      BY <3>3, <3>5
  <2>2. CASE glob # <<>> /\ glob # <<"/">>
    <3>1. g = Plain(glob)
      BY <2>2 DEF Inner
    <3>2. \E st : Shape(e, Plain(glob), st)
      BY <2>2, GlobShape
    <3>3. Plain(glob) \in Seq(Letters)
      BY <2>2, PlainIs
    <3> HIDE DEF e, g
    <3>4. g \in Seq(Letters)
      BY <3>1, <3>3
    <3> QED
      BY <3>1, <3>2, <3>4
  <2> QED
    BY <2>1, <2>2
<1> HIDE DEF e
<1>2. PICK st : Shape(e, g, st)
  BY <1>1
<1>3. regexec(e, str) <=> \E f : Deals(g, str, Len(g), f) /\ f[Len(g)] = Len(str)
  <2> HIDE DEF g
  <2> QED
    BY <1>2, ShapeMatches
<1>4. GlobMatches(glob, str) <=> \E f : Deals(g, str, Len(g), f) /\ f[Len(g)] = Len(str)
  BY <1>1, MatchesDealt
<1> QED
  BY <1>3, <1>4 DEF e

------------------------------------------------------------------------------
(* The matches of the whole                                                *)

LEMMA TextIsCache == TextSpec => CacheSpec
<1>1. TextInit => CacheInit
  BY DEF TextInit
<1>2. [TextNext]_vars => [CacheNext \/ CacheElse]_cvars
  <2> SUFFICES ASSUME [TextNext]_vars PROVE [CacheNext \/ CacheElse]_cvars
    OBVIOUS
  <2>1. ASSUME NEW init \in BOOLEAN, uvm_dpi_get_next_arg_c(init) PROVE Aside
    BY <2>1 DEF uvm_dpi_get_next_arg_c
  <2>2. new => Aside
    BY DEF new
  <2>3. ASSUME NEW pattern \in test.patterns, get_arg_matches(pattern)
        PROVE  Search(Glob(pattern)) \/ Aside
    BY <2>3 DEF get_arg_matches
  <2>4. UNCHANGED vars => UNCHANGED cvars
    BY DEF vars
  <2> QED
    BY <2>1, <2>2, <2>3, <2>4 DEF TextNext, ArgsNext, CacheElse
<1> QED
  BY <1>1, <1>2, PTL DEF TextSpec, CacheSpec

(* With the command line beside it, the cache promises what it does alone.  *)
THEOREM CacheUnderText == TextSpec => []HandlesSound /\ ListIsRecency
BY TextIsCache, HandlesAreSound, ListInOrder, PTL

(* What callers hold was compiled from a query of theirs.                  *)
HeldAsked == \A h \in held : h \in DOMAIN heap /\ heap[h] \in test.queries
MInv == CInv /\ HeldAsked /\ test \in Tests

LEMMA FetchHeld ==
  ASSUME HandlesSound, Running(cache), HeldAsked, NEW q, Fetch(q)
  PROVE  \A h \in held : h \in DOMAIN heap' /\ heap'[h] = heap[h]
<1>1. held \subseteq DOMAIN heap
  BY DEF HeldAsked
<1>2. CASE UNCHANGED heap
  BY <1>1, <1>2
<1>3. ASSUME NEW h \in Fresh, heap' = Allocated(h, q)
      PROVE  \A g \in held : g \in DOMAIN heap' /\ heap'[g] = heap[g]
  BY <1>1, <1>3 DEF Fresh, Allocated
<1> QED
  BY <1>2, <1>3 DEF Fetch, uvm_re_compexecfree, uvm_re_match_hit, uvm_re_compexec

LEMMA ShrunkHeld ==
  ASSUME HandlesSound, Running(cache), HeldAsked, NEW c, Shrunk(c)
  PROVE  \A h \in held : h \in DOMAIN heap' /\ heap'[h] = heap[h]
<1>1. \A h \in held : h \notin {cache.hash[k].data : k \in Keys(cache)}
  BY DEF HandlesSound
<1>2. heap' = Without({cache.hash[k].data : k \in Keys(cache) \ Keys(c)})
  BY DEF Shrunk
<1> QED
  BY <1>1, <1>2 DEF Without, HeldAsked

LEMMA MInvKept == MInv /\ [CNext]_cvars => MInv'
<1> SUFFICES ASSUME MInv, [CNext]_cvars PROVE MInv'
  OBVIOUS
<1>1. CInv'
  BY CInvKept DEF MInv
<1>2. test' = test
  BY SameTest DEF CNext, CacheElse, Aside, Search, cvars
<1>3. HandlesSound /\ HeldAsked /\ test \in Tests
  BY DEF MInv, CInv
<1>4. ASSUME held' = held, \A h \in held : h \in DOMAIN heap' /\ heap'[h] = heap[h]
      PROVE  HeldAsked'
  BY <1>2, <1>3, <1>4 DEF HeldAsked
<1>5. ASSUME heap' = heap, held' = held PROVE HeldAsked'
  BY <1>2, <1>3, <1>5 DEF HeldAsked
<1>6. ASSUME CNext PROVE HeldAsked'
  <2>0. Running(cache)
    BY <1>6 DEF CNext, CacheNext, CacheElse
  <2>1. ASSUME NEW q \in test.queries, uvm_re_comp(q) PROVE HeldAsked'
    <3>1. ASSUME heap' = heap, held' = held PROVE HeldAsked'
      BY <1>5, <3>1
    <3>2. ASSUME NEW h \in Fresh, heap' = Allocated(h, q), held' = held \cup {h}
          PROVE  HeldAsked'
      BY <1>2, <1>3, <2>1, <3>2 DEF HeldAsked, Allocated, Fresh
    <3> QED
      BY <2>1, <3>1, <3>2 DEF uvm_re_comp
  <2>2. ASSUME NEW q, Fetch(q), held' = held PROVE HeldAsked'
    BY <1>3, <1>4, <2>0, <2>2, FetchHeld
  <2>3. ASSUME NEW h \in held, uvm_re_free(h) PROVE HeldAsked'
    BY <1>2, <1>3, <2>3 DEF uvm_re_free, HeldAsked, Without
  <2>4. ASSUME NEW c, Shrunk(c) PROVE HeldAsked'
    <3>1. held' = held
      BY <2>4 DEF Shrunk
    <3> QED
      BY <1>3, <1>4, <2>0, <2>4, <3>1, ShrunkHeld
  <2>5. CASE flush
    <3>1. PICK ks \in Orders(Keys(cache)) : Shrunk(Emptied(cache, ks))
      BY <2>5 DEF flush
    <3> QED
      BY <2>4, <3>1
  <2>6. ASSUME NEW n \in Sizes, set_max_size(n) PROVE HeldAsked'
    BY <2>4, <2>6 DEF set_max_size
  <2>7. ASSUME NEW q, NEW str, uvm_re_match(q, str) PROVE HeldAsked'
    BY <2>2, <2>7 DEF uvm_re_match
  <2>8. ASSUME NEW h, NEW str, uvm_re_exec(h, str) PROVE HeldAsked'
    BY <1>5, <2>8 DEF uvm_re_exec
  <2>9. CASE CacheElse
    <3>1. CASE Aside
      BY <1>5, <3>1 DEF Aside
    <3>2. ASSUME NEW re \in test.patterns, Search(Glob(re)) PROVE HeldAsked'
      BY <2>2, <3>2 DEF Search
    <3> QED
      BY <2>9, <3>1, <3>2 DEF CacheElse
  <2> QED
    BY <1>6, <2>1, <2>3, <2>5, <2>6, <2>7, <2>8, <2>9 DEF CNext, CacheNext
<1>7. ASSUME UNCHANGED cvars PROVE HeldAsked'
  BY <1>5, <1>7 DEF cvars
<1>8. HeldAsked'
  BY <1>6, <1>7
<1> QED
  BY <1>1, <1>2, <1>3, <1>8 DEF MInv

LEMMA MInvAlways == CacheSpec => []MInv
<1>1. CacheInit => MInv
  BY CacheInitTyped DEF CacheInit, MInv, HeldAsked
<1> QED
  BY <1>1, MInvKept, PTL DEF CacheSpec, CNext

------------------------------------------------------------------------------
(* What is found                                                             *)

LEMMA TextsTyped ==
  /\ \A t \in Tests : \A q \in t.queries : q.re \in Seq(Letters) /\ (q.deglob => Modelled(q.re))
  /\ \A str \in Strings : str \in Seq(Letters)
<1> DEFINE X == STRING
<1>1. X \subseteq Letters
  BY DEF Letters
<1>2. /\ \A t \in Tests : \A q \in t.queries : q.re \in Seq(X) /\ (q.deglob => Modelled(q.re))
      /\ \A str \in Strings : str \in Seq(X)
  BY CacheAssumption
<1> HIDE DEF X
<1>3. Seq(X) \subseteq Seq(Letters)
  BY <1>1
<1> QED
  BY <1>2, <1>3

LEMMA AnswerRight ==
  ASSUME NEW t \in Tests, NEW q \in t.queries, NEW r, r.re = q.re, q.deglob, r.deglob,
         ~ Bracketed(q.re) \/ q.re = <<"/">>, Compiles(q), NEW str \in Strings
  PROVE  Found(r, str) <=> GlobMatches(q.re, str)
<1>1. q.re \in Seq(Letters) /\ Modelled(q.re) /\ str \in Seq(Letters)
  BY TextsTyped
<1>2. Source(q.re, q.deglob) = Source(q.re, TRUE) /\ Source(r.re, r.deglob) = Source(q.re, TRUE)
  BY DEF Source
<1>3. Source(q.re, TRUE).ok
  BY <1>2 DEF Compiles
<1>4. regexec(Source(q.re, TRUE).text, str) <=> GlobMatches(q.re, str)
  BY <1>1, <1>3, GlobRight
<1>5. Found(r, str) <=> regexec(Source(q.re, TRUE).text, str)
  BY <1>2 DEF Found, Compiles
<1> QED
  BY <1>4, <1>5

LEMMA RunIs ==
  ASSUME HandlesSound, Running(cache), NEW q
  PROVE  Run(q).re = q.re
BY DEF Run, HandlesSound

MatchRight(m) ==
  /\ m.done /\ m.asked.deglob /\ m.run.deglob
  /\ ~ Bracketed(m.asked.re) \/ m.asked.re = <<"/">>
  /\ Compiles(m.asked)
  => m.found = GlobMatches(m.asked.re, m.str)

LEMMA MatchStep == MInv /\ CNext => MatchRight(match')
<1> SUFFICES ASSUME MInv, CNext PROVE MatchRight(match')
  OBVIOUS
<1>1. HandlesSound /\ HeldAsked /\ test \in Tests /\ Running(cache)
  BY DEF MInv, CInv, CNext, CacheNext, CacheElse
<1>2. CASE match' = NoMatch
  BY <1>2 DEF NoMatch, MatchRight
<1>3. ASSUME NEW q \in test.queries, NEW r, r.re = q.re, NEW str \in Strings,
             match' = [asked |-> q, str |-> str, run |-> r, found |-> Found(r, str), done |-> TRUE]
      PROVE  MatchRight(match')
  <2>1. /\ match'.asked = q /\ match'.str = str /\ match'.run = r
        /\ match'.found = Found(r, str)
    BY <1>3
  <2>2. q.deglob /\ r.deglob /\ (~ Bracketed(q.re) \/ q.re = <<"/">>) /\ Compiles(q)
          => (Found(r, str) <=> GlobMatches(q.re, str))
    BY <1>1, <1>3, AnswerRight
  <2>3. q.deglob /\ r.deglob /\ (~ Bracketed(q.re) \/ q.re = <<"/">>) /\ Compiles(q)
          => Found(r, str) = GlobMatches(q.re, str)
    <3>1. Found(r, str) \in BOOLEAN
      BY DEF Found
    <3>2. GlobMatches(q.re, str) \in BOOLEAN
      BY DEF GlobMatches
    <3> QED
      BY <2>2, <3>1, <3>2
  <2> QED
    BY <2>1, <2>3 DEF MatchRight
<1>4. ASSUME NEW q \in test.queries, NEW str \in Strings, uvm_re_match(q, str)
      PROVE  MatchRight(match')
  BY <1>1, <1>3, <1>4, RunIs DEF uvm_re_match
<1>5. ASSUME NEW h \in held, NEW str \in Strings, uvm_re_exec(h, str) PROVE MatchRight(match')
  <2>1. heap[h] \in test.queries
    BY <1>1 DEF HeldAsked
  <2> QED
    BY <1>3, <1>5, <2>1 DEF uvm_re_exec
<1>6. CASE CacheElse
  BY <1>2, <1>6 DEF CacheElse, Aside, Search
<1>7. CASE CacheNext
  BY <1>2, <1>4, <1>5, <1>7 DEF CacheNext, uvm_re_comp, uvm_re_free, set_max_size, flush, Shrunk
<1> QED
  BY <1>6, <1>7 DEF CNext

(* A pattern in brackets is the same expression whether it is a glob or not. *)
LEMMA RegexAsGlob ==
  ASSUME NEW q, NEW r, r.re = q.re, Bracketed(q.re), Len(q.re) > 2, NEW str
  PROVE  Found(r, str) <=> Found(q, str)
<1>1. q.re # <<>> /\ q.re # <<"/">>
  <2>1. Len(<<"/">>) = 1 /\ Len(<<>>) = 0
    OBVIOUS
  <2> QED
    BY <2>1
<1>2. Source(r.re, r.deglob) = Source(q.re, q.deglob)
  BY <1>1 DEF Source, uvm_re_deglobbed
<1> QED
  BY <1>2 DEF Found, Compiles

PatternRight(pattern, found) ==
  LET regex == Bracketed(pattern) /\ Len(pattern) > 2 IN
  found = Kept(m_argv, {i \in DOMAIN m_argv :
                          \/ Starts(m_argv[i], pattern)
                          \/ regex /\ Found(Glob(pattern), m_argv[i])})

LEMMA ArgsStep == MInv /\ TextNext => (args' # args => PatternRight(args'.pattern, args'.found))
<1> SUFFICES ASSUME MInv, TextNext, args' # args
             PROVE  PatternRight(args'.pattern, args'.found)
  OBVIOUS
<1>1. PICK pattern \in test.patterns : get_arg_matches(pattern)
  BY DEF TextNext, avars, ArgsNext, uvm_dpi_get_next_arg_c, new
<1>2. HandlesSound /\ Running(cache)
  BY <1>1 DEF MInv, CInv, TextNext, CacheNext
<1> DEFINE q == Glob(pattern)
           is_regex == Len(pattern) > 2 /\ Bracketed(pattern)
<1>3. /\ args'.pattern = pattern
      /\ args'.found = Kept(m_argv, {i \in DOMAIN m_argv :
                                       \/ is_regex /\ Found(Run(q), m_argv[i])
                                       \/ Starts(m_argv[i], pattern)})
  BY <1>1 DEF get_arg_matches
<1>4. Run(q).re = q.re /\ q.re = pattern
  BY <1>2, RunIs DEF Glob
<1>5. ASSUME NEW i \in DOMAIN m_argv, is_regex
      PROVE  Found(Run(q), m_argv[i]) <=> Found(q, m_argv[i])
  <2> HIDE DEF q
  <2> QED
    BY <1>4, <1>5, RegexAsGlob
<1>6. {i \in DOMAIN m_argv : \/ is_regex /\ Found(Run(q), m_argv[i])
                             \/ Starts(m_argv[i], pattern)}
        = {i \in DOMAIN m_argv : \/ Starts(m_argv[i], pattern)
                                 \/ is_regex /\ Found(q, m_argv[i])}
  <2> HIDE DEF q, is_regex
  <2> QED
    BY <1>5
<1> QED
  BY <1>3, <1>6 DEF PatternRight

(* What is found is what a glob is said to match, however it was compiled, and *)
(* get_arg_matches finds the same arguments whatever the cache holds.          *)
THEOREM MatchesRight == TextSpec => MatchesAreRight
<1>1. MInv /\ [CNext]_cvars => [MatchRight(match')]_cvars
  BY MatchStep
<1>2. MInv /\ [TextNext]_vars => [args' # args => PatternRight(args'.pattern, args'.found)]_vars
  BY ArgsStep
<1>3. TextSpec => []MInv /\ [][CNext]_cvars /\ [][TextNext]_vars
  BY TextIsCache, MInvAlways, PTL DEF TextSpec, CacheSpec, CNext
<1>4. TextSpec => [][MatchRight(match')]_cvars
  BY <1>1, <1>3, PTL
<1>5. TextSpec => [][args' # args => PatternRight(args'.pattern, args'.found)]_vars
  BY <1>2, <1>3, PTL
<1>6. [MatchRight(match')]_cvars =>
        [(match'.done /\ match'.asked.deglob /\ match'.run.deglob
            /\ (~ Bracketed(match'.asked.re) \/ match'.asked.re = <<"/">>)
            /\ Compiles(match'.asked))
          => match'.found = GlobMatches(match'.asked.re, match'.str)]_cvars
  BY DEF MatchRight
<1>7. TextSpec => MatchIsRight
  BY <1>4, <1>6, PTL DEF MatchIsRight
<1> QED
  BY <1>5, <1>7, PTL DEF MatchesAreRight, PatternRight
==============================================================================
