------------------------------- MODULE Queues -------------------------------
(***************************************************************************)
(* Deletion from the SystemVerilog queues of the library.                  *)
(*                                                                         *)
(* The sources delete entries of a queue one by one, q.delete(i), while    *)
(* they walk over it.  What such a walk leaves is the queue restricted to  *)
(* a set of kept positions, in the old order.  Kept says that without      *)
(* recursion, so that the modules that use it can be proved about.         *)
(***************************************************************************)
EXTENDS Naturals, Sequences, FiniteSets

(* The number of positions of K up to and including i. *)
Rank(K, i) == Cardinality({j \in K : j <= i})

(* The k-th smallest position of K. *)
Nth(K, k) == CHOOSE i \in K : Rank(K, i) = k

(* The entries of q at the positions in K, in the order of q. *)
Kept(q, K) == [k \in 1 .. Cardinality(K) |-> q[Nth(K, k)]]

(* q.delete(i) *)
Deleted(q, i) == Kept(q, DOMAIN q \ {i})

(* The values held by a queue. *)
Held(q) == {q[i] : i \in DOMAIN q}

(* The smallest position of a set of positions (find_first_index). *)
First(K) == CHOOSE i \in K : \A j \in K : i <= j
=============================================================================
