------------------------------- MODULE Ranking -------------------------------
(***************************************************************************)
(* What the two rankings of the epoch boundary decide, without the lists   *)
(* that compute it.  Module Seating sorts, shuffles and fills the seats as *)
(* the code does, and checks it against these definitions.                 *)
(***************************************************************************)
EXTENDS Integers, FiniteSets

(***************************************************************************)
(* The first k of s by descending rank; equal ranks in any order.          *)
(***************************************************************************)
TopRanked(s, k, rank) ==
    {t \in SUBSET s :
        /\ Cardinality(t) = (IF k < Cardinality(s) THEN k ELSE Cardinality(s))
        /\ \A u \in t, v \in s \ t : rank[u] >= rank[v]}

(***************************************************************************)
(* The winners of an auction for size seats with a quota for unproven      *)
(* bidders.  A bidder is passed over only when every seat has gone to      *)
(* bidders who offer as much, or when it is unproven and the quota has     *)
(* gone to unproven bidders who offer as much.                             *)
(***************************************************************************)
Winners(bidders, proven, size, quota, rank) ==
    {w \in SUBSET bidders :
        /\ Cardinality(w) <= size
        /\ Cardinality(w \ proven) <= quota
        /\ \A v \in bidders \ w :
            \/ /\ Cardinality(w) = size
               /\ \A u \in w : rank[u] >= rank[v]
            \/ /\ v \notin proven
               /\ Cardinality(w \ proven) = quota
               /\ \A u \in w \ proven : rank[u] >= rank[v]}
=============================================================================
