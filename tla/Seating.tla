------------------------------- MODULE Seating -------------------------------
(***************************************************************************)
(* The lists behind the auction: sort_vals_impl of proof_of_fee.move       *)
(* bubble-sorts the bidders with their bids, reverses both lists and       *)
(* shuffles equal bids (address_utils.move), and fill_seats_and_get_price  *)
(* seats the bidders from the front.  One step is one turn of a loop.      *)
(***************************************************************************)
EXTENDS Ranking, SequencesExt

CONSTANTS
    Bidders,   \* qualified bidders, in the order of the validator universe
    Levels,    \* bids
    MaxSize    \* bound: seats to fill

ASSUME SeatingAssumption ==
    /\ Bidders \in Seq(Range(Bidders)) /\ IsInjective(Bidders)
    /\ Levels \subseteq Nat
    /\ MaxSize \in Nat

VARIABLES
    offer,    \* the bid of each bidder
    proven,   \* the compliant validators of the closing epoch
    size,     \* final_set_size
    vals,     \* filtered_vals
    bids,     \* the bids next to vals
    phase,    \* "sort", "reverse", "shuffle", "fill", "done"
    i, j,     \* loop counters, from zero as in the code
    proposed  \* proposed_validators

vars == <<offer, proven, size, vals, bids, phase, i, j, proposed>>
input == <<offer, proven, size>>

Len0 == Len(Bidders)

Init ==
    /\ offer \in [Range(Bidders) -> Levels]
    /\ proven \in SUBSET Range(Bidders)
    /\ size \in 0..MaxSize
    /\ vals = Bidders
    /\ bids = [k \in 1..Len0 |-> offer[Bidders[k]]]
    /\ phase = "sort"
    /\ i = 0 /\ j = 0
    /\ proposed = <<>>

\* vector::swap of the elements k and k + 1, counted from zero
Swap(s, k) == [s EXCEPT ![k + 1] = s[k + 2], ![k + 2] = s[k + 1]]

\* sort_by_values, a turn of the inner loop
CompareAndSwap ==
    /\ phase = "sort"
    /\ i < Len0 /\ j < Len0 - i - 1
    /\ IF bids[j + 1] > bids[j + 2]
       THEN vals' = Swap(vals, j) /\ bids' = Swap(bids, j)
       ELSE UNCHANGED <<vals, bids>>
    /\ j' = j + 1
    /\ UNCHANGED <<input, phase, i, proposed>>

\* sort_by_values, the end of the inner loop and of the outer
NextPass ==
    /\ phase = "sort"
    /\ i < Len0 => j >= Len0 - i - 1
    /\ phase' = IF i < Len0 THEN "sort" ELSE "reverse"
    /\ i' = IF i < Len0 THEN i + 1 ELSE 0
    /\ j' = 0
    /\ UNCHANGED <<input, vals, bids, proposed>>

\* Faulty variant: the lists stay in ascending order.
ReverseListsNot ==
    /\ phase = "reverse"
    /\ phase' = "shuffle"
    /\ UNCHANGED <<input, vals, bids, i, j, proposed>>

\* sort_vals_impl: high to low
ReverseLists ==
    /\ phase = "reverse"
    /\ vals' = Reverse(vals)
    /\ bids' = Reverse(bids)
    /\ phase' = "shuffle"
    /\ UNCHANGED <<input, i, j, proposed>>

\* The index after the slice of bids equal to the one at index from.
SliceEnd(from) == Min({k \in (from + 1)..Len0 : k = Len0 \/ bids[k + 1] # bids[from + 1]})

\* shuffle_duplicates: one slice of equal bids in an order of randomness
ShuffleSlice ==
    /\ phase = "shuffle"
    /\ i < Len0
    /\ LET end == SliceEnd(i)
       IN  /\ \E perm \in Bijection((i + 1)..end, (i + 1)..end) :
                vals' = [k \in 1..Len0 |->
                            IF k \in (i + 1)..end THEN vals[perm[k]] ELSE vals[k]]
           /\ i' = end
    /\ UNCHANGED <<input, bids, phase, j, proposed>>

ShuffleDone ==
    /\ phase = "shuffle"
    /\ i >= Len0
    /\ phase' = "fill"
    /\ i' = 0
    /\ UNCHANGED <<input, vals, bids, j, proposed>>

\* unproven_quota
UnprovenQuota == size \div 3

\* A bidder is seated when it is proven or the quota is not used up.
MaySeat(v, s) ==
    v \in proven \/ Cardinality(Range(s) \ proven) < UnprovenQuota

\* a turn of the loop of fill_seats_and_get_price: s is proposed_validators
SeatNext(s, v) == IF Len(s) < size /\ MaySeat(v, s) THEN Append(s, v) ELSE s

\* Faulty variant: the loop forgets the quota.
VisitBidderNoQuota ==
    /\ phase = "fill"
    /\ Len(proposed) < size /\ i < Len0
    /\ proposed' = Append(proposed, vals[i + 1])
    /\ i' = i + 1
    /\ UNCHANGED <<input, vals, bids, phase, j>>

VisitBidder ==
    /\ phase = "fill"
    /\ Len(proposed) < size /\ i < Len0
    /\ proposed' = SeatNext(proposed, vals[i + 1])
    /\ i' = i + 1
    /\ UNCHANGED <<input, vals, bids, phase, j>>

FillDone ==
    /\ phase = "fill"
    /\ Len(proposed) >= size \/ i >= Len0
    /\ phase' = "done"
    /\ UNCHANGED <<input, vals, bids, i, j, proposed>>

Done == phase = "done" /\ UNCHANGED vars

Next ==
    \/ CompareAndSwap \/ NextPass \/ ReverseLists
    \/ ShuffleSlice \/ ShuffleDone
    \/ VisitBidder \/ FillDone
    \/ Done

\* One transaction runs the loops to their ends.
Spec == Init /\ [][Next]_vars /\ WF_vars(Next)

-----------------------------------------------------------------------------
(***************************************************************************)
(* Properties                                                              *)
(***************************************************************************)

(***************************************************************************)
(* The first k of the ranked list are the k best, for every k: what the    *)
(* failover rules of stake.move rely on, before and after the shuffle.     *)
(***************************************************************************)
PrefixesAreTop ==
    phase \in {"shuffle", "fill", "done"} =>
        \A k \in 0..Len0 :
            Range(SubSeq(vals, 1, k)) \in TopRanked(Range(Bidders), k, offer)

(***************************************************************************)
(* The loop seats a set the definition allows, and the bidder seated last, *)
(* whose bid becomes the price for all, is a lowest bidder.                *)
(***************************************************************************)
SeatedAreWinners ==
    phase = "done" =>
        /\ Range(proposed) \in Winners(Range(Bidders), proven, size, UnprovenQuota, offer)
        /\ proposed # <<>> =>
            \A v \in Range(proposed) : offer[Last(proposed)] <= offer[v]
=============================================================================
