----------------------------- MODULE SeatingProofs -----------------------------
(***************************************************************************)
(* The sort, the shuffle and the seating of the auction are correct for    *)
(* every list of bidders, every bid and every number of seats.             *)
(***************************************************************************)
EXTENDS Seating, Sums

-----------------------------------------------------------------------------
(***************************************************************************)
(* Lists without repetition                                                *)
(***************************************************************************)

\* A set of numbers that is not empty and bounded has a least one.
LEMMA LeastOf ==
    ASSUME NEW a \in Int, NEW b \in Int, NEW S \in SUBSET (a .. b), S # {}
    PROVE  Min(S) \in S /\ \A y \in S : Min(S) <= y
<1> DEFINE Upto(x) == {y \in S : y <= x}
           Bad == {Upto(x) : x \in S}
<1>0. IsFiniteSet(a .. b)
    BY FS_Interval
<1>1. IsFiniteSet(S)
    BY <1>0, FS_Subset
<1>7. \A x \in S : x \in Int
    OBVIOUS
<1>2. Bad \subseteq SUBSET S /\ Bad # {} /\ \A x \in S : Upto(x) \in Bad
    OBVIOUS
<1>3. \A s \in Bad : \E x \in S : s = Upto(x)
    OBVIOUS
<1> HIDE DEF Bad
<1>4. PICK s \in Bad : \A t \in SUBSET s : t # s => t \notin Bad
    BY <1>1, <1>2, SmallestSubset
<1>5. PICK x \in S : s = Upto(x)
    BY <1>3
<1>6. ASSUME NEW y \in S
      PROVE  x <= y
    <2>1. SUFFICES ASSUME y < x PROVE FALSE
        BY <1>7
    <2>2. \A z \in S : z <= y => z <= x
        BY <1>7, <2>1
    <2>3. ~(x <= y) /\ x <= x
        BY <1>7, <2>1
    <2>4. Upto(y) \subseteq Upto(x) /\ x \in Upto(x) /\ x \notin Upto(y)
        BY <2>2, <2>3, Zenon
    <2> QED
        BY <1>2, <1>4, <1>5, <2>4, Zenon
<1> QED
    BY <1>6 DEF Min

\* The set of the first k of a list, and how many they are.
Firsts(f, k) == {f[m] : m \in 1 .. k}

LEMMA CountFirsts ==
    ASSUME NEW T, NEW n \in Nat, NEW f \in [1 .. n -> T], IsInjective(f), NEW k \in 0 .. n
    PROVE  IsFiniteSet(Firsts(f, k)) /\ Cardinality(Firsts(f, k)) = k
<1> DEFINE g == [m \in 1 .. k |-> f[m]]
<1>1. g \in Bijection(1 .. k, Firsts(f, k))
    BY DEF Bijection, Injection, Surjection, IsInjective, Firsts
<1>2. ExistsBijection(1 .. k, Firsts(f, k))
    BY <1>1 DEF ExistsBijection
<1>3. IsFiniteSet(1 .. k) /\ Cardinality(1 .. k) = k
    BY FS_Interval
<1> QED
    BY <1>2, <1>3, FS_Bijection

\* The bidders are as many as the list of the universe has entries.
LEMMA BiddersFinite ==
    /\ Len0 \in Nat
    /\ Bidders \in [1 .. Len0 -> Range(Bidders)]
    /\ IsFiniteSet(Range(Bidders))
    /\ Cardinality(Range(Bidders)) = Len0
<1>1. Len0 \in Nat /\ Bidders \in [1 .. Len0 -> Range(Bidders)]
    BY SeatingAssumption DEF Len0
<1>2. Range(Bidders) = Firsts(Bidders, Len0)
    BY <1>1 DEF Range, Firsts
<1>3. IsInjective(Bidders) /\ Len0 \in 0 .. Len0
    BY <1>1, SeatingAssumption
<1>4. IsFiniteSet(Firsts(Bidders, Len0)) /\ Cardinality(Firsts(Bidders, Len0)) = Len0
    BY <1>1, <1>3, CountFirsts
<1> QED
    BY <1>1, <1>2, <1>4

\* A list of all bidders that is as long as their number repeats none.
LEMMA AllOnce ==
    ASSUME NEW f \in [1 .. Len0 -> Range(Bidders)],
           \A b \in Range(Bidders) : \E k \in 1 .. Len0 : f[k] = b
    PROVE  IsInjective(f)
<1>1. f \in Surjection(1 .. Len0, Range(Bidders))
    BY DEF Surjection
<1>2. IsFiniteSet(1 .. Len0) /\ Cardinality(1 .. Len0) = Len0
    BY FS_Interval, BiddersFinite
<1>3. f \in Injection(1 .. Len0, Range(Bidders))
    BY <1>1, <1>2, FS_Surjection, BiddersFinite
<1> QED
    BY <1>3 DEF Injection

-----------------------------------------------------------------------------
(***************************************************************************)
(* The inductive invariant                                                 *)
(***************************************************************************)

B == Range(Bidders)

\* vals is an order of the bidders, and bids are theirs.
Listed ==
    /\ offer \in [B -> Levels] /\ proven \in SUBSET B /\ size \in Nat
    /\ vals \in [1 .. Len0 -> B] /\ bids \in [1 .. Len0 -> Levels]
    /\ \A b \in B : \E k \in 1 .. Len0 : vals[k] = b
    /\ \A k \in 1 .. Len0 : bids[k] = offer[vals[k]]
    /\ phase \in {"sort", "reverse", "shuffle", "fill", "done"}
    /\ i \in 0 .. Len0 /\ j \in Nat

\* The passes of sort_by_values so far have moved the greatest bids to the end,
\* and the pass under way carries the greatest of those before along.
Sorting ==
    phase = "sort" =>
        /\ \A p, q \in 1 .. Len0 : p <= q /\ q > Len0 - i => bids[p] <= bids[q]
        /\ i < Len0 => /\ j <= Len0 - i - 1
                       /\ \A p \in 1 .. (j + 1) : bids[p] <= bids[j + 1]

\* The bids ascend after the sort and descend after the reversal.
Ranked ==
    /\ phase = "reverse" => \A p, q \in 1 .. Len0 : p <= q => bids[p] <= bids[q]
    /\ phase \in {"shuffle", "fill", "done"} =>
           \A p, q \in 1 .. Len0 : p <= q => bids[p] >= bids[q]

\* A bidder that the loop has passed over without a seat: it is unproven, and
\* the quota has gone to unproven bidders who offer as much.
PassedOver(v) ==
    /\ v \notin proven
    /\ Cardinality(Range(proposed) \ proven) = UnprovenQuota
    /\ \A u \in Range(proposed) \ proven : offer[u] >= offer[v]

\* The seats that fill_seats_and_get_price has filled from the first i.
Seats ==
    /\ proposed \in Seq(B)
    /\ Len(proposed) <= size
    /\ IsFiniteSet(Range(proposed)) /\ Cardinality(Range(proposed)) = Len(proposed)
    /\ Range(proposed) \subseteq Firsts(vals, i)
    /\ Cardinality(Range(proposed) \ proven) <= UnprovenQuota
    /\ \A k \in 1 .. i : vals[k] \in Range(proposed) \/ PassedOver(vals[k])
    /\ proposed # <<>> => \A v \in Range(proposed) : offer[Last(proposed)] <= offer[v]

Seated ==
    /\ IF phase \in {"fill", "done"} THEN Seats ELSE proposed = <<>>
    /\ phase = "done" => Len(proposed) >= size \/ i >= Len0

SeatingInv == Listed /\ Sorting /\ Ranked /\ Seated

-----------------------------------------------------------------------------
(***************************************************************************)
(* The invariant is inductive                                              *)
(***************************************************************************)

\* The auction starts from the order of the validator universe.
LEMMA InitInv ==
    ASSUME Init
    PROVE  SeatingInv
<1> USE DEF Init
<1>0. Len0 \in Nat /\ Bidders \in [1 .. Len0 -> B] /\ Levels \subseteq Nat /\ MaxSize \in Nat
    BY BiddersFinite, SeatingAssumption DEF B
<1>1. \A b \in B : \E k \in 1 .. Len0 : vals[k] = b
    BY <1>0 DEF B, Range
<1>2. bids \in [1 .. Len0 -> Levels] /\ \A k \in 1 .. Len0 : bids[k] = offer[vals[k]]
    BY <1>0 DEF B
<1>3. Listed
    BY <1>0, <1>1, <1>2 DEF Listed, B
<1>4. Sorting
    <2>1. \A k \in 1 .. Len0 : bids[k] \in Nat
        BY <1>0, <1>2
    <2>2. 0 < Len0 => \A p \in 1 .. (0 + 1) : bids[p] <= bids[0 + 1]
        BY <1>0, <2>1
    <2> QED
        BY <1>0, <2>2 DEF Sorting
<1>5. Ranked /\ Seated
    BY DEF Ranked, Seated
<1> QED
    BY <1>3, <1>4, <1>5 DEF SeatingInv

\* What vector::swap makes of a list.
LEMMA SwapEntries ==
    ASSUME NEW T, NEW s \in [1 .. Len0 -> T], NEW k \in Nat, k + 2 <= Len0
    PROVE  /\ Swap(s, k) \in [1 .. Len0 -> T]
           /\ \A m \in 1 .. Len0 :
                Swap(s, k)[m] = IF m = k + 1 THEN s[k + 2]
                                ELSE IF m = k + 2 THEN s[k + 1] ELSE s[m]
BY BiddersFinite DEF Swap

\* A turn of the inner loop of sort_by_values.
LEMMA CompareInv ==
    ASSUME SeatingInv, CompareAndSwap
    PROVE  SeatingInv'
<1> USE DEF SeatingInv
<1>0. /\ Len0 \in Nat /\ Levels \subseteq Nat /\ i \in Nat /\ j \in Nat
      /\ phase = "sort" /\ phase' = "sort" /\ i' = i /\ j' = j + 1
      /\ i < Len0 /\ j < Len0 - i - 1 /\ proposed' = proposed
      /\ offer' = offer /\ proven' = proven /\ size' = size
    BY BiddersFinite, SeatingAssumption DEF CompareAndSwap, Listed, input
<1>1. /\ vals \in [1 .. Len0 -> B] /\ bids \in [1 .. Len0 -> Levels]
      /\ \A k \in 1 .. Len0 : bids[k] = offer[vals[k]]
      /\ \A b \in B : \E k \in 1 .. Len0 : vals[k] = b
    BY DEF Listed
<1>2. /\ \A p, q \in 1 .. Len0 : p <= q /\ q > Len0 - i => bids[p] <= bids[q]
      /\ \A p \in 1 .. (j + 1) : bids[p] <= bids[j + 1]
    BY <1>0 DEF Sorting
<1>3. Ranked' /\ Seated'
    BY <1>0 DEF Ranked, Seated
<1>6. \A k \in 1 .. Len0 : bids[k] \in Nat
    BY <1>0, <1>1
<1>7. j + 1 \in 1 .. Len0 /\ j + 2 \in 1 .. Len0 /\ j + 1 # j + 2 /\ j + 2 <= Len0
    BY <1>0
<1>8. bids[j + 1] \in Nat /\ bids[j + 2] \in Nat
    BY <1>6, <1>7
<1>4. CASE ~(bids[j + 1] > bids[j + 2])
    <2>1. vals' = vals /\ bids' = bids
        BY <1>4 DEF CompareAndSwap
    <2>2. Listed'
        BY <1>0, <2>1 DEF Listed
    <2>3. bids[j + 1] <= bids[j + 2]
        BY <1>8, <1>4
    <2>4. \A p \in 1 .. (j + 2) : bids[p] <= bids[j + 2]
        <3>1. SUFFICES ASSUME NEW p \in 1 .. (j + 2), p # j + 2 PROVE bids[p] <= bids[j + 2]
            BY <1>8
        <3>2. bids[p] <= bids[j + 1]
            BY <1>0, <1>2, <3>1
        <3>3. bids[p] \in Nat
            BY <1>0, <1>6
        <3> QED
            BY <1>8, <2>3, <3>2, <3>3
    <2>5. Sorting'
        BY <1>0, <1>2, <2>1, <2>4 DEF Sorting
    <2> QED
        BY <1>3, <2>2, <2>5
<1>5. CASE bids[j + 1] > bids[j + 2]
    <2>1. vals' = Swap(vals, j) /\ bids' = Swap(bids, j)
        BY <1>5 DEF CompareAndSwap
    <2>2. /\ vals' \in [1 .. Len0 -> B] /\ bids' \in [1 .. Len0 -> Levels]
          /\ \A m \in 1 .. Len0 :
                vals'[m] = IF m = j + 1 THEN vals[j + 2]
                           ELSE IF m = j + 2 THEN vals[j + 1] ELSE vals[m]
          /\ \A m \in 1 .. Len0 :
                bids'[m] = IF m = j + 1 THEN bids[j + 2]
                           ELSE IF m = j + 2 THEN bids[j + 1] ELSE bids[m]
        <3>1. j \in Nat /\ vals \in [1 .. Len0 -> B] /\ bids \in [1 .. Len0 -> Levels]
            BY <1>0, <1>1
        <3>2. /\ Swap(vals, j) \in [1 .. Len0 -> B]
              /\ \A m \in 1 .. Len0 :
                    Swap(vals, j)[m] = IF m = j + 1 THEN vals[j + 2]
                                       ELSE IF m = j + 2 THEN vals[j + 1] ELSE vals[m]
            BY <1>7, <3>1, SwapEntries
        <3>3. /\ Swap(bids, j) \in [1 .. Len0 -> Levels]
              /\ \A m \in 1 .. Len0 :
                    Swap(bids, j)[m] = IF m = j + 1 THEN bids[j + 2]
                                       ELSE IF m = j + 2 THEN bids[j + 1] ELSE bids[m]
            BY <1>7, <3>1, SwapEntries
        <3> QED
            BY <2>1, <3>2, <3>3, Zenon
    <2>3. j + 1 \in 1 .. Len0 /\ j + 2 \in 1 .. Len0 /\ j + 1 # j + 2
        BY <1>7
    <2>4. \A b \in B : \E k \in 1 .. Len0 : vals'[k] = b
        <3>1. ASSUME NEW b \in B PROVE \E k \in 1 .. Len0 : vals'[k] = b
            <4>1. PICK k \in 1 .. Len0 : vals[k] = b
                BY <1>1
            <4>2. CASE k = j + 1
                BY <2>2, <2>3, <4>1, <4>2
            <4>3. CASE k = j + 2
                BY <2>2, <2>3, <4>1, <4>3
            <4> QED
                BY <2>2, <4>1, <4>2, <4>3
        <3> QED
            BY <3>1
    <2>5. \A k \in 1 .. Len0 : bids'[k] = offer[vals'[k]]
        BY <1>1, <2>2, <2>3
    <2>6. Listed'
        BY <1>0, <2>2, <2>4, <2>5 DEF Listed
    <2>7. \A p \in 1 .. (j + 2) : bids'[p] <= bids'[j + 2]
        <3>1. SUFFICES ASSUME NEW p \in 1 .. (j + 2) PROVE bids'[p] <= bids[j + 1]
            BY <1>0, <1>1, <2>2, <2>3
        <3>2. bids[j + 1] \in Nat /\ bids[j + 2] \in Nat /\ p \in 1 .. Len0
            BY <1>0, <1>8
        <3>3. CASE p \in {j + 1, j + 2}
            BY <1>5, <2>2, <2>3, <3>2, <3>3
        <3>4. CASE p \notin {j + 1, j + 2}
            <4>1. p \in 1 .. (j + 1) /\ bids'[p] = bids[p]
                BY <1>0, <2>2, <3>2, <3>4
            <4> QED
                BY <1>2, <4>1
        <3> QED
            BY <3>3, <3>4
    <2>8. ASSUME NEW p \in 1 .. Len0, NEW q \in 1 .. Len0, p <= q, q > Len0 - i
          PROVE  bids'[p] <= bids'[q]
        <3>1. q > j + 2 /\ bids'[q] = bids[q]
            BY <1>0, <2>2, <2>8
        <3>2. PICK r \in 1 .. Len0 : r <= q /\ bids'[p] = bids[r]
            <4>1. CASE p = j + 1
                BY <2>2, <2>3, <3>1, <4>1
            <4>2. CASE p = j + 2
                BY <1>0, <2>2, <2>3, <3>1, <4>2
            <4>3. CASE p \notin {j + 1, j + 2}
                BY <2>2, <2>8, <4>3
            <4> QED
                BY <4>1, <4>2, <4>3
        <3> QED
            BY <1>2, <2>8, <3>1, <3>2
    <2>9. Sorting'
        BY <1>0, <2>7, <2>8 DEF Sorting
    <2> QED
        BY <1>3, <2>6, <2>9
<1> QED
    BY <1>4, <1>5

\* The end of a pass: its greatest bid is in place.
LEMMA NextPassInv ==
    ASSUME SeatingInv, NextPass
    PROVE  SeatingInv'
<1> USE DEF SeatingInv
<1>0. /\ Len0 \in Nat /\ Levels \subseteq Nat /\ i \in 0 .. Len0 /\ j \in Nat
      /\ phase = "sort" /\ j' = 0 /\ proposed' = proposed
      /\ vals' = vals /\ bids' = bids
      /\ offer' = offer /\ proven' = proven /\ size' = size
      /\ bids \in [1 .. Len0 -> Levels]
    BY BiddersFinite, SeatingAssumption DEF NextPass, Listed, input
<1>1. \A p, q \in 1 .. Len0 : p <= q /\ q > Len0 - i => bids[p] <= bids[q]
    BY <1>0 DEF Sorting
<1>2. CASE i < Len0
    <2>1. phase' = "sort" /\ i' = i + 1 /\ j >= Len0 - i - 1
        BY <1>2 DEF NextPass
    <2>2. j + 1 = Len0 - i /\ \A p \in 1 .. (j + 1) : bids[p] <= bids[j + 1]
        BY <1>0, <1>2, <2>1 DEF Sorting
    <2>3. Listed'
        BY <1>0, <1>2, <2>1 DEF Listed
    <2>4. ASSUME NEW p \in 1 .. Len0, NEW q \in 1 .. Len0, p <= q, q > Len0 - (i + 1)
          PROVE  bids[p] <= bids[q]
        <3>1. CASE q > Len0 - i
            BY <1>1, <2>4, <3>1
        <3>2. CASE q = Len0 - i
            BY <2>2, <2>4, <3>2
        <3> QED
            BY <1>0, <2>4, <3>1, <3>2
    <2>5. \A p \in 1 .. (0 + 1) : bids[p] <= bids[0 + 1]
        <3>1. 1 \in 1 .. Len0
            BY <1>0, <1>2
        <3>2. bids[1] \in Nat
            BY <1>0, <3>1
        <3> QED
            BY <3>2
    <2>6. Sorting'
        BY <1>0, <2>1, <2>4, <2>5 DEF Sorting
    <2> QED
        BY <1>0, <2>1, <2>3, <2>6 DEF Ranked, Seated
<1>3. CASE ~(i < Len0)
    <2>1. phase' = "reverse" /\ i' = 0 /\ i = Len0
        BY <1>0, <1>3 DEF NextPass
    <2>2. \A p, q \in 1 .. Len0 : p <= q => bids[p] <= bids[q]
        BY <1>0, <1>1, <2>1
    <2>3. Listed'
        BY <1>0, <2>1 DEF Listed
    <2> QED
        BY <1>0, <2>1, <2>2, <2>3 DEF Sorting, Ranked, Seated
<1> QED
    BY <1>2, <1>3

\* What vector::reverse makes of a list.
LEMMA ReverseEntries ==
    ASSUME NEW T, NEW s \in [1 .. Len0 -> T]
    PROVE  /\ Reverse(s) \in [1 .. Len0 -> T]
           /\ \A m \in 1 .. Len0 : Reverse(s)[m] = s[Len0 - m + 1]
<1>1. Len0 \in Nat
    BY BiddersFinite
<1>2. s \in Seq(T) /\ Len(s) = Len0
    BY <1>1
<1>3. \A m \in 1 .. Len0 : Len0 - m + 1 \in 1 .. Len0
    BY <1>1
<1> QED
    BY <1>1, <1>2, <1>3 DEF Reverse

\* sort_vals_impl reverses both lists.
LEMMA ReverseInv ==
    ASSUME SeatingInv, ReverseLists
    PROVE  SeatingInv'
<1> USE DEF SeatingInv
<1>0. /\ Len0 \in Nat /\ Levels \subseteq Nat
      /\ phase = "reverse" /\ phase' = "shuffle" /\ proposed' = proposed
      /\ vals' = Reverse(vals) /\ bids' = Reverse(bids) /\ i' = i /\ j' = j
      /\ offer' = offer /\ proven' = proven /\ size' = size
    BY BiddersFinite, SeatingAssumption DEF ReverseLists, Listed, input
<1>1. vals \in [1 .. Len0 -> B] /\ bids \in [1 .. Len0 -> Levels]
    BY DEF Listed
<1>2. /\ vals' \in [1 .. Len0 -> B]
      /\ \A m \in 1 .. Len0 : vals'[m] = vals[Len0 - m + 1]
    BY <1>0, <1>1, ReverseEntries
<1>3. /\ bids' \in [1 .. Len0 -> Levels]
      /\ \A m \in 1 .. Len0 : bids'[m] = bids[Len0 - m + 1]
    BY <1>0, <1>1, ReverseEntries
<1>4. \A m \in 1 .. Len0 : Len0 - m + 1 \in 1 .. Len0 /\ Len0 - (Len0 - m + 1) + 1 = m
    BY <1>0
<1>5. \A b \in B : \E k \in 1 .. Len0 : vals'[k] = b
    <2>1. ASSUME NEW b \in B PROVE \E k \in 1 .. Len0 : vals'[k] = b
        <3>1. PICK k \in 1 .. Len0 : vals[k] = b
            BY DEF Listed
        <3>2. vals'[Len0 - k + 1] = b /\ Len0 - k + 1 \in 1 .. Len0
            BY <1>2, <1>4, <3>1
        <3> QED
            BY <3>2
    <2> QED
        BY <2>1
<1>6. \A k \in 1 .. Len0 : bids'[k] = offer[vals'[k]]
    BY <1>2, <1>3, <1>4 DEF Listed
<1>7. Listed'
    BY <1>0, <1>2, <1>3, <1>5, <1>6 DEF Listed
<1>8. ASSUME NEW p \in 1 .. Len0, NEW q \in 1 .. Len0, p <= q
      PROVE  bids'[p] >= bids'[q]
    <2>1. Len0 - q + 1 <= Len0 - p + 1
        BY <1>0, <1>8
    <2>2. bids[Len0 - q + 1] <= bids[Len0 - p + 1]
        BY <1>0, <1>4, <2>1 DEF Ranked
    <2>3. bids'[q] <= bids'[p] /\ bids'[q] \in Nat /\ bids'[p] \in Nat
        BY <1>0, <1>3, <2>2
    <2> QED
        BY <2>3
<1>9. Sorting' /\ Ranked' /\ Seated'
    BY <1>0, <1>8 DEF Sorting, Ranked, Seated
<1> QED
    BY <1>7, <1>9

\* The slice that shuffle_duplicates takes next: all its bids are equal.
LEMMA SliceIsEqual ==
    ASSUME SeatingInv, phase = "shuffle", i < Len0
    PROVE  /\ SliceEnd(i) \in (i + 1) .. Len0
           /\ \A k \in (i + 1) .. SliceEnd(i) : bids[k] = bids[i + 1]
<1> DEFINE S == {k \in (i + 1) .. Len0 : k = Len0 \/ bids[k + 1] # bids[i + 1]}
<1>0. Len0 \in Nat /\ i \in Nat /\ i + 1 \in Int
    BY BiddersFinite DEF SeatingInv, Listed
<1>1. Len0 \in S /\ S \in SUBSET ((i + 1) .. Len0)
    BY <1>0
<1>2. SliceEnd(i) = Min(S)
    BY DEF SliceEnd
<1>5. \A k \in (i + 1) .. Len0 : k \notin S => k # Len0 /\ bids[k + 1] = bids[i + 1]
    OBVIOUS
<1> HIDE DEF S
<1>3. Min(S) \in S /\ \A y \in S : Min(S) <= y
    <2>1. Len0 \in Int /\ S # {}
        BY <1>0, <1>1
    <2> QED
        BY <1>0, <1>1, <2>1, LeastOf, Zenon
<1>4. SliceEnd(i) \in (i + 1) .. Len0
    BY <1>1, <1>2, <1>3
<1>6. ASSUME NEW k \in (i + 1) .. SliceEnd(i)
      PROVE  bids[k] = bids[i + 1]
    <2>1. CASE k = i + 1
        BY <2>1
    <2>2. CASE k # i + 1
        <3>1. k - 1 \in (i + 1) .. Len0 /\ k - 1 < SliceEnd(i) /\ (k - 1) + 1 = k
            BY <1>0, <1>4, <2>2
        <3>2. k - 1 \notin S
            BY <1>0, <1>2, <1>3, <1>4, <3>1
        <3> QED
            BY <1>5, <3>1, <3>2
    <2> QED
        BY <2>1, <2>2
<1> QED
    BY <1>4, <1>6

\* shuffle_duplicates puts a slice of equal bids into another order.
LEMMA ShuffleInv ==
    ASSUME SeatingInv, ShuffleSlice
    PROVE  SeatingInv'
<1> USE DEF SeatingInv
<1> DEFINE end == SliceEnd(i)
           I == (i + 1) .. end
<1>0. /\ Len0 \in Nat /\ i \in Nat /\ i < Len0
      /\ phase = "shuffle" /\ phase' = "shuffle" /\ proposed' = proposed
      /\ bids' = bids /\ i' = end /\ j' = j
      /\ offer' = offer /\ proven' = proven /\ size' = size
    BY BiddersFinite DEF ShuffleSlice, Listed, input
<1>1. end \in (i + 1) .. Len0 /\ \A k \in I : bids[k] = bids[i + 1]
    BY <1>0, SliceIsEqual
<1>2. PICK perm \in Bijection(I, I) :
        vals' = [k \in 1 .. Len0 |-> IF k \in I THEN vals[perm[k]] ELSE vals[k]]
    BY DEF ShuffleSlice
<1> HIDE DEF end
<1>3. I \subseteq 1 .. Len0
    BY <1>0, <1>1
<1> HIDE DEF I
<1>4. /\ \A k \in I : perm[k] \in I
      /\ \A m \in I : \E k \in I : perm[k] = m
    BY DEF Bijection, Surjection, Injection
<1>5. vals \in [1 .. Len0 -> B] /\ \A k \in 1 .. Len0 : bids[k] = offer[vals[k]]
    BY DEF Listed
<1>6. vals' \in [1 .. Len0 -> B]
    BY <1>2, <1>3, <1>4, <1>5
<1>7. \A b \in B : \E k \in 1 .. Len0 : vals'[k] = b
    <2>1. ASSUME NEW b \in B PROVE \E k \in 1 .. Len0 : vals'[k] = b
        <3>1. PICK m \in 1 .. Len0 : vals[m] = b
            BY DEF Listed
        <3>2. CASE m \in I
            <4>1. PICK k \in I : perm[k] = m
                BY <1>4, <3>2
            <4> QED
                BY <1>2, <1>3, <3>1, <4>1
        <3>3. CASE m \notin I
            BY <1>2, <3>1, <3>3
        <3> QED
            BY <3>2, <3>3
    <2> QED
        BY <2>1
<1>8. \A k \in 1 .. Len0 : bids'[k] = offer[vals'[k]]
    <2>1. ASSUME NEW k \in 1 .. Len0 PROVE bids[k] = offer[vals'[k]]
        <3>1. CASE k \in I
            <4>1. vals'[k] = vals[perm[k]] /\ perm[k] \in I /\ perm[k] \in 1 .. Len0
                BY <1>2, <1>3, <1>4, <3>1
            <4>2. bids[perm[k]] = bids[k]
                BY <1>1, <3>1, <4>1
            <4> QED
                BY <1>5, <4>1, <4>2
        <3>2. CASE k \notin I
            BY <1>2, <1>5, <3>2
        <3> QED
            BY <3>1, <3>2
    <2> QED
        BY <1>0, <2>1
<1>9. Listed'
    <2>1. end \in 0 .. Len0
        BY <1>0, <1>1
    <2> QED
        BY <1>0, <1>6, <1>7, <1>8, <2>1 DEF Listed
<1>10. Sorting' /\ Ranked' /\ Seated'
    BY <1>0 DEF Sorting, Ranked, Seated
<1> QED
    BY <1>9, <1>10

\* The seats are filled from the front of the ranked list.
LEMMA ShuffleDoneInv ==
    ASSUME SeatingInv, ShuffleDone
    PROVE  SeatingInv'
<1> USE DEF SeatingInv
<1>0. /\ Len0 \in Nat /\ size \in Nat
      /\ phase = "shuffle" /\ phase' = "fill" /\ i' = 0 /\ j' = j
      /\ vals' = vals /\ bids' = bids /\ proposed' = proposed /\ proposed = <<>>
      /\ offer' = offer /\ proven' = proven /\ size' = size
    BY BiddersFinite DEF ShuffleDone, Listed, Seated, input
<1>1. Listed' /\ Sorting' /\ Ranked'
    BY <1>0 DEF Listed, Sorting, Ranked
<1>2. Range(<<>>) = {} /\ {} \ proven = {}
    BY DEF Range
<1>3. IsFiniteSet({}) /\ Cardinality({}) = 0
    BY FS_EmptySet
<1>4. UnprovenQuota \in Nat /\ UnprovenQuota' = UnprovenQuota
    BY <1>0 DEF UnprovenQuota
<1>5. Seats'
    <2>1. proposed' = <<>> /\ Range(proposed') = {} /\ Range(proposed') \ proven' = {}
        BY <1>0, <1>2
    <2>2. proposed' \in Seq(B) /\ Len(proposed') = 0 /\ 0 <= size'
        BY <1>0
    <2>3. \A k \in 1 .. i' : FALSE
        BY <1>0
    <2>4. Cardinality(Range(proposed') \ proven') <= UnprovenQuota'
        <3>1. Cardinality(Range(proposed') \ proven') = 0
            BY <1>3, <2>1, Zenon
        <3> QED
            BY <1>4, <3>1
    <2>5. IsFiniteSet(Range(proposed')) /\ Cardinality(Range(proposed')) = Len(proposed')
        BY <1>3, <2>1, <2>2
    <2> QED
        BY <2>1, <2>2, <2>3, <2>4, <2>5 DEF Seats
<1> QED
    BY <1>0, <1>1, <1>5 DEF Seated

\* The seats depend on the list, the loop's counter and the seats filled.
LEMMA SeatsStay ==
    ASSUME Seats, vals' = vals, i' = i, proposed' = proposed,
           offer' = offer, proven' = proven, size' = size
    PROVE  Seats'
<1>1. UnprovenQuota' = UnprovenQuota
    BY DEF UnprovenQuota
<1>3. \A k \in 1 .. i : vals[k] \in Range(proposed) \/ PassedOver(vals[k])
    BY DEF Seats
<1>4. (\A k \in 1 .. i : vals[k] \in Range(proposed) \/ PassedOver(vals[k]))'
    BY <1>1, <1>3 DEF PassedOver
<1>5. /\ (proposed \in Seq(B))' /\ (Len(proposed) <= size)'
      /\ IsFiniteSet(Range(proposed))' /\ (Cardinality(Range(proposed)) = Len(proposed))'
      /\ (Range(proposed) \subseteq Firsts(vals, i))'
      /\ (Cardinality(Range(proposed) \ proven) <= UnprovenQuota)'
      /\ (proposed # <<>> => \A v \in Range(proposed) : offer[Last(proposed)] <= offer[v])'
    BY <1>1 DEF Seats
<1> QED
    BY <1>4, <1>5, Zenon DEF Seats

\* The loop of fill_seats_and_get_price ends.
LEMMA FillDoneInv ==
    ASSUME SeatingInv, FillDone
    PROVE  SeatingInv'
<1> USE DEF SeatingInv, FillDone
<1>1. /\ phase = "fill" /\ phase' = "done" /\ i' = i /\ j' = j
      /\ vals' = vals /\ bids' = bids /\ proposed' = proposed
      /\ offer' = offer /\ proven' = proven /\ size' = size
    BY DEF input
<1>2. Listed' /\ Sorting' /\ Ranked'
    BY <1>1 DEF Listed, Sorting, Ranked
<1>4. Seats
    BY <1>1 DEF Seated
<1>3. Seats'
    BY <1>1, <1>4, SeatsStay
<1> QED
    BY <1>1, <1>2, <1>3 DEF Seated

\* A turn of the loop of fill_seats_and_get_price: the next bidder gets a seat,
\* or the quota for unproven bidders is used up by bidders who offer as much.
LEMMA VisitInv ==
    ASSUME SeatingInv, VisitBidder
    PROVE  SeatingInv'
<1> USE DEF SeatingInv
<1> DEFINE v == vals[i + 1]
           R == Range(proposed)
<1>0. /\ Len0 \in Nat /\ i \in Nat /\ i < Len0 /\ size \in Nat /\ Len(proposed) < size
      /\ phase = "fill" /\ phase' = "fill" /\ i' = i + 1 /\ j' = j
      /\ vals' = vals /\ bids' = bids
      /\ offer' = offer /\ proven' = proven /\ size' = size
      /\ proposed' = SeatNext(proposed, v)
    BY BiddersFinite DEF VisitBidder, Listed, input
<1>1. Listed' /\ Sorting' /\ Ranked'
    BY <1>0 DEF Listed, Sorting, Ranked
<1>2. Seats
    BY <1>0 DEF Seated
<1>3. /\ vals \in [1 .. Len0 -> B] /\ IsInjective(vals) /\ i + 1 \in 1 .. Len0
      /\ v \in B
    BY <1>0, AllOnce DEF Listed, B
<1>4. /\ v \notin Firsts(vals, i)
      /\ Firsts(vals, i + 1) = Firsts(vals, i) \cup {v}
    BY <1>0, <1>3 DEF Firsts, IsInjective
<1>5. ASSUME NEW u \in Firsts(vals, i)
      PROVE  offer[u] >= offer[v]
    <2>1. PICK k \in 1 .. i : u = vals[k]
        BY DEF Firsts
    <2>2. k \in 1 .. Len0 /\ k <= i + 1
        BY <1>0
    <2>3. bids[k] >= bids[i + 1] /\ bids[k] = offer[vals[k]] /\ bids[i + 1] = offer[v]
        BY <1>0, <1>3, <2>2 DEF Ranked, Listed
    <2> QED
        BY <2>1, <2>3
<1>6. UnprovenQuota \in Nat /\ UnprovenQuota' = UnprovenQuota
    BY <1>0 DEF UnprovenQuota
<1>7. /\ proposed \in Seq(B) /\ IsFiniteSet(R) /\ Cardinality(R) = Len(proposed)
      /\ R \subseteq Firsts(vals, i) /\ v \notin R
      /\ IsFiniteSet(R \ proven) /\ Cardinality(R \ proven) \in Nat
      /\ Cardinality(R \ proven) <= UnprovenQuota
      /\ \A k \in 1 .. i : vals[k] \in R \/ PassedOver(vals[k])
    BY <1>2, <1>4, FS_Subset, FS_CardinalityType DEF Seats
<1>8. CASE MaySeat(v, proposed)
    <2>1. proposed' = Append(proposed, v)
        BY <1>0, <1>8 DEF SeatNext
    <2>2. /\ proposed' \in Seq(B) /\ Len(proposed') = Len(proposed) + 1
          /\ Last(proposed') = v /\ proposed' # <<>>
        BY <1>3, <1>7, <2>1 DEF Last
    <2>3. Range(proposed') = R \cup {v}
        BY <1>3, <1>7, <2>1 DEF Range
    <2>4. IsFiniteSet(Range(proposed')) /\ Cardinality(Range(proposed')) = Len(proposed')
        <3>1. IsFiniteSet(R \cup {v}) /\ Cardinality(R \cup {v}) = Cardinality(R) + 1
            BY <1>7, FS_AddElement, Zenon
        <3>2. Cardinality(R \cup {v}) = Len(proposed')
            BY <1>7, <2>2, <3>1, Zenon
        <3> QED
            BY <2>3, <3>1, <3>2, Zenon
    <2>5. Range(proposed') \subseteq Firsts(vals, i + 1)
        BY <1>4, <1>7, <2>3
    <2>6. \A u \in Range(proposed') : offer[Last(proposed')] <= offer[u]
        <3>1. offer \in [B -> Levels] /\ Levels \subseteq Nat
            BY SeatingAssumption DEF Listed
        <3>2. ASSUME NEW u \in Range(proposed') PROVE offer[v] <= offer[u]
            <4>1. CASE u = v
                <5>1. offer[v] \in Nat
                    BY <1>3, <3>1
                <5>2. offer[v] <= offer[v]
                    BY <5>1
                <5> QED
                    BY <4>1, <5>2, Zenon
            <4>2. CASE u \in R
                <5>1. u \in B
                    BY <1>7, <4>2 DEF Range
                <5>2. offer[u] >= offer[v] /\ offer[u] \in Nat /\ offer[v] \in Nat
                    BY <1>3, <1>5, <1>7, <3>1, <4>2, <5>1
                <5> QED
                    BY <5>2
            <4> QED
                BY <2>3, <4>1, <4>2
        <3> QED
            BY <2>2, <3>2
    <2>9. ASSUME Cardinality(Range(proposed') \ proven) <= UnprovenQuota,
                 \A k \in 1 .. (i + 1) : vals[k] \in Range(proposed') \/ PassedOver(vals[k])'
          PROVE  SeatingInv'
        <3>1. Len(proposed') <= size'
            BY <1>0, <1>7, <2>2
        <3>2. \A k \in 1 .. i' : vals'[k] \in Range(proposed') \/ PassedOver(vals[k])'
            BY <1>0, <2>9
        <3>3. (Cardinality(Range(proposed) \ proven) <= UnprovenQuota)'
            BY <1>0, <1>6, <2>9, Zenon
        <3>4. (Range(proposed) \subseteq Firsts(vals, i))'
            BY <1>0, <2>5, Zenon
        <3>5. Seats'
            BY <1>0, <2>2, <2>4, <2>6, <3>1, <3>2, <3>3, <3>4 DEF Seats
        <3> QED
            BY <1>0, <1>1, <3>5 DEF Seated
    <2>7. CASE v \in proven
        <3>1. Range(proposed') \ proven = R \ proven
            BY <2>3, <2>7
        <3>2. \A k \in 1 .. (i + 1) : vals[k] \in Range(proposed') \/ PassedOver(vals[k])'
            <4>1. ASSUME NEW k \in 1 .. i, vals[k] \notin Range(proposed')
                  PROVE  PassedOver(vals[k])'
                BY <1>0, <1>6, <1>7, <2>3, <3>1, <4>1 DEF PassedOver
            <4> QED
                BY <1>0, <2>3, <4>1
        <3>3. Cardinality(Range(proposed') \ proven) <= UnprovenQuota
            BY <1>7, <3>1, Zenon
        <3> QED
            BY <2>9, <3>2, <3>3
    <2>8. CASE v \notin proven
        <3>1. Cardinality(R \ proven) < UnprovenQuota
            BY <1>8, <2>8 DEF MaySeat
        <3>2. Range(proposed') \ proven = (R \ proven) \cup {v}
            BY <2>3, <2>8
        <3>3. Cardinality(Range(proposed') \ proven) <= UnprovenQuota
            <4>1. v \notin R \ proven
                BY <1>7
            <4>2. Cardinality((R \ proven) \cup {v}) = Cardinality(R \ proven) + 1
                BY <1>7, <4>1, FS_AddElement, Zenon
            <4>3. Cardinality(Range(proposed') \ proven) = Cardinality(R \ proven) + 1
                BY <3>2, <4>2, Zenon
            <4> QED
                BY <1>6, <1>7, <3>1, <4>3
        <3>4. \A k \in 1 .. i : vals[k] \in R
            <4>1. Cardinality(R \ proven) # UnprovenQuota
                BY <1>6, <1>7, <3>1
            <4>2. \A u : ~PassedOver(u)
                BY <4>1, Zenon DEF PassedOver
            <4> QED
                BY <1>7, <4>2, Zenon
        <3>5. \A k \in 1 .. (i + 1) : vals[k] \in Range(proposed')
            BY <1>0, <2>3, <3>4
        <3> QED
            BY <2>9, <3>3, <3>5
    <2> QED
        BY <2>7, <2>8
<1>9. CASE ~MaySeat(v, proposed)
    <2>1. proposed' = proposed
        BY <1>0, <1>9 DEF SeatNext
    <2>2. v \notin proven /\ Cardinality(R \ proven) = UnprovenQuota
        BY <1>6, <1>7, <1>9 DEF MaySeat
    <2>3. PassedOver(v)
        BY <1>5, <1>7, <2>2 DEF PassedOver
    <2>4. \A k \in 1 .. (i + 1) : vals[k] \in R \/ PassedOver(vals[k])
        BY <1>0, <1>7, <2>3
    <2>5. (\A k \in 1 .. i : vals[k] \in Range(proposed) \/ PassedOver(vals[k]))'
        BY <1>0, <1>6, <2>1, <2>4 DEF PassedOver
    <2>6. Range(proposed) \subseteq Firsts(vals, i + 1)
        BY <1>4, <1>7
    <2>7. proposed # <<>> => \A u \in Range(proposed) : offer[Last(proposed)] <= offer[u]
        BY <1>2 DEF Seats
    <2>8. Seats'
        BY <1>0, <1>6, <1>7, <2>1, <2>5, <2>6, <2>7 DEF Seats
    <2> QED
        BY <1>0, <1>1, <2>8 DEF Seated
<1> QED
    BY <1>8, <1>9

\* Every turn of every loop keeps the invariant.
LEMMA NextInv ==
    ASSUME SeatingInv, [Next]_vars
    PROVE  SeatingInv'
<1>1. CASE UNCHANGED vars
    <2>1. /\ phase' = phase /\ i' = i /\ j' = j /\ vals' = vals /\ bids' = bids
          /\ proposed' = proposed /\ offer' = offer /\ proven' = proven /\ size' = size
        BY <1>1 DEF vars
    <2>2. Listed' /\ Sorting' /\ Ranked'
        BY <2>1 DEF SeatingInv, Listed, Sorting, Ranked
    <2>3. Seats => Seats'
        BY <2>1, SeatsStay
    <2> QED
        BY <2>1, <2>2, <2>3 DEF SeatingInv, Seated
<1> QED
    BY <1>1, CompareInv, NextPassInv, ReverseInv, ShuffleInv, ShuffleDoneInv,
       VisitInv, FillDoneInv DEF Next, Done

\* The invariant holds in every state.
LEMMA SeatingInvariant == Spec => []SeatingInv
<1>1. Init => SeatingInv
    BY InitInv
<1>2. SeatingInv /\ [Next]_vars => SeatingInv'
    BY NextInv
<1> QED
    BY <1>1, <1>2, PTL DEF Spec

-----------------------------------------------------------------------------
(***************************************************************************)
(* The results                                                             *)
(***************************************************************************)

\* In a descending list, those in front offer at least as much as those behind.
LEMMA FrontOffersMore ==
    ASSUME SeatingInv, phase \in {"shuffle", "fill", "done"}, NEW k \in 0 .. Len0,
           NEW u \in Firsts(vals, k), NEW v \in B \ Firsts(vals, k)
    PROVE  offer[u] >= offer[v]
<1>0. Len0 \in Nat
    BY BiddersFinite
<1>1. PICK p \in 1 .. k : u = vals[p]
    BY DEF Firsts
<1>2. PICK q \in 1 .. Len0 : v = vals[q]
    BY DEF SeatingInv, Listed
<1>3. ~(q <= k)
    <2>1. SUFFICES ASSUME q <= k PROVE FALSE
        OBVIOUS
    <2>2. q \in 1 .. k
        BY <1>0, <2>1
    <2> QED
        BY <1>2, <2>2 DEF Firsts
<1>4. p \in 1 .. Len0 /\ p <= q
    BY <1>0, <1>3
<1>5. bids[p] >= bids[q]
    BY <1>4 DEF SeatingInv, Ranked
<1>6. bids[p] = offer[u] /\ bids[q] = offer[v]
    BY <1>1, <1>2, <1>4 DEF SeatingInv, Listed
<1> QED
    BY <1>5, <1>6

\* The lists that sort_vals_impl ranks are ranked in every prefix, for every
\* list of bidders and every outcome of the shuffle: any number of validators
\* that the failover rules keep from the front are the best bidders.
THEOREM PrefixesAreRanked == Spec => []PrefixesAreTop
<1>1. ASSUME SeatingInv PROVE PrefixesAreTop
    <2>1. SUFFICES ASSUME phase \in {"shuffle", "fill", "done"}, NEW k \in 0 .. Len0
                   PROVE  Range(SubSeq(vals, 1, k)) \in TopRanked(B, k, offer)
        BY DEF PrefixesAreTop, B
    <2>2. Len0 \in Nat /\ Cardinality(B) = Len0 /\ k \in Nat /\ k <= Len0
        BY BiddersFinite DEF B
    <2>3. vals \in [1 .. Len0 -> B] /\ IsInjective(vals)
        BY <1>1, AllOnce DEF SeatingInv, Listed, B
    <2>4. Range(SubSeq(vals, 1, k)) = Firsts(vals, k)
        <3>1. vals \in Seq(B) /\ Len(vals) = Len0
            BY <2>2, <2>3
        <3>2. SubSeq(vals, 1, k) = [m \in 1 .. k |-> vals[m]]
            BY <2>2, <3>1
        <3> QED
            BY <3>2 DEF Range, Firsts
    <2>5. Cardinality(Firsts(vals, k)) = k
        <3>1. ASSUME NEW f \in [1 .. Len0 -> B], IsInjective(f)
              PROVE  Cardinality(Firsts(f, k)) = k
            BY <2>2, <3>1, CountFirsts
        <3> QED
            BY <2>3, <3>1
    <2>6. Firsts(vals, k) \in SUBSET B
        BY <2>2, <2>3 DEF Firsts
    <2>7. \A u \in Firsts(vals, k), v \in B \ Firsts(vals, k) : offer[u] >= offer[v]
        BY <1>1, <2>1, FrontOffersMore
    <2>8. k = IF k < Cardinality(B) THEN k ELSE Cardinality(B)
        BY <2>2
    <2> QED
        BY <2>4, <2>5, <2>6, <2>7, <2>8 DEF TopRanked
<1>2. SeatingInv => PrefixesAreTop
    BY <1>1
<1> QED
    BY <1>2, SeatingInvariant, PTL

\* fill_seats_and_get_price seats what the definition of an auction with a quota
\* allows, for any number of seats and bidders, and the bidder seated last, who
\* sets the price, offers least of all who are seated.
THEOREM SeatsAreWon == Spec => []SeatedAreWinners
<1>1. ASSUME SeatingInv PROVE SeatedAreWinners
    <2> DEFINE w == Range(proposed)
    <2>1. SUFFICES ASSUME phase = "done"
                   PROVE  /\ w \in Winners(B, proven, size, UnprovenQuota, offer)
                          /\ proposed # <<>> =>
                                \A v \in w : offer[Last(proposed)] <= offer[v]
        BY DEF SeatedAreWinners, B
    <2>2. Seats /\ (Len(proposed) >= size \/ i >= Len0) /\ i \in 0 .. Len0 /\ size \in Nat
        BY <1>1, <2>1 DEF SeatingInv, Seated, Listed
    <2>3. vals \in [1 .. Len0 -> B] /\ Len0 \in Nat
        BY <1>1, BiddersFinite DEF SeatingInv, Listed
    <2>4. w \in SUBSET B
        BY <2>2 DEF Seats, Range
    <2>5. Cardinality(w) = Len(proposed) /\ Len(proposed) \in Nat /\ Len(proposed) <= size
        BY <2>2 DEF Seats
    <2>6. ASSUME NEW v \in B \ w
          PROVE  \/ /\ Cardinality(w) = size
                    /\ \A u \in w : offer[u] >= offer[v]
                 \/ /\ v \notin proven
                    /\ Cardinality(w \ proven) = UnprovenQuota
                    /\ \A u \in w \ proven : offer[u] >= offer[v]
        <3>1. CASE v \in Firsts(vals, i)
            <4>1. PICK k \in 1 .. i : v = vals[k]
                BY <3>1 DEF Firsts
            <4>2. PassedOver(v)
                BY <2>2, <4>1 DEF Seats
            <4> QED
                BY <4>2 DEF PassedOver
        <3>2. CASE v \notin Firsts(vals, i)
            <4>1. \A u \in w : offer[u] >= offer[v]
                BY <1>1, <2>1, <2>2, <3>2, FrontOffersMore DEF Seats
            <4>2. ~(i >= Len0)
                <5>1. PICK q \in 1 .. Len0 : v = vals[q]
                    BY <1>1 DEF SeatingInv, Listed
                <5>2. q \notin 1 .. i
                    BY <3>2, <5>1 DEF Firsts
                <5> QED
                    BY <2>2, <2>3, <5>2
            <4>3. Cardinality(w) = size
                BY <2>2, <2>5, <4>2
            <4> QED
                BY <4>1, <4>3
        <3> QED
            BY <3>1, <3>2
    <2>7. Cardinality(w) <= size /\ Cardinality(w \ proven) <= UnprovenQuota
        BY <2>2, <2>5 DEF Seats
    <2>8. w \in Winners(B, proven, size, UnprovenQuota, offer)
        BY <2>4, <2>6, <2>7 DEF Winners
    <2> QED
        BY <2>2, <2>8 DEF Seats
<1>2. SeatingInv => SeatedAreWinners
    BY <1>1
<1> QED
    BY <1>2, SeatingInvariant, PTL
=============================================================================
