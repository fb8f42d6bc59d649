----------------------------- MODULE MCAlgorithms -----------------------------
(* The two algorithms that are checked by themselves, over every small        *)
(* input: the lists behind the auction, and the tally of a poll.  They share  *)
(* no state; each is explored while the other is over.  Four bidders are      *)
(* enough for a tie across the last seat and across the quota at once.        *)
EXTENDS Seating, TurnoutTally

CONSTANTS a, b, c, d

MCBidders == <<a, b, c, d>>
MCInitWeights == {1, 5, 17}
MCGrowth == {3}

\* An auction in which no seat was to fill.
AuctionOver ==
    /\ offer = [v \in Range(Bidders) |-> Min(Levels)]
    /\ proven = Range(Bidders)
    /\ size = 0
    /\ vals = Bidders
    /\ bids = [k \in 1..Len0 |-> Min(Levels)]
    /\ phase = "done"
    /\ i = 0 /\ j = 0
    /\ proposed = <<>>

\* A poll that has expired without a vote.
PollOver ==
    /\ age = Deadline + 1
    /\ weight = [v \in Voters |-> MaxWeight]
    /\ receipts = [v \in Voters |-> NotVoted]
    /\ poll = [max |-> SumFunctionOnSet(weight, Voters), approve |-> 0,
               reject |-> 0, completed |-> FALSE, pass |-> FALSE]

MCInit == (Init /\ PollOver) \/ (PollInit /\ AuctionOver)

MCNext == (Next /\ UNCHANGED pollVars) \/ (PollNext /\ UNCHANGED vars)

MCSpec == MCInit /\ [][MCNext]_<<vars, pollVars>>
=============================================================================
