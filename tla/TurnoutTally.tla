---------------------------- MODULE TurnoutTally ----------------------------
(***************************************************************************)
(* One poll of vote_lib/tally/turnout_tally.move.  Its enrollment is fixed *)
(* when it is proposed; the weight of a voter is read when the vote is     *)
(* cast, and grows with every donation in between.  A vote that would take *)
(* the total above the enrollment aborts (EVOTES_GREATER_THAN_ENROLLMENT), *)
(* and so does a vote on a closed poll (ECOMPLETED).                       *)
(***************************************************************************)
EXTENDS Turnout, FiniteSets, Functions

CONSTANTS
  Voters,
  InitWeights,   \* the weights a voter may start with
  Growth,        \* what a donation adds to a weight
  MaxWeight,     \* bound of the model: no weight grows above it
  CfgMinTurnout, \* cfg_min_turnout: 1250 on mainnet, 500 elsewhere
  Deadline       \* cfg_deadline, in epochs from the proposal

(* the turnout that is required is never above the one from which the        *)
(* threshold of approval begins to fall                                      *)
ASSUME PollAssumption ==
  /\ IsFiniteSet(Voters)
  /\ InitWeights \subseteq Nat \ {0} /\ Growth \subseteq Nat /\ MaxWeight \in Nat
  /\ CfgMinTurnout \in 1..LOW_TURNOUT_X1 /\ Deadline \in Nat \ {0}

VARIABLES
  age,        \* epochs since the proposal
  weight,     \* what the voter could cast now
  receipts,   \* vote_receipt: what each voter has cast, and for which side
  poll        \* TurnoutTally: votes_approve, votes_reject, completed, tally_pass

pollVars == <<age, weight, receipts, poll>>

Sides == {"approve", "reject"}
NotVoted == [side |-> "none", weight |-> 0]

\* new_tally_struct, with the enrollment of that moment
PollInit ==
  /\ age = 0
  /\ weight \in [Voters -> InitWeights]
  /\ receipts = [v \in Voters |-> NotVoted]
  /\ poll = [max |-> SumFunctionOnSet(weight, Voters), approve |-> 0,
             reject |-> 0, completed |-> FALSE, pass |-> FALSE]

\* is_poll_closed: the deadline is the END of its epoch
IsPollClosed == poll.completed \/ age > Deadline

\* a second vote of the same voter is not counted again
Counted(v, side) ==
  IF receipts[v] # NotVoted THEN poll
  ELSE IF side = "approve" THEN [poll EXCEPT !.approve = @ + weight[v]]
  ELSE [poll EXCEPT !.reject = @ + weight[v]]

\* Mutant: the threshold of a high turnout whatever the turnout is
SaveTallyLowThreshold(p) ==
  IF /\ Approval(p.approve, p.reject) >= THRESH_AT_HIGH_TURNOUT_Y2
     /\ Participation(p.approve, p.reject, p.max) >= CfgMinTurnout
    THEN [p EXCEPT !.completed = TRUE, !.pass = TRUE]
    ELSE [p EXCEPT !.completed = age > Deadline]

\* save_tally
SaveTally(p) ==
  IF Passes(p.approve, p.reject, p.max, CfgMinTurnout)
    THEN [p EXCEPT !.completed = TRUE, !.pass = TRUE]
    ELSE [p EXCEPT !.completed = age > Deadline]

\* vote: count, leave a receipt, tally
Vote(v, side) ==
  /\ ~ IsPollClosed
  /\ LET counted == Counted(v, side)
     IN /\ counted.approve + counted.reject <= poll.max
        /\ poll' = SaveTally(counted)
  /\ receipts' = IF receipts[v] # NotVoted THEN receipts
                 ELSE [receipts EXCEPT ![v] = [side |-> side, weight |-> weight[v]]]
  /\ UNCHANGED <<age, weight>>

\* Mutant: the total of the open poll follows the donor
DepositRecounts(v, x) ==
  /\ weight[v] + x <= MaxWeight
  /\ weight' = [weight EXCEPT ![v] = @ + x]
  /\ poll' = IF receipts[v].side = "approve" THEN [poll EXCEPT !.approve = @ + x] ELSE poll
  /\ UNCHANGED <<age, receipts>>

\* cumulative_deposits::maybe_update_deposit and receipts::write_receipt
Deposit(v, x) ==
  /\ weight[v] + x <= MaxWeight
  /\ weight' = [weight EXCEPT ![v] = @ + x]
  /\ UNCHANGED <<age, receipts, poll>>

\* an epoch ends; after the first epoch in which the poll is closed there is
\* nothing left to tell apart
NextEpoch ==
  /\ age <= Deadline
  /\ age' = age + 1
  /\ UNCHANGED <<weight, receipts, poll>>

PollNext ==
  \/ \E v \in Voters, side \in Sides : Vote(v, side)
  \/ \E v \in Voters, x \in Growth : Deposit(v, x)
  \/ NextEpoch

PollSpec == PollInit /\ [][PollNext]_pollVars

-----------------------------------------------------------------------------
(* Properties *)

CastFor(side) == SumFunctionOnSet([v \in Voters |-> receipts[v].weight],
                                  {v \in Voters : receipts[v].side = side})

(* The running totals are the receipts: no voter counts twice, whatever they *)
(* call again and however their weight grows after the vote (vote).          *)
TotalsAreReceipts == poll.approve = CastFor("approve") /\ poll.reject = CastFor("reject")

(* A poll that passed has the approval of CfgMinTurnout of the enrolled      *)
(* weight and of 51% of the votes cast, after both truncations of the fixed  *)
(* point numbers (save_tally, get_threshold_from_turnout).                   *)
PassHasSupport ==
  poll.pass =>
    /\ PCT_SCALE * poll.approve >= CfgMinTurnout * poll.max
    /\ PCT_SCALE * poll.approve >= THRESH_AT_HIGH_TURNOUT_Y2 * (poll.approve + poll.reject)
=============================================================================
