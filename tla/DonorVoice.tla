----------------------------- MODULE DonorVoice -----------------------------
(***************************************************************************)
(* Community wallets: the payments their authorities propose, the pipeline *)
(* that pays them at the epoch boundary after a period of review, and what *)
(* the donors can do about it: veto a payment, liquidate the wallet,       *)
(* renew its mandate (donor_voice_txs, donor_voice_governance,             *)
(* donor_voice_reauth, multi_action, ballot, community_wallet_advance).    *)
(*                                                                         *)
(* Authorities, donors and payees are accounts that are authorized         *)
(* themselves, the chain is not in governance mode, and every wallet       *)
(* liquidates to the matching index, as init_community and the migration   *)
(* set it and nothing unsets.  The set of authorities does not change.     *)
(*                                                                         *)
(* A transaction is one step.  The boundary, one transaction too, is taken *)
(* loop turn by loop turn; nothing else is enabled while it runs.  A step  *)
(* that is not enabled stands for an abort.                                *)
(***************************************************************************)
EXTENDS Turnout, Sequences, FiniteSets, Functions

CONSTANTS
  Wallets, Donors, Payees,
  Authorities,     \* the signers of the multisig that vote
  Orders,          \* what a payment says: payee, value and description
  Payee, Value,    \* functions of the order
  NumSigs,         \* signatures that the multisig requires
  InitSlow,        \* the payees that are slow wallets at the start
  InitGifts,       \* what each donor has given so far
  InitMandate,     \* the wallets that start with a mandate of their donors
  Amounts,         \* what a donation or a repayment may be
  MinTurnout,      \* cfg_min_turnout
  PaymentDays,     \* DEFAULT_PAYMENT_DURATION
  VetoDays,        \* DEFAULT_VETO_DURATION
  LiquidationDays, \* LIQUIDATION_TALLY_DAYS
  ReauthDays,      \* REAUTH_TALLY_EXPIRES
  MinTallyDays,    \* the shortest ballot that propose_gov opens
  ProposalDays,    \* DEFAULT_EPOCHS_EXPIRE
  MaxEpoch,        \* bound: the epoch counter stops here, boundaries go on
  MaxId,           \* bound: payments proposed per wallet
  MaxGifts,        \* bound: what is donated to a wallet in total
  MaxBallots,      \* bound: ballots of each kind opened on a wallet
  Lapsing          \* bound: wallets whose mandate or activity may lapse

Kinds == {"veto", "liquidate", "reauth"}

TotalGifts(g) == SumFunctionOnSet(g, Donors)

ASSUME DonorVoiceAssumption ==
  /\ IsFiniteSet(Donors) /\ IsFiniteSet(Authorities)
  /\ Payee \in [Orders -> Payees] /\ Value \in [Orders -> Nat]
  /\ InitSlow \subseteq Payees /\ InitMandate \subseteq Wallets
  /\ InitGifts \in [Wallets -> [Donors -> Nat]]
  /\ Amounts \subseteq Nat
  /\ NumSigs \in Nat \ {0} /\ MinTurnout \in 1..PCT_SCALE
  /\ PaymentDays \in Nat \ {0} /\ VetoDays \in Nat /\ LiquidationDays \in Nat
  /\ ReauthDays \in Nat /\ MinTallyDays \in Nat /\ ProposalDays \in Nat
  /\ MaxEpoch \in Nat /\ MaxId \in Nat /\ MaxGifts \in Nat
  /\ MaxBallots \in [Kinds -> Nat] /\ Lapsing \subseteq Wallets

BPS_BALANCE_CREDIT_LINE == 50

VARIABLES
  epoch,
  slow,         \* payees whose account is a slow wallet: irreversible
  balance,      \* the coins of each wallet
  gifts,        \* receipts: what each donor has given each wallet
  cumulative,   \* CumulativeDeposits.value of each wallet
  swept,        \* what liquidation has moved to the fee account
  mandate,      \* DonorAuthorized.timestamp is within the five years
  active,       \* the account signed a transaction in the last year
  advance,      \* Advances: outstanding, withdrawn and repaid over the lifetime
  proposals,    \* Action<Payment>: the pending proposals of the multisig
  nextId,       \* the creation number of the next payment
  scheduled, vetoed, paid,   \* TxSchedule
  rejections, frozen,        \* Freeze
  ballots,      \* Governance<TurnoutTally<T>> of the three kinds
  queue,        \* Registry.liquidation_queue
  stage, todo, at, due       \* the boundary: wallets to visit, the wallet at
                             \* hand and what is left of its due_list

moneyVars == <<balance, gifts, cumulative, swept, advance>>
authVars == <<slow, mandate, active>>
pipeVars == <<scheduled, vetoed, paid, rejections, frozen>>
boundaryVars == <<stage, todo, at, due>>
vars == <<epoch, authVars, moneyVars, proposals, nextId, pipeVars, ballots, queue, boundaryVars>>

Loan == [outstanding : Nat, withdrawn : Nat, repaid : Nat]
Transfer == [id : Nat, order : Orders, deadline : Nat]
Proposal == [id : Nat, order : Orders, votes : SUBSET Authorities, expires : Nat]
Ballot == [uid : Nat, kind : Kinds, tx : Nat, deadline : Nat, max : Nat,
           approve : Nat, voters : SUBSET Donors, completed : BOOLEAN,
           list : {"pending", "approved", "rejected"}]

-----------------------------------------------------------------------------
(* A wallet as structs_init leaves it, with the donations it has received.  *)
Init ==
  /\ epoch = 0
  /\ slow = InitSlow
  /\ gifts = InitGifts
  /\ cumulative = [w \in Wallets |-> TotalGifts(InitGifts[w])]
  /\ balance = cumulative
  /\ swept = [w \in Wallets |-> 0]
  /\ mandate = [w \in Wallets |-> w \in InitMandate]
  /\ active = [w \in Wallets |-> TRUE]
  /\ advance = [w \in Wallets |-> [outstanding |-> 0, withdrawn |-> 0, repaid |-> 0]]
  /\ proposals = [w \in Wallets |-> {}]
  /\ nextId = [w \in Wallets |-> 1]
  /\ scheduled = [w \in Wallets |-> <<>>]
  /\ vetoed = [w \in Wallets |-> {}]
  /\ paid = [w \in Wallets |-> {}]
  /\ rejections = [w \in Wallets |-> 0]
  /\ frozen = [w \in Wallets |-> FALSE]
  /\ ballots = [w \in Wallets |-> {}]
  /\ queue = <<>>
  /\ stage = "open" /\ todo = {} /\ at \in Wallets /\ due = <<>>

\* a transaction of a user, between two boundaries
UserTx == stage = "open"

-----------------------------------------------------------------------------
(* Donations, slow wallets, the passing of years *)

\* ol_account::transfer to the wallet: the coins, the cumulative deposits
\* and the receipt of the donor
Donate(d, w, x) ==
  /\ UserTx
  /\ cumulative[w] + x <= MaxGifts
  /\ balance' = [balance EXCEPT ![w] = @ + x]
  /\ cumulative' = [cumulative EXCEPT ![w] = @ + x]
  /\ gifts' = [gifts EXCEPT ![w][d] = @ + x]
  /\ UNCHANGED <<epoch, swept, advance, authVars, proposals, nextId, pipeVars,
                 ballots, queue, boundaryVars>>

\* slow_wallet::user_set_slow
BecomeSlow(p) ==
  /\ UserTx
  /\ p \notin slow
  /\ slow' = slow \cup {p}
  /\ UNCHANGED <<epoch, mandate, active, moneyVars, proposals, nextId, pipeVars,
                 ballots, queue, boundaryVars>>

\* five years pass since the last reauthorization
MandateExpires(w) ==
  /\ UserTx
  /\ w \in Lapsing /\ mandate[w]
  /\ mandate' = [mandate EXCEPT ![w] = FALSE]
  /\ UNCHANGED <<epoch, slow, active, moneyVars, proposals, nextId, pipeVars,
                 ballots, queue, boundaryVars>>

\* a year passes since the account signed a transaction; a caged account
\* signs none, so this does not revert
GoInactive(w) ==
  /\ UserTx
  /\ w \in Lapsing /\ active[w]
  /\ active' = [active EXCEPT ![w] = FALSE]
  /\ UNCHANGED <<epoch, slow, mandate, moneyVars, proposals, nextId, pipeVars,
                 ballots, queue, boundaryVars>>

\* donor_voice_reauth::is_authorized; nothing calls set_requires_reauth
IsAuthorized(w) == mandate[w] /\ active[w]

-----------------------------------------------------------------------------
(* Advances of unlocked coins *)

\* total_credit_available
CreditAvailable(w) ==
  LET usage == advance[w].outstanding
      limit == (balance[w] * BPS_BALANCE_CREDIT_LINE) \div 10000
  IN IF usage > balance[w] \/ usage > limit THEN 0 ELSE limit - usage

\* can_withdraw_amount
CanWithdraw(w, x) == x > 0 /\ CreditAvailable(w) > x

\* Mutant: all the coins are logged
RepayLogsAll(w, x) ==
  /\ UserTx
  /\ x > 0 /\ advance[w].outstanding > 0
  /\ advance' = [advance EXCEPT ![w].outstanding = IF @ > x THEN @ - x ELSE 0,
                             ![w].repaid = @ + x]
  /\ balance' = [balance EXCEPT ![w] = @ + x]
  /\ UNCHANGED <<epoch, gifts, cumulative, swept, authVars, proposals, nextId,
                 pipeVars, ballots, queue, boundaryVars>>

(***************************************************************************)
(* service_loan_with_coin: at most the outstanding amount is logged, and   *)
(* log_deposit asserts that more than that is outstanding.                 *)
(***************************************************************************)
Repay(w, x) ==
  LET logged == IF x > advance[w].outstanding THEN advance[w].outstanding ELSE x
  IN /\ UserTx
     /\ logged > 0
     /\ advance[w].outstanding > logged
     /\ advance' = [advance EXCEPT ![w].outstanding = @ - logged, ![w].repaid = @ + logged]
     /\ balance' = [balance EXCEPT ![w] = @ + x]
     /\ UNCHANGED <<epoch, gifts, cumulative, swept, authVars, proposals, nextId,
                    pipeVars, ballots, queue, boundaryVars>>

-----------------------------------------------------------------------------
(* The authorities: propose_payment_tx, which is also the vote *)

\* Mutant: expired proposals are still voted on
LiveProposalsKept(w) == proposals[w]

\* lazy_cleanup_expired
LiveProposals(w) == {p \in proposals[w] : epoch <= p.expires}

\* search_proposals_by_data: pending proposals only
SameOrder(w, o) == {p \in LiveProposals(w) : p.order = o}

NewProposal(w, o) ==
  [id |-> nextId[w], order |-> o, votes |-> {}, expires |-> epoch + ProposalDays]

(***************************************************************************)
(* What the three outcomes of the call share.  p is the proposal voted     *)
(* on: the pending one with the same data, or a new one.  The caller must  *)
(* say whether it means an unlocked advance, which must agree with the     *)
(* payee and the credit.                                                   *)
(***************************************************************************)
VoteOnPayment(a, w, o, p) ==
  /\ UserTx
  /\ IsAuthorized(w)
  /\ Payee[o] \in slow \/ CanWithdraw(w, Value[o])
  /\ \/ p \in SameOrder(w, o) /\ nextId' = nextId
     \/ /\ SameOrder(w, o) = {} /\ nextId[w] <= MaxId
        /\ p = NewProposal(w, o)
        /\ nextId' = [nextId EXCEPT ![w] = @ + 1]
  /\ a \notin p.votes

CandidateProposals(w, o) == SameOrder(w, o) \cup {NewProposal(w, o)}

\* vote_impl: not enough votes yet
ApprovePayment(a, w, o) ==
  \E p \in CandidateProposals(w, o) :
    /\ VoteOnPayment(a, w, o, p)
    /\ Cardinality(p.votes \cup {a}) < NumSigs
    /\ proposals' = [proposals EXCEPT ![w] =
         (LiveProposals(w) \ {p}) \cup {[p EXCEPT !.votes = @ \cup {a}]}]
    /\ UNCHANGED <<epoch, authVars, moneyVars, pipeVars, ballots, queue, boundaryVars>>

\* Mutant: the payee is not looked at again
SchedulePaymentAnyPayee(a, w, o) ==
  \E p \in CandidateProposals(w, o) :
    /\ VoteOnPayment(a, w, o, p)
    /\ Cardinality(p.votes \cup {a}) >= NumSigs
    /\ proposals' = [proposals EXCEPT ![w] = LiveProposals(w) \ {p}]
    /\ scheduled' = [scheduled EXCEPT ![w] =
         Append(@, [id |-> p.id, order |-> o, deadline |-> epoch + PaymentDays])]
    /\ UNCHANGED <<epoch, authVars, moneyVars, vetoed, paid, rejections, frozen,
                   ballots, queue, boundaryVars>>

\* Mutant: the proposal stays open after the deciding vote
SchedulePaymentAgain(a, w, o) ==
  \E p \in CandidateProposals(w, o) :
    /\ VoteOnPayment(a, w, o, p)
    /\ Cardinality(p.votes \cup {a}) >= NumSigs
    /\ Payee[o] \in slow
    /\ proposals' = [proposals EXCEPT ![w] = LiveProposals(w)]
    /\ scheduled' = [scheduled EXCEPT ![w] =
         Append(@, [id |-> p.id, order |-> o, deadline |-> epoch + PaymentDays])]
    /\ UNCHANGED <<epoch, authVars, moneyVars, vetoed, paid, rejections, frozen,
                   ballots, queue, boundaryVars>>

\* the deciding vote for a slow payee: schedule
SchedulePayment(a, w, o) ==
  \E p \in CandidateProposals(w, o) :
    /\ VoteOnPayment(a, w, o, p)
    /\ Cardinality(p.votes \cup {a}) >= NumSigs
    /\ Payee[o] \in slow
    /\ proposals' = [proposals EXCEPT ![w] = LiveProposals(w) \ {p}]
    /\ scheduled' = [scheduled EXCEPT ![w] =
         Append(@, [id |-> p.id, order |-> o, deadline |-> epoch + PaymentDays])]
    /\ UNCHANGED <<epoch, authVars, moneyVars, vetoed, paid, rejections, frozen,
                   ballots, queue, boundaryVars>>

\* the deciding vote for an ordinary payee: transfer_credit, at once
AdvancePayment(a, w, o) ==
  \E p \in CandidateProposals(w, o) :
    /\ VoteOnPayment(a, w, o, p)
    /\ Cardinality(p.votes \cup {a}) >= NumSigs
    /\ Payee[o] \notin slow
    /\ proposals' = [proposals EXCEPT ![w] = LiveProposals(w) \ {p}]
    /\ Value[o] < balance[w]
    /\ balance' = [balance EXCEPT ![w] = @ - Value[o]]
    /\ advance' = [advance EXCEPT ![w].outstanding = @ + Value[o],
                               ![w].withdrawn = @ + Value[o]]
    /\ UNCHANGED <<epoch, authVars, gifts, cumulative, swept, pipeVars, ballots,
                   queue, boundaryVars>>

-----------------------------------------------------------------------------
(* The ballots of the donors *)

IsVoter(d, w) == gifts[w][d] > 0

PendingBallots(w, kind) == {b \in ballots[w] : b.kind = kind /\ b.list = "pending"}

\* the bound on the ballots of an instance
MayOpen(w, kind) == Cardinality({b \in ballots[w] : b.kind = kind}) < MaxBallots[kind]

\* propose_gov: the enrollment is what has been given so far
NewBallot(w, kind, tx, days) ==
  [uid |-> Cardinality(ballots[w]), kind |-> kind, tx |-> tx, max |-> cumulative[w],
   deadline |-> epoch + (IF days < MinTallyDays THEN MinTallyDays ELSE days),
   approve |-> 0, voters |-> {}, completed |-> FALSE, list |-> "pending"]

\* Mutant: the receipt of the donor is not looked up
CanVoteAgain(d, w, b) ==
  /\ ~ b.completed /\ epoch <= b.deadline
  /\ b.approve + gifts[w][d] <= b.max

(***************************************************************************)
(* turnout_tally::vote in favor, all that the entry functions offer.  A    *)
(* donor who has voted changes nothing by calling again.                   *)
(***************************************************************************)
CanVote(d, w, b) ==
  /\ ~ b.completed /\ epoch <= b.deadline
  /\ d \notin b.voters
  /\ b.approve + gifts[w][d] <= b.max

\* Mutant: a majority of the votes is enough
VotedAnyTurnout(d, w, b) ==
  LET total == b.approve + gifts[w][d]
  IN [b EXCEPT !.approve = total, !.voters = @ \cup {d}, !.completed = TRUE]

Voted(d, w, b) ==
  LET total == b.approve + gifts[w][d]
  IN [b EXCEPT !.approve = total, !.voters = @ \cup {d},
               !.completed = Passes(total, 0, b.max, MinTurnout)]

(***************************************************************************)
(* propose_veto_tx on the i-th scheduled payment: opens a ballot and votes *)
(* on it.  no_pending_proposal aborts the call when there is a ballot on   *)
(* the payment already.  First the case in which the vote does not decide: *)
(* veto_handler returns early, the payment is left as it is.               *)
(***************************************************************************)
VetoBallot(d, w, i) == Voted(d, w, NewBallot(w, "veto", scheduled[w][i].id, VetoDays))

MayProposeVeto(d, w, i) ==
  /\ UserTx
  /\ IsVoter(d, w)
  /\ i \in DOMAIN scheduled[w] /\ MayOpen(w, "veto")
  /\ \A b \in PendingBallots(w, "veto") : b.tx # scheduled[w][i].id

OpenVeto(d, w, i) ==
  /\ MayProposeVeto(d, w, i)
  /\ ~ VetoBallot(d, w, i).completed
  /\ ballots' = [ballots EXCEPT ![w] = @ \cup {VetoBallot(d, w, i)}]
  /\ UNCHANGED <<epoch, authVars, moneyVars, proposals, nextId, pipeVars, queue,
                 boundaryVars>>

(***************************************************************************)
(* The vote decides: reject and maybe_freeze.  The loop of reject goes on  *)
(* to the old length of the list it has shortened, and aborts unless the   *)
(* removed payment was the last one.                                       *)
(***************************************************************************)
Reject(w, i) ==
  /\ i = Len(scheduled[w])
  /\ scheduled' = [scheduled EXCEPT ![w] = [j \in 1..(i - 1) |-> @[j]]]
  /\ vetoed' = [vetoed EXCEPT ![w] = @ \cup {scheduled[w][i]}]
  /\ rejections' = [rejections EXCEPT ![w] = @ + 1]

\* Mutant: frozen at the second rejection
MaybeFreezeEarly(w) ==
  frozen' = IF rejections'[w] > 1 THEN [frozen EXCEPT ![w] = TRUE] ELSE frozen

MaybeFreeze(w) ==
  frozen' = IF rejections'[w] > 2 THEN [frozen EXCEPT ![w] = TRUE] ELSE frozen

PassVeto(d, w, i) ==
  /\ MayProposeVeto(d, w, i)
  /\ VetoBallot(d, w, i).completed
  /\ ballots' = [ballots EXCEPT ![w] =
                   @ \cup {[VetoBallot(d, w, i) EXCEPT !.list = "approved"]}]
  /\ Reject(w, i)
  /\ MaybeFreeze(w)
  /\ UNCHANGED <<epoch, authVars, moneyVars, proposals, nextId, paid, queue, boundaryVars>>

\* propose_liquidate_tx opens the ballot without a vote
ProposeLiquidation(d, w) ==
  /\ UserTx
  /\ IsVoter(d, w)
  /\ PendingBallots(w, "liquidate") = {} /\ MayOpen(w, "liquidate")
  /\ ballots' = [ballots EXCEPT ![w] =
                   @ \cup {NewBallot(w, "liquidate", 0, LiquidationDays)}]
  /\ UNCHANGED <<epoch, authVars, moneyVars, proposals, nextId, pipeVars, queue,
                 boundaryVars>>

(***************************************************************************)
(* vote_liquidation_tx.  The ballot that passes is completed and stays in  *)
(* the pending list: vote_liquidation does not call maybe_complete.        *)
(***************************************************************************)
VoteLiquidation(d, w) ==
  /\ UserTx
  /\ IsVoter(d, w)
  /\ \E b \in PendingBallots(w, "liquidate") :
       /\ CanVote(d, w, b)
       /\ ballots' = [ballots EXCEPT ![w] = (@ \ {b}) \cup {Voted(d, w, b)}]
       /\ frozen' = [frozen EXCEPT ![w] = @ \/ Voted(d, w, b).completed]
       /\ queue' = IF Voted(d, w, b).completed THEN Append(queue, w) ELSE queue
  /\ UNCHANGED <<epoch, authVars, moneyVars, proposals, nextId, scheduled, vetoed,
                 paid, rejections, boundaryVars>>

\* vote_reauth_tx with no ballot pending: maybe_propose_reauth
ProposeReauth(d, w) ==
  /\ UserTx
  /\ IsVoter(d, w)
  /\ PendingBallots(w, "reauth") = {} /\ MayOpen(w, "reauth")
  /\ ~ IsAuthorized(w)
  /\ ballots' = [ballots EXCEPT ![w] = @ \cup {NewBallot(w, "reauth", 0, ReauthDays)}]
  /\ UNCHANGED <<epoch, authVars, moneyVars, proposals, nextId, pipeVars, queue,
                 boundaryVars>>

\* Mutant: the first vote renews the mandate
VoteReauthRenews(d, w) ==
  /\ UserTx
  /\ IsVoter(d, w)
  /\ \E b \in PendingBallots(w, "reauth") :
       /\ CanVote(d, w, b)
       /\ ballots' = [ballots EXCEPT ![w] = (@ \ {b}) \cup {Voted(d, w, b)}]
       /\ mandate' = [mandate EXCEPT ![w] = TRUE]
  /\ UNCHANGED <<epoch, slow, active, moneyVars, proposals, nextId, pipeVars, queue,
                 boundaryVars>>

\* vote_reauth_tx on the pending ballot; the one that passes renews the
\* mandate (reauthorize_now) and is moved (maybe_complete)
VoteReauth(d, w) ==
  /\ UserTx
  /\ IsVoter(d, w)
  /\ \E b \in PendingBallots(w, "reauth") :
       /\ CanVote(d, w, b)
       /\ LET v == Voted(d, w, b)
          IN /\ mandate' = [mandate EXCEPT ![w] = @ \/ v.completed]
             /\ ballots' = [ballots EXCEPT ![w] = (@ \ {b}) \cup
                  {IF v.completed THEN [v EXCEPT !.list = "approved"] ELSE v}]
  /\ UNCHANGED <<epoch, slow, active, moneyVars, proposals, nextId, pipeVars, queue,
                 boundaryVars>>

\* maybe_close_reauth: garbage_gov
CloseReauth(w) ==
  LET expired == {b \in PendingBallots(w, "reauth") : epoch > b.deadline}
  IN /\ UserTx
     /\ expired # {}
     /\ ballots' = [ballots EXCEPT ![w] =
          (@ \ expired) \cup {[b EXCEPT !.list = "rejected"] : b \in expired}]
     /\ UNCHANGED <<epoch, authVars, moneyVars, proposals, nextId, pipeVars, queue,
                    boundaryVars>>

-----------------------------------------------------------------------------
(* The epoch boundary: process_donor_voice_accounts *)

(***************************************************************************)
(* vm_liquidate first.  Its loop removes the visited wallet from its copy  *)
(* of the queue and counts up all the same, so that it aborts on a queue   *)
(* of two; the queue itself is never shortened.                            *)
(***************************************************************************)
BeginBoundary ==
  /\ stage = "open"
  /\ Len(queue) <= 1
  /\ LET drained == {queue[i] : i \in DOMAIN queue}
     IN /\ balance' = [w \in Wallets |-> IF w \in drained THEN 0 ELSE balance[w]]
        /\ swept' = [w \in Wallets |-> IF w \in drained THEN swept[w] + balance[w]
                                       ELSE swept[w]]
  /\ stage' = "pay" /\ todo' = Wallets /\ UNCHANGED <<at, due>>
  /\ UNCHANGED <<epoch, authVars, gifts, cumulative, advance, proposals, nextId,
                 pipeVars, ballots, queue>>

(***************************************************************************)
(* vector::stable_partition: f lists the positions of s so that the k      *)
(* payments that are due later than epoch e come first, both groups in     *)
(* their old order.                                                        *)
(***************************************************************************)
Rearrangements(s) ==
  {f \in [DOMAIN s -> DOMAIN s] : \A i, j \in DOMAIN s : f[i] = f[j] => i = j}

\* Mutant: a payment is taken for due the epoch before its deadline
StablePartitionEarly(s, e, f, k) ==
  /\ \A i \in DOMAIN s : s[f[i]].deadline > e + 1 <=> i <= k
  /\ \A i, j \in DOMAIN s : i < j /\ (j <= k \/ i > k) => f[i] < f[j]

StablePartition(s, e, f, k) ==
  /\ \A i \in DOMAIN s : s[f[i]].deadline > e <=> i <= k
  /\ \A i, j \in DOMAIN s : i < j /\ (j <= k \/ i > k) => f[i] < f[j]

\* filter_scheduled_due on the next wallet of the registry
FilterDue(w) ==
  /\ stage = "pay" /\ due = <<>> /\ w \in todo
  /\ todo' = todo \ {w}
  /\ at' = w
  /\ \E f \in Rearrangements(scheduled[w]), k \in 0..Len(scheduled[w]) :
       /\ StablePartition(scheduled[w], epoch, f, k)
       /\ scheduled' = [scheduled EXCEPT ![w] = [i \in 1..k |-> @[f[i]]]]
       /\ due' = [i \in 1..(Len(scheduled[w]) - k) |-> scheduled[w][f[k + i]]]
  /\ UNCHANGED <<epoch, authVars, moneyVars, proposals, nextId, vetoed, paid,
                 rejections, frozen, ballots, queue, stage>>

\* The loop of maybe_pay_deadline takes the payments from the back.  A payee
\* that is not slow would take it to a branch that may abort the boundary.
NextDue == due[Len(due)]
PopDue == due' = [i \in 1..(Len(due) - 1) |-> due[i]]

Affordable == Value[NextDue.order] > 0 /\ Value[NextDue.order] <= balance[at]

TakeDue ==
  /\ stage = "pay" /\ due # <<>>
  /\ Payee[NextDue.order] \in slow
  /\ PopDue

\* Mutant: the whole balance goes when the value is not covered
PayDuePartly ==
  /\ TakeDue
  /\ Value[NextDue.order] > 0 /\ balance[at] > 0
  /\ balance' = [balance EXCEPT ![at] =
       IF @ > Value[NextDue.order] THEN @ - Value[NextDue.order] ELSE 0]
  /\ paid' = [paid EXCEPT ![at] = @ \cup {NextDue}]
  /\ rejections' = [rejections EXCEPT ![at] = 0]
  /\ UNCHANGED <<epoch, authVars, gifts, cumulative, swept, advance, proposals,
                 nextId, scheduled, vetoed, frozen, ballots, queue, stage, todo, at>>

\* handle_slow_wallet_payment succeeds
PayDue ==
  /\ TakeDue
  /\ Affordable
  /\ balance' = [balance EXCEPT ![at] = @ - Value[NextDue.order]]
  /\ paid' = [paid EXCEPT ![at] = @ \cup {NextDue}]
  /\ rejections' = [rejections EXCEPT ![at] = 0]
  /\ UNCHANGED <<epoch, authVars, gifts, cumulative, swept, advance, proposals,
                 nextId, scheduled, vetoed, frozen, ballots, queue, stage, todo, at>>

\* Mutant: a payment that cannot be made is dropped
RequeueDueDrops ==
  /\ TakeDue
  /\ ~ Affordable
  /\ UNCHANGED <<epoch, authVars, moneyVars, proposals, nextId, scheduled, vetoed, paid,
                 rejections, frozen, ballots, queue, stage, todo, at>>

\* it does not: back to the end of the schedule
RequeueDue ==
  /\ TakeDue
  /\ ~ Affordable
  /\ scheduled' = [scheduled EXCEPT ![at] = Append(@, NextDue)]
  /\ UNCHANGED <<epoch, authVars, moneyVars, proposals, nextId, vetoed, paid,
                 rejections, frozen, ballots, queue, stage, todo, at>>

EndBoundary ==
  /\ stage = "pay" /\ todo = {} /\ due = <<>>
  /\ stage' = "open"
  /\ epoch' = IF epoch < MaxEpoch THEN epoch + 1 ELSE epoch
  /\ UNCHANGED <<authVars, moneyVars, proposals, nextId, pipeVars, ballots, queue,
                 todo, at, due>>

-----------------------------------------------------------------------------
Boundary ==
  \/ BeginBoundary
  \/ \E w \in Wallets : FilterDue(w)
  \/ PayDue
  \/ RequeueDue
  \/ EndBoundary

DonorTx(d, w) ==
  \/ \E x \in Amounts : Donate(d, w, x)
  \/ \E i \in DOMAIN scheduled[w] : OpenVeto(d, w, i) \/ PassVeto(d, w, i)
  \/ ProposeLiquidation(d, w) \/ VoteLiquidation(d, w)
  \/ ProposeReauth(d, w) \/ VoteReauth(d, w)

AuthorityTx(a, w, o) ==
  ApprovePayment(a, w, o) \/ SchedulePayment(a, w, o) \/ AdvancePayment(a, w, o)

OtherTx ==
  \/ \E p \in Payees : BecomeSlow(p)
  \/ \E w \in Wallets : MandateExpires(w) \/ GoInactive(w) \/ CloseReauth(w)
  \/ \E w \in Wallets, x \in Amounts : Repay(w, x)

Next ==
  \/ Boundary
  \/ \E d \in Donors, w \in Wallets : DonorTx(d, w)
  \/ \E a \in Authorities, w \in Wallets, o \in Orders : AuthorityTx(a, w, o)
  \/ OtherTx

Spec == Init /\ [][Next]_vars

\* epoch boundaries come as the blocks do, and the transaction runs to its end
FairSpec == Spec /\ WF_vars(Boundary)

-----------------------------------------------------------------------------
(* Properties *)

(* Every variable has the type of the Move resource it stands for; no       *)
(* balance or loan is driven below zero.                                    *)
DonorVoiceTypeOK ==
  /\ epoch \in 0..MaxEpoch
  /\ slow \subseteq Payees
  /\ balance \in [Wallets -> Nat] /\ cumulative \in [Wallets -> Nat]
  /\ swept \in [Wallets -> Nat] /\ gifts \in [Wallets -> [Donors -> Nat]]
  /\ mandate \in [Wallets -> BOOLEAN] /\ active \in [Wallets -> BOOLEAN]
  /\ advance \in [Wallets -> Loan]
  /\ proposals \in [Wallets -> SUBSET Proposal]
  /\ nextId \in [Wallets -> 1..(MaxId + 1)]
  /\ scheduled \in [Wallets -> Seq(Transfer)] /\ due \in Seq(Transfer)
  /\ vetoed \in [Wallets -> SUBSET Transfer] /\ paid \in [Wallets -> SUBSET Transfer]
  /\ rejections \in [Wallets -> Nat] /\ frozen \in [Wallets -> BOOLEAN]
  /\ ballots \in [Wallets -> SUBSET Ballot]
  /\ queue \in Seq(Wallets)
  /\ stage \in {"open", "pay"} /\ todo \subseteq Wallets /\ at \in Wallets

\* what the due_list of the running boundary holds for the wallet
DueOf(w) == IF at = w THEN due ELSE <<>>

Ids(S) == {t.id : t \in S}

(* A payment is in one place: proposed, scheduled, due at the running        *)
(* boundary, vetoed or paid, and there once.  No payment is made twice, and  *)
(* none that was vetoed is made (schedule, reject, maybe_pay_deadline).      *)
PaymentsInOnePlace ==
  \A w \in Wallets :
    /\ \A i, j \in DOMAIN scheduled[w] : scheduled[w][i].id = scheduled[w][j].id => i = j
    /\ \A i, j \in DOMAIN DueOf(w) : DueOf(w)[i].id = DueOf(w)[j].id => i = j
    /\ \A i \in DOMAIN scheduled[w] :
         /\ scheduled[w][i].id \notin Ids(vetoed[w]) \cup Ids(paid[w]) \cup Ids(proposals[w])
         /\ \A j \in DOMAIN DueOf(w) : scheduled[w][i].id # DueOf(w)[j].id
    /\ \A i \in DOMAIN DueOf(w) :
         DueOf(w)[i].id \notin Ids(vetoed[w]) \cup Ids(paid[w]) \cup Ids(proposals[w])
    /\ Ids(vetoed[w]) \cap Ids(paid[w]) = {}
    /\ Ids(proposals[w]) \cap (Ids(vetoed[w]) \cup Ids(paid[w])) = {}

(* Whatever reaches the boundary is for a slow wallet.  The branch of        *)
(* maybe_pay_deadline for other payees goes round its loop without counting, *)
(* takes from an empty list and aborts the boundary: it is never entered.    *)
ScheduledPayeesSlow ==
  \A w \in Wallets :
    /\ \A i \in DOMAIN scheduled[w] : Payee[scheduled[w][i].order] \in slow
    /\ \A i \in DOMAIN DueOf(w) : Payee[DueOf(w)[i].order] \in slow

\* what the payments of the set P took from the wallet
PaidOut(P) == SumFunctionOnSet([t \in P |-> Value[t.order]], P)

(* The coins of a wallet are what was given and repaid, less what was paid,  *)
(* advanced and swept: no path moves coins without its record, and no record *)
(* is made without the coins (maybe_pay_deadline, transfer_credit,           *)
(* service_loan_with_coin, vm_liquidate).                                    *)
WalletBooks ==
  \A w \in Wallets :
    balance[w] + swept[w] + advance[w].withdrawn + PaidOut(paid[w])
      = TotalGifts(gifts[w]) + advance[w].repaid

(* A loan is what was withdrawn less what was repaid, and no advance took it *)
(* above the credit line of what has ever come in, whatever payments and     *)
(* repayments come between (log_withdrawal, log_deposit).                    *)
LoanWithinCredit ==
  \A w \in Wallets :
    /\ advance[w].outstanding + advance[w].repaid = advance[w].withdrawn
    /\ advance[w].outstanding * 10000
         <= (cumulative[w] + advance[w].repaid) * BPS_BALANCE_CREDIT_LINE

(* The votes of a ballot are gifts of its voters, each counted once, within  *)
(* what was given when it was opened (vote_gov, turnout_tally::vote).        *)
BallotsBacked ==
  \A w \in Wallets : \A b \in ballots[w] :
    /\ b.approve <= SumFunctionOnSet(gifts[w], b.voters)
    /\ b.approve <= b.max /\ b.max <= cumulative[w]

Quorum(b) == b.completed /\ PCT_SCALE * b.approve >= MinTurnout * b.max

(* Nothing is taken from the authorities without a quorum of the donors: a   *)
(* vetoed payment and a wallet queued for liquidation each have a ballot of  *)
(* their own that reached the minimum turnout, even after later gifts.       *)
QuorumBehindOutcome ==
  \A w \in Wallets :
    /\ \A t \in vetoed[w] :
         \E b \in ballots[w] : b.kind = "veto" /\ b.tx = t.id /\ Quorum(b)
    /\ w \in {queue[i] : i \in DOMAIN queue} =>
         \E b \in ballots[w] : b.kind = "liquidate" /\ Quorum(b)

(* A wallet is frozen for three vetoed payments or for its liquidation, and  *)
(* is queued for it once (maybe_freeze, liquidation_handler).                *)
FrozenHasCause ==
  \A w \in Wallets :
    /\ frozen[w] => \/ Cardinality(vetoed[w]) >= 3
                    \/ w \in {queue[i] : i \in DOMAIN queue}
    /\ \A i, j \in DOMAIN queue : queue[i] = queue[j] => i = j

(* A mandate that has lapsed comes back through a ballot that the donors     *)
(* passed in that very transaction (vote_reauthorize).                       *)
MandateFromDonors ==
  [][\A w \in Wallets : ~ mandate[w] /\ mandate'[w] =>
       \E b \in ballots'[w] \ ballots[w] : b.kind = "reauth" /\ Quorum(b)]_vars

(* No payment is scheduled without the other signatures on a proposal that   *)
(* has not expired, under a mandate that has not (propose_payment).          *)
SignedWhileValid ==
  [][\A w \in Wallets : Len(scheduled'[w]) > Len(scheduled[w]) /\ stage = "open" =>
       /\ IsAuthorized(w)
       /\ NumSigs > 1 =>
            \E p \in proposals[w] : /\ p.id = scheduled'[w][Len(scheduled'[w])].id
                                    /\ Cardinality(p.votes) >= NumSigs - 1
                                    /\ epoch <= p.expires]_vars

(* A payment is made at the close of the epoch of its deadline or later, the *)
(* donors having had the epochs before (filter_scheduled_due).               *)
PaidNotBeforeDeadline ==
  [][\A w \in Wallets : \A t \in paid'[w] \ paid[w] : t.deadline <= epoch]_vars

Waiting(w, id) == \E i \in DOMAIN scheduled[w] :
                    scheduled[w][i].id = id /\ scheduled[w][i].deadline <= MaxEpoch

Settled(w, id) == id \in Ids(paid[w]) \cup Ids(vetoed[w])

Shortfall(w, id) ==
  \E i \in DOMAIN scheduled[w] :
    /\ scheduled[w][i].id = id
    /\ Value[scheduled[w][i].order] = 0 \/ Value[scheduled[w][i].order] > balance[w]

(* A scheduled payment whose deadline comes is made or vetoed in the end, or *)
(* it is found on the schedule again and again while the wallet cannot pay   *)
(* it: a payment that is put back is not lost, and is made once there are    *)
(* coins for it at a boundary (maybe_pay_deadline, handle_slow_wallet_payment). *)
ScheduledIsSettled ==
  \A w \in Wallets, id \in 1..MaxId :
    (Waiting(w, id) ~> Settled(w, id)) \/ []<>Shortfall(w, id)

(* What donor_voice_txs.move:660 says of vm_liquidate: "The VM will call     *)
(* this function to liquidate all Donor Voice wallets in the queue".  With   *)
(* two wallets in the queue the call aborts, and the boundary with it.       *)
QueueIsLiquidated ==
  \A w \in Wallets : w \in {queue[i] : i \in DOMAIN queue} ~> balance[w] = 0
=============================================================================
