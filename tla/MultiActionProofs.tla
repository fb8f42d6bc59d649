-------------------------- MODULE MultiActionProofs --------------------------
(***************************************************************************)
(* What holds of the seats of every community wallet, for any candidates,  *)
(* thresholds, durations and number of proposals; and of the batches of    *)
(* payments that its authorities vote for.                                 *)
(***************************************************************************)
EXTENDS MultiAction, Batch, FiniteSetTheorems, SequenceTheorems, TLAPS

-----------------------------------------------------------------------------
(* Types *)

\* what is left of a list of candidates are candidates
LEMMA StillOfferedAreListed ==
  ASSUME NEW p \in Lists, NEW c
  PROVE  StillOffered(p, c) \subseteq Candidates
BY DEF StillOffered, Lists

LEMMA InitTypes == Init => MultiActionTypeOK
<1> SUFFICES ASSUME Init PROVE MultiActionTypeOK
  OBVIOUS
<1>1. epoch \in 0..MaxEpoch
  BY MultiActionAssumption DEF Init
<1>2. claimed \in [Candidates -> Nat]
  BY DEF Init
<1> QED
  BY <1>1, <1>2 DEF Init, MultiActionTypeOK

LEMMA SponsorTypes ==
  ASSUME MultiActionTypeOK, SponsorTx
  PROVE  MultiActionTypeOK'
<1>1. ASSUME NEW p \in Lists, ProposeOffer(p) PROVE MultiActionTypeOK'
  <2>1. claimed' \in [Candidates -> Nat]
    BY <1>1 DEF ProposeOffer, MultiActionTypeOK
  <2>2. StillOffered(p, claimed') \subseteq Candidates
    BY StillOfferedAreListed
  <2>3. epoch + OfferDays \in Nat
    BY MultiActionAssumption DEF MultiActionTypeOK
  <2>4. offered' = {[at |-> 0, addr |-> x, expires |-> epoch + OfferDays] :
                      x \in StillOffered(p, claimed')}
    BY <1>1 DEF ProposeOffer
  <2>5. offered' \subseteq Entry
    BY <2>2, <2>3, <2>4 DEF Entry
  <2> QED
    BY <1>1, <2>1, <2>5 DEF ProposeOffer, MultiActionTypeOK, seatVars, history
<1>2. ASSUME NEW n \in SigChoices, FinalizeAndCage(n) PROVE MultiActionTypeOK'
  BY <1>2, MultiActionAssumption
     DEF FinalizeAndCage, Claimers, MultiActionTypeOK
<1> QED
  BY <1>1, <1>2 DEF SponsorTx

LEMMA ClaimTypes ==
  ASSUME MultiActionTypeOK, NEW x \in Candidates, ClaimTx(x)
  PROVE  MultiActionTypeOK'
<1>1. CASE ClaimOffer(x)
  BY <1>1 DEF ClaimOffer, MultiActionTypeOK, seatVars, history
<1>2. CASE ClaimSeat(x)
  BY <1>2 DEF ClaimSeat, MultiActionTypeOK, history
<1>3. CASE ClaimLastSeat(x)
  BY <1>3 DEF ClaimLastSeat, MultiActionTypeOK, history
<1> QED
  BY <1>1, <1>2, <1>3 DEF ClaimTx

\* a proposal that a vote is cast on
LEMMA CandidateTypes ==
  ASSUME MultiActionTypeOK, NEW d \in PropGovSigners, NEW days \in VoteDays
  PROVE  CandidateProposals(d, days) \subseteq Proposal
<1>1. NewProposal(d, days) \in Proposal
  BY MultiActionAssumption DEF NewProposal, Proposal, MultiActionTypeOK
<1> QED
  BY <1>1 DEF CandidateProposals, SameData, Live, MultiActionTypeOK

LEMMA DecideTypes ==
  ASSUME MultiActionTypeOK, NEW a \in Candidates, NEW d \in PropGovSigners,
         NEW days \in VoteDays, Decide(a, d, days)
  PROVE  /\ proposals' \subseteq Proposal
         /\ passed' \subseteq PropGovSigners /\ decided' \in Nat
BY DEF Decide, Live, MultiActionTypeOK

LEMMA AuthorityTypes ==
  ASSUME MultiActionTypeOK, NEW a \in Candidates, NEW d \in PropGovSigners,
         NEW days \in VoteDays, AuthorityTx(a, d, days)
  PROVE  MultiActionTypeOK'
<1>1. CASE Approve(a, d, days)
  <2>1. PICK p \in CandidateProposals(d, days) :
          proposals' = (Live \ {p}) \cup {[p EXCEPT !.votes = @ \cup {a}]}
    BY <1>1 DEF Approve
  <2>2. p \in Proposal
    BY CandidateTypes
  <2>3. [p EXCEPT !.votes = @ \cup {a}] \in Proposal
    BY <2>2 DEF Proposal
  <2>4. proposals' \subseteq Proposal
    BY <2>1, <2>3 DEF Live, MultiActionTypeOK
  <2> QED
    BY <1>1, <2>4 DEF Approve, MultiActionTypeOK, seatVars, offerVars, history
<1>2. CASE PassAddition(a, d, days)
  <2>1. /\ proposals' \subseteq Proposal
        /\ passed' \subseteq PropGovSigners /\ decided' \in Nat
    BY <1>2, DecideTypes DEF PassAddition
  <2>2. [at |-> decided + 1, addr |-> d.addr, expires |-> epoch + OfferDays] \in Entry
    BY MultiActionAssumption DEF Entry, PropGovSigners, MultiActionTypeOK
  <2>3. d.n \in Nat
    BY MultiActionAssumption DEF PropGovSigners
  <2> QED
    BY <1>2, <2>1, <2>2, <2>3 DEF PassAddition, MultiActionTypeOK, seatVars
<1>3. CASE PassRemoval(a, d, days)
  <2>1. /\ proposals' \subseteq Proposal
        /\ passed' \subseteq PropGovSigners /\ decided' \in Nat
    BY <1>3, DecideTypes DEF PassRemoval
  <2>2. d.n \in Nat
    BY MultiActionAssumption DEF PropGovSigners
  <2> QED
    BY <1>3, <2>1, <2>2 DEF PassRemoval, MultiActionTypeOK
<1> QED
  BY <1>1, <1>2, <1>3 DEF AuthorityTx

LEMMA NextTypes == MultiActionTypeOK /\ [Next]_vars => MultiActionTypeOK'
<1> SUFFICES ASSUME MultiActionTypeOK, [Next]_vars PROVE MultiActionTypeOK'
  OBVIOUS
<1>1. CASE NextEpoch
  BY <1>1, MultiActionAssumption
     DEF NextEpoch, MultiActionTypeOK, seatVars, offerVars, history
<1>2. CASE SponsorTx
  BY <1>2, SponsorTypes
<1>3. ASSUME NEW x \in Candidates, ClaimTx(x) PROVE MultiActionTypeOK'
  BY <1>3, ClaimTypes
<1>4. ASSUME NEW a \in Candidates, NEW d \in PropGovSigners, NEW days \in VoteDays,
             AuthorityTx(a, d, days)
      PROVE  MultiActionTypeOK'
  BY <1>4, AuthorityTypes
<1>5. CASE UNCHANGED vars
  BY <1>5 DEF vars, seatVars, offerVars, history, MultiActionTypeOK
<1> QED
  BY <1>1, <1>2, <1>3, <1>4, <1>5 DEF Next

(* Every variable keeps the type of its Move resource: seats and offers go   *)
(* to candidates, thresholds and counts are never negative.                  *)
THEOREM MultiActionType == Spec => []MultiActionTypeOK
BY InitTypes, NextTypes, PTL DEF Spec

-----------------------------------------------------------------------------
(* The threshold *)

LEMMA FiniteCandidates ==
  ASSUME NEW set \in SUBSET Candidates
  PROVE  IsFiniteSet(set) /\ Cardinality(set) \in Nat
BY MultiActionAssumption, FS_Subset, FS_CardinalityType

\* a threshold that waits for claims was accepted by the entry function
ThresholdInv ==
  /\ MultiActionTypeOK
  /\ ThresholdReachable
  /\ nOfM # 0 => nOfM >= MINIMUM_SIGS

\* what the two ways of adding a member have in common
LEMMA OneMore ==
  ASSUME MultiActionTypeOK, NEW x \in Candidates, x \notin owners
  PROVE  Cardinality(owners \cup {x}) = Cardinality(owners) + 1
BY FiniteCandidates, FS_AddElement DEF MultiActionTypeOK

LEMMA ClaimKeepsThreshold ==
  ASSUME ThresholdInv, NEW x \in Candidates, ClaimTx(x)
  PROVE  ThresholdReachable' /\ (nOfM # 0 => nOfM >= MINIMUM_SIGS)'
<1>0. Cardinality(owners) \in Nat /\ sigs \in Nat /\ nOfM \in Nat /\ MINIMUM_SIGS \in Nat /\ MINIMUM_AUTH \in Nat
  BY FiniteCandidates, MultiActionAssumption DEF ThresholdInv, MultiActionTypeOK
<1>1. CASE ClaimOffer(x)
  BY <1>1 DEF ClaimOffer, ThresholdInv, ThresholdReachable, seatVars
<1>2. CASE ClaimSeat(x)
  <2>1. Cardinality(owners') = Cardinality(owners) + 1
    BY <1>2, OneMore DEF ClaimSeat, ThresholdInv
  <2> QED
    BY <1>0, <1>2, <2>1 DEF ClaimSeat, ThresholdInv, ThresholdReachable
<1>3. CASE ClaimLastSeat(x)
  <2>1. Cardinality(owners') = Cardinality(owners) + 1
    BY <1>3, OneMore DEF ClaimLastSeat, ThresholdInv
  <2>2. CASE nOfM = 0
    BY <1>0, <1>3, <2>1, <2>2 DEF ClaimLastSeat, ThresholdInv, ThresholdReachable
  <2>3. CASE nOfM # 0
    BY <1>0, <1>3, <2>1, <2>3
       DEF ClaimLastSeat, AllowedSigs, ThresholdInv, ThresholdReachable
  <2> QED
    BY <2>2, <2>3
<1> QED
  BY <1>1, <1>2, <1>3 DEF ClaimTx

LEMMA VoteKeepsThreshold ==
  ASSUME ThresholdInv, NEW a \in Candidates, NEW d \in PropGovSigners,
         NEW days \in VoteDays, AuthorityTx(a, d, days)
  PROVE  ThresholdReachable' /\ (nOfM # 0 => nOfM >= MINIMUM_SIGS)'
<1>0. /\ Cardinality(owners) \in Nat /\ sigs \in Nat /\ d.n \in Nat
      /\ MINIMUM_SIGS \in Nat /\ MINIMUM_AUTH \in Nat
  BY FiniteCandidates, MultiActionAssumption
     DEF ThresholdInv, MultiActionTypeOK, PropGovSigners
<1>1. CASE Approve(a, d, days)
  BY <1>1 DEF Approve, ThresholdInv, ThresholdReachable, seatVars, offerVars
<1>2. CASE PassAddition(a, d, days)
  <2>1. CanChange(a, d)
    BY <1>2 DEF PassAddition, Decide, VoteOn
  <2> QED
    BY <1>0, <1>2, <2>1
       DEF PassAddition, CanChange, ThresholdInv, ThresholdReachable, seatVars
<1>3. CASE PassRemoval(a, d, days)
  <2>1. CanChange(a, d)
    BY <1>3 DEF PassRemoval, Decide, VoteOn
  <2>2. Cardinality(owners') = Cardinality(owners) - 1
    BY <1>3, <2>1, FiniteCandidates, FS_RemoveElement
       DEF PassRemoval, CanChange, ThresholdInv, MultiActionTypeOK
  <2>3. sigs' <= Cardinality(owners')
    BY <1>0, <1>3, <2>2 DEF PassRemoval, AllowedSigs
  <2> QED
    BY <1>0, <1>3, <2>1, <2>2, <2>3
       DEF PassRemoval, CanChange, ThresholdInv, ThresholdReachable
<1> QED
  BY <1>1, <1>2, <1>3 DEF AuthorityTx

(* A caged wallet always has enough authorities to reach its threshold: no   *)
(* interleaving of removals, elections, claims and changes of the threshold  *)
(* puts its coins out of reach.                                              *)
THEOREM WalletStaysReachable == Spec => []ThresholdReachable
<1>1. Init => ThresholdInv
  BY InitTypes DEF Init, ThresholdInv, ThresholdReachable
<1>2. ASSUME ThresholdInv, [Next]_vars PROVE ThresholdInv'
  <2>1. MultiActionTypeOK'
    BY <1>2, NextTypes DEF ThresholdInv
  <2>2. CASE NextEpoch
    BY <1>2, <2>1, <2>2 DEF NextEpoch, ThresholdInv, ThresholdReachable, seatVars, offerVars
  <2>3. ASSUME NEW p \in Lists, ProposeOffer(p) PROVE ThresholdInv'
    BY <1>2, <2>1, <2>3 DEF ProposeOffer, ThresholdInv, ThresholdReachable, seatVars
  <2>4. ASSUME NEW n \in SigChoices, FinalizeAndCage(n) PROVE ThresholdInv'
    BY <2>1, <2>4
       DEF FinalizeAndCage, CanCage, MultisigThresh, ThresholdInv, ThresholdReachable
  <2>5. ASSUME NEW x \in Candidates, ClaimTx(x) PROVE ThresholdInv'
    BY <1>2, <2>1, <2>5, ClaimKeepsThreshold DEF ThresholdInv
  <2>6. ASSUME NEW a \in Candidates, NEW d \in PropGovSigners, NEW days \in VoteDays,
               AuthorityTx(a, d, days)
        PROVE  ThresholdInv'
    BY <1>2, <2>1, <2>6, VoteKeepsThreshold DEF ThresholdInv
  <2>7. CASE UNCHANGED vars
    BY <1>2, <2>1, <2>7 DEF vars, seatVars, offerVars, ThresholdInv, ThresholdReachable
  <2> QED
    BY <1>2, <2>2, <2>3, <2>4, <2>5, <2>6, <2>7 DEF Next, SponsorTx
<1>3. ThresholdInv => ThresholdReachable
  BY DEF ThresholdInv
<1> QED
  BY <1>1, <1>2, <1>3, PTL DEF Spec

-----------------------------------------------------------------------------
(* Elections *)

\* nobody votes before the cage
ElectedInv == AuthoritiesElected /\ (~ caged => proposals = {})

\* a vote only adds to what was decided
LEMMA DecisionsStand ==
  ASSUME ElectedInv, NEW a \in Candidates, NEW d \in PropGovSigners, NEW days \in VoteDays,
         Decide(a, d, days)
  PROVE  /\ caged /\ d \in passed' /\ passed \subseteq passed'
         /\ Elected \subseteq Elected' /\ (d.add => d.addr \in Elected')
         /\ proposals' \subseteq proposals
BY DEF Decide, VoteOn, CanChange, Elected, Live

LEMMA VoteElects ==
  ASSUME ElectedInv, NEW a \in Candidates, NEW d \in PropGovSigners,
         NEW days \in VoteDays, AuthorityTx(a, d, days)
  PROVE  ElectedInv'
<1>1. CASE Approve(a, d, days)
  <2>1. caged /\ a \in owners
    BY <1>1 DEF Approve, VoteOn, CanChange
  <2>2. PICK p \in CandidateProposals(d, days) :
          proposals' = (Live \ {p}) \cup {[p EXCEPT !.votes = @ \cup {a}]}
    BY <1>1 DEF Approve
  <2>3. p.votes \subseteq founders \cup Elected
    BY <2>1 DEF CandidateProposals, SameData, Live, NewProposal, ElectedInv, AuthoritiesElected
  <2>4. [p EXCEPT !.votes = @ \cup {a}].votes \subseteq founders \cup Elected
    <3>1. [p EXCEPT !.votes = @ \cup {a}].votes \subseteq p.votes \cup {a}
      OBVIOUS
    <3> QED
      BY <2>1, <2>3, <3>1 DEF ElectedInv, AuthoritiesElected
  <2>5. \A q \in proposals' : q.votes \subseteq founders \cup Elected
    BY <2>1, <2>2, <2>4 DEF Live, ElectedInv, AuthoritiesElected
  <2> QED
    BY <1>1, <2>1, <2>5
       DEF Approve, ElectedInv, AuthoritiesElected, Elected, seatVars, offerVars, history
<1>2. CASE PassAddition(a, d, days)
  <2>1. /\ caged /\ d \in passed' /\ passed \subseteq passed'
        /\ Elected \subseteq Elected' /\ d.addr \in Elected'
        /\ proposals' \subseteq proposals
    BY <1>2, DecisionsStand DEF PassAddition
  <2>2. \A e \in offered' : e.addr \in Elected'
    BY <1>2, <2>1 DEF PassAddition, ElectedInv, AuthoritiesElected
  <2>3. \A n \in {sigs', nOfM'} \ {foundingSigs', 0} : \E c \in passed' : c.n = n
    BY <1>2, <2>1 DEF PassAddition, ElectedInv, AuthoritiesElected, seatVars
  <2>4. \A p \in proposals' : p.votes \subseteq founders' \cup Elected'
    BY <1>2, <2>1 DEF PassAddition, ElectedInv, AuthoritiesElected
  <2> QED
    BY <1>2, <2>1, <2>2, <2>3, <2>4
       DEF PassAddition, ElectedInv, AuthoritiesElected, seatVars
<1>3. CASE PassRemoval(a, d, days)
  <2>1. /\ caged /\ d \in passed' /\ passed \subseteq passed'
        /\ Elected \subseteq Elected' /\ proposals' \subseteq proposals
    BY <1>3, DecisionsStand DEF PassRemoval
  <2>2. \A n \in {sigs', nOfM'} \ {foundingSigs', 0} : \E c \in passed' : c.n = n
    BY <1>3, <2>1 DEF PassRemoval
  <2>3. \A p \in proposals' : p.votes \subseteq founders' \cup Elected'
    BY <1>3, <2>1 DEF PassRemoval, ElectedInv, AuthoritiesElected
  <2> QED
    BY <1>3, <2>1, <2>2, <2>3 DEF PassRemoval, ElectedInv, AuthoritiesElected
<1> QED
  BY <1>1, <1>2, <1>3 DEF AuthorityTx

LEMMA ClaimSeatsElected ==
  ASSUME ElectedInv, NEW x \in Candidates, ClaimTx(x)
  PROVE  ElectedInv'
<1>1. CASE ClaimOffer(x)
  BY <1>1 DEF ClaimOffer, ElectedInv, AuthoritiesElected, seatVars, history
<1>2. CASE ClaimSeat(x)
  <2>1. caged /\ x \in Elected /\ offered' \subseteq offered
    BY <1>2 DEF ClaimSeat, Claimable, ElectedInv, AuthoritiesElected
  <2> QED
    BY <1>2, <2>1 DEF ClaimSeat, ElectedInv, AuthoritiesElected, Elected, history
<1>3. CASE ClaimLastSeat(x)
  <2>1. caged /\ x \in Elected /\ offered' = {}
    BY <1>3 DEF ClaimLastSeat, Claimable, ElectedInv, AuthoritiesElected
  <2>2. \A n \in {sigs', nOfM'} \ {foundingSigs', 0} : \E c \in passed' : c.n = n
    BY <1>3 DEF ClaimLastSeat, ElectedInv, AuthoritiesElected, history
  <2> QED
    BY <1>3, <2>1, <2>2 DEF ClaimLastSeat, ElectedInv, AuthoritiesElected, Elected, history
<1> QED
  BY <1>1, <1>2, <1>3 DEF ClaimTx

(* After the cage nothing the sponsor left open has an effect: authorities   *)
(* and all whose vote is counted are founders or were voted in, offers are   *)
(* held by those voted in, and the threshold is the founding one or voted.   *)
THEOREM OnlyElectedAuthorities == Spec => []AuthoritiesElected
<1>1. Init => ElectedInv
  BY DEF Init, ElectedInv, AuthoritiesElected
<1>2. ASSUME ElectedInv, [Next]_vars PROVE ElectedInv'
  <2>1. CASE NextEpoch
    BY <1>2, <2>1
       DEF NextEpoch, ElectedInv, AuthoritiesElected, Elected, seatVars, offerVars, history
  <2>2. ASSUME NEW p \in Lists, ProposeOffer(p) PROVE ElectedInv'
    BY <1>2, <2>2 DEF ProposeOffer, ElectedInv, AuthoritiesElected, seatVars
  <2>3. ASSUME NEW n \in SigChoices, FinalizeAndCage(n) PROVE ElectedInv'
    <3>1. proposals' = {} /\ caged'
      BY <1>2, <2>3 DEF FinalizeAndCage, CanCage, ElectedInv
    <3> QED
      BY <2>3, <3>1 DEF FinalizeAndCage, ElectedInv, AuthoritiesElected
  <2>4. ASSUME NEW x \in Candidates, ClaimTx(x) PROVE ElectedInv'
    BY <1>2, <2>4, ClaimSeatsElected
  <2>5. ASSUME NEW a \in Candidates, NEW d \in PropGovSigners, NEW days \in VoteDays,
               AuthorityTx(a, d, days)
        PROVE  ElectedInv'
    BY <1>2, <2>5, VoteElects
  <2>6. CASE UNCHANGED vars
    BY <1>2, <2>6
       DEF vars, seatVars, offerVars, history, ElectedInv, AuthoritiesElected, Elected
  <2> QED
    BY <1>2, <2>1, <2>2, <2>3, <2>4, <2>5, <2>6 DEF Next, SponsorTx
<1>3. ElectedInv => AuthoritiesElected
  BY DEF ElectedInv
<1> QED
  BY <1>1, <1>2, <1>3, PTL DEF Spec

-----------------------------------------------------------------------------
(* Batches of payments (Batch).  Only the last approval of a payment is in the
   picture that a run has of the ballots.  While there is one approval at most,
   an authority whose vote is on a ballot that may still be the first or has been
   is not about to vote again (Settled), whether its run looked at the picture
   before or after: that is what RunOK keeps, for every authority that has left no
   transaction behind.  So the second approval has none of those of the first. *)

\* Instruction i has been approved more than once.
Twice(i) == \E n, m \in Approvals(i) : n # m

\* a may still vote for instruction i and be on one of its first two approvals
\* only: it has been approved twice, or a is not on the approved ballot, and on a
\* pending one only if that is the second.
Clear(a, i) ==
  \/ Twice(i)
  \/ /\ \A n \in Approvals(i) : a \notin approved[n].votes
     /\ (\E b \in LiveBallots : b.pay = List[i] /\ a \in b.votes) => Approvals(i) # {}

\* a's run knows that a has voted for instruction i.
Noticed(a, i) ==
  \E e \in picture[a][List[i].payee] : e.pay.amount = List[i].amount /\ a \in e.votes

\* a's run is about to vote for the instruction that it has come to.
Voting(a) == pc[a] = "signed" \/ (pc[a] = "wait" /\ mempool[a] # {})

\* The instructions that a's run has yet to look at.
Ahead(a) ==
  {i \in Insts : \/ pc[a] = "next" /\ i >= at[a]
                 \/ pc[a] \in {"signed", "wait"} /\ i > at[a]}

\* What the variables of the authorities are functions of.
RunShape ==
  /\ pc = [a \in Authorities |-> pc[a]]
  /\ at \in [Authorities -> Int]
  /\ picture = [a \in Authorities |-> picture[a]]
  /\ lead = [a \in Authorities |-> lead[a]]
  /\ mempool = [a \in Authorities |-> mempool[a]]

\* A ballot holds votes of authorities, for an instruction.
IsBallot(b) ==
  /\ b.old \in BOOLEAN
  /\ b.votes \subseteq Authorities
  /\ \E i \in Insts : b.pay = List[i]

\* An approved ballot.
ApprovedBallot == [pay : {List[i] : i \in Insts}, votes : SUBSET Authorities]

\* The lists of ballots: one pending ballot for a payment, and, for the only
\* instruction of a payee, no vote that counts twice towards the first two
\* approvals.
BallotsOK ==
  /\ \A b \in pending : IsBallot(b)
  /\ \A b, c \in pending : b.pay = c.pay => b = c
  /\ approved \in Seq(ApprovedBallot)
  /\ \A i \in Insts : Single(i) =>
       /\ ~Twice(i) => \A n \in Approvals(i), b \in LiveBallots :
            b.pay = List[i] => b.votes \cap approved[n].votes \subseteq late
       /\ \A n, m \in Approvals(i) :
            FirstTwo(i, n, m) => approved[n].votes \cap approved[m].votes \subseteq late

\* Votes are for instructions of the list.
Aimed(a) ==
  /\ pc[a] \in {"signed", "wait"} => at[a] \in Insts
  /\ \A t \in mempool[a] : t = [off |-> t.off, inst |-> t.inst] /\ t.inst \in Insts

\* a's run will not vote for instruction i: it is not about to, and knows of an
\* earlier vote if it has yet to look at i.
Settled(a, i) ==
  /\ Voting(a) => at[a] # i
  /\ i \in Ahead(a) => Noticed(a, i)

\* The run of one authority: nothing is left in the mempool but what the run
\* waits for, and where a second vote would count it is not cast.
RunOK(a) ==
  /\ mempool[a] \subseteq IF pc[a] = "wait" THEN {Signed(a)} ELSE {}
  /\ \A i \in Insts : Single(i) => Clear(a, i) \/ Settled(a, i)

\* The invariant: nothing is claimed of the runs of those who are late.
BatchInv ==
  /\ batch \in Batches /\ RunShape /\ BallotsOK
  /\ \A a \in Authorities : Aimed(a) /\ (a \notin late => RunOK(a))

\* Whoever votes for instruction i does so on a ballot b for it, the pending one
\* or a new one without votes, and either completes it or adds to it.
VoteOnBallot(a, i, b) ==
  /\ IsBallot(b) /\ ~b.old /\ b.pay = List[i]
  /\ b \in LiveBallots \/ b.votes = {}
  /\ \A c \in LiveBallots : c.pay = List[i] => c = b
  /\ \/ /\ Cardinality(b.votes \cup {a}) >= Threshold
        /\ pending' = LiveBallots \ {b}
        /\ approved' = Append(approved, [pay |-> List[i], votes |-> b.votes \cup {a}])
     \/ /\ pending' = (LiveBallots \ {b}) \cup {Ballot(b.no, List[i], b.votes \cup {a}, FALSE)}
        /\ approved' = approved

\* A vote is cast on such a ballot.
LEMMA VoteHasBallot ==
  ASSUME BallotsOK, NEW a, NEW i \in Insts, Vote(a, List[i])
  PROVE  \E b : VoteOnBallot(a, i, b)
<1> DEFINE p == List[i]
<1>1. PICK b \in IF Found(p) # {} THEN Found(p) ELSE {NewBallot(p)} :
         \/ /\ Cardinality(b.votes \cup {a}) >= Threshold
            /\ pending' = LiveBallots \ {b}
            /\ approved' = Append(approved, [pay |-> p, votes |-> b.votes \cup {a}])
         \/ /\ pending' = (LiveBallots \ {b}) \cup {Ballot(b.no, List[i], b.votes \cup {a}, FALSE)}
            /\ approved' = approved
  BY DEF Vote
<1>2. CASE Found(p) # {}
  <2>1. b \in LiveBallots /\ b.pay = p /\ ~b.old /\ b \in pending
    BY <1>1, <1>2 DEF Found, LiveBallots
  <2>2. IsBallot(b) /\ \A c \in LiveBallots : c.pay = p => c = b
    BY <2>1 DEF BallotsOK, LiveBallots
  <2>3. QED
    BY <1>1, <2>1, <2>2 DEF VoteOnBallot
<1>3. CASE Found(p) = {}
  <2>1. b = NewBallot(p)
    BY <1>1, <1>3
  <2>2. IsBallot(b) /\ ~b.old /\ b.pay = p /\ b.votes = {}
    BY <2>1 DEF NewBallot, Ballot, IsBallot
  <2>3. \A c \in LiveBallots : c.pay # p
    BY <1>3 DEF Found
  <2>4. QED
    BY <1>1, <2>2, <2>3 DEF VoteOnBallot
<1>4. QED
  BY <1>2, <1>3

\* The list of approved ballots after one was appended.
LEMMA ApprovedAfter ==
  ASSUME BallotsOK, NEW e, approved' = Append(approved, e)
  PROVE  /\ \A n \in DOMAIN approved : approved'[n] = approved[n]
         /\ approved'[Len(approved) + 1] = e
         /\ DOMAIN approved' = DOMAIN approved \cup {Len(approved) + 1}
         /\ Len(approved) + 1 \notin DOMAIN approved
         /\ \A m \in DOMAIN approved : m \in Nat /\ m < Len(approved) + 1
BY DEF BallotsOK

\* A ballot that is pending after a's vote on b was so before, or is b with the
\* vote.
KeptOrVoted(a, i, b, c) ==
  \/ c \in LiveBallots /\ c # b /\ c.pay # List[i]
  \/ /\ approved' = approved
     /\ c = Ballot(b.no, List[i], b.votes \cup {a}, FALSE)

\* The ballots that can pass after a vote.
LEMMA LiveAfter ==
  ASSUME BallotsOK, NEW a, NEW i \in Insts, NEW b, VoteOnBallot(a, i, b)
  PROVE  /\ \A c \in pending' : KeptOrVoted(a, i, b, c)
         /\ LiveBallots' = pending'
<1>1. \A c \in LiveBallots \ {b} : KeptOrVoted(a, i, b, c) /\ c.old = FALSE
  BY DEF VoteOnBallot, LiveBallots, KeptOrVoted, BallotsOK, IsBallot
<1>3. CASE pending' = LiveBallots \ {b}
  BY <1>1, <1>3 DEF LiveBallots
<1>4. CASE /\ pending' = (LiveBallots \ {b}) \cup {Ballot(b.no, List[i], b.votes \cup {a}, FALSE)}
           /\ approved' = approved
  BY <1>1, <1>4 DEF LiveBallots, KeptOrVoted, Ballot
<1>5. QED
  BY <1>3, <1>4 DEF VoteOnBallot

\* The instructions are the same in every state.
LEMMA SameList ==
  ASSUME batch' = batch
  PROVE  /\ List' = List /\ Insts' = Insts
         /\ \A i : Single(i)' <=> Single(i)
         /\ \A b : IsBallot(b)' <=> IsBallot(b)
BY DEF List, Insts, Single, IsBallot

\* A vote that does not count twice keeps the ballots in order.
LEMMA VoteKeepsBallots ==
  ASSUME BallotsOK, UNCHANGED <<batch, late>>,
         NEW a \in Authorities, NEW i \in Insts, Single(i) => a \in late \/ Clear(a, i),
         Vote(a, List[i])
  PROVE  BallotsOK'
<1>1. PICK b : VoteOnBallot(a, i, b)
  BY VoteHasBallot
<1>l. /\ \A c \in pending' : KeptOrVoted(a, i, b, c)
      /\ LiveBallots' = pending'
  BY <1>1, LiveAfter
<1>2. /\ List' = List /\ Insts' = Insts
      /\ \A j : Single(j)' <=> Single(j)
      /\ \A c : IsBallot(c)' <=> IsBallot(c)
  BY SameList
<1>b. IsBallot(b) /\ ~b.old /\ b.pay = List[i]
  BY <1>1 DEF VoteOnBallot
<1>3. ASSUME NEW c \in pending' PROVE IsBallot(c)
  <2>1. CASE c \in LiveBallots
    BY <2>1 DEF BallotsOK, LiveBallots
  <2>2. CASE c = Ballot(b.no, List[i], b.votes \cup {a}, FALSE)
    BY <2>2, <1>b DEF IsBallot, Ballot
  <2>3. QED
    BY <2>1, <2>2, <1>l DEF KeptOrVoted, Ballot
<1>4. ASSUME NEW c \in pending', NEW d \in pending', c.pay = d.pay PROVE c = d
  <2>1. CASE c.pay = List[i]
    BY <2>1, <1>4, <1>l DEF KeptOrVoted, Ballot
  <2>2. CASE c.pay # List[i]
    <3>1. c \in LiveBallots /\ d \in LiveBallots
      BY <2>2, <1>4, <1>l DEF KeptOrVoted, Ballot
    <3>2. QED
      BY <3>1, <1>4 DEF BallotsOK, LiveBallots
  <2>3. QED
    BY <2>1, <2>2
<1> DEFINE new == [pay |-> List[i], votes |-> b.votes \cup {a}]
<1>5. \/ approved' = approved
      \/ approved' = Append(approved, new)
  BY <1>1 DEF VoteOnBallot
<1>6. approved' \in Seq(ApprovedBallot) /\ ApprovedBallot' = ApprovedBallot
  <2>1. new \in ApprovedBallot
    BY <1>b DEF IsBallot, ApprovedBallot
  <2>2. approved \in Seq(ApprovedBallot)
    BY DEF BallotsOK
  <2> HIDE DEF new
  <2>3. approved' \in Seq(ApprovedBallot)
    BY <1>5, <2>1, <2>2
  <2>4. QED
    BY <2>3, <1>2 DEF ApprovedBallot
<1>10. ASSUME Single(i), ~Twice(i), NEW n \in Approvals(i)
       PROVE  b.votes \cap approved[n].votes \subseteq late
  <2>1. CASE b \in LiveBallots
    BY <2>1, <1>10, <1>b DEF BallotsOK
  <2>2. QED
    BY <2>1, <1>1 DEF VoteOnBallot
<1>8. ASSUME NEW j \in Insts, Single(j)
      PROVE  /\ ~Twice(j)' => \A n \in Approvals(j)', c \in LiveBallots' :
                  c.pay = List[j] => c.votes \cap approved'[n].votes \subseteq late
             /\ \A n, m \in Approvals(j)' :
                  FirstTwo(j, n, m)' => approved'[n].votes \cap approved'[m].votes \subseteq late
  <2>1. CASE approved' = approved
    <3>1. Approvals(j)' = Approvals(j)
      BY <2>1, <1>2 DEF Approvals
    <3>2. Twice(j)' <=> Twice(j)
      BY <3>1 DEF Twice
    <3>3. ASSUME ~Twice(j), NEW n \in Approvals(j), NEW c \in LiveBallots', c.pay = List[j]
          PROVE  c.votes \cap approved[n].votes \subseteq late
      <4>1. c \in pending'
        BY DEF LiveBallots
      <4>2. CASE c \in LiveBallots
        BY <3>3, <4>2, <1>8 DEF BallotsOK
      <4>3. CASE c.pay = List[i] /\ c.votes = b.votes \cup {a}
        <5>1. i = j
          BY <4>3, <3>3, <1>8 DEF Single
        <5>2. a \in late \/ a \notin approved[n].votes
          BY <5>1, <3>3, <1>8 DEF Clear
        <5>3. b.votes \cap approved[n].votes \subseteq late
          BY <5>1, <3>3, <1>8, <1>10
        <5>4. QED
          BY <4>3, <5>2, <5>3
      <4>4. QED
        BY <4>1, <4>2, <4>3, <1>l DEF KeptOrVoted, Ballot
    <3>4. \A n, m : FirstTwo(j, n, m)' <=> FirstTwo(j, n, m)
      BY <3>1 DEF FirstTwo
    <3>5. QED
      BY <2>1, <3>1, <3>2, <3>3, <3>4, <1>8 DEF BallotsOK
  <2>2. CASE approved' = Append(approved, new)
    <3>1. /\ \A m \in DOMAIN approved : approved'[m] = approved[m]
          /\ approved'[Len(approved) + 1] = new
          /\ DOMAIN approved' = DOMAIN approved \cup {Len(approved) + 1}
          /\ Len(approved) + 1 \notin DOMAIN approved
          /\ \A m \in DOMAIN approved : m \in Nat /\ m < Len(approved) + 1
      BY <2>2, ApprovedAfter
    <3>2. CASE i = j
      <4>1. Approvals(j)' = Approvals(j) \cup {Len(approved) + 1} /\ Approvals(j) \subseteq DOMAIN approved
        BY <3>1, <3>2, <1>2 DEF Approvals
      <4>2. \A c \in LiveBallots' : c.pay # List[j]
        <5>1. SUFFICES ASSUME NEW c \in LiveBallots', c.pay = List[i] PROVE FALSE
          BY <3>2
        <5>2. c \in pending' /\ approved' # approved
          BY <3>1 DEF LiveBallots
        <5>3. QED
          BY <5>1, <5>2, <1>l DEF KeptOrVoted, Ballot
      <4>3. ASSUME NEW n \in Approvals(j)', NEW m \in Approvals(j)', FirstTwo(j, n, m)'
            PROVE  approved'[n].votes \cap approved'[m].votes \subseteq late
        <5>1. n < m /\ n \in Approvals(j)
          BY <4>1, <4>3, <3>1 DEF FirstTwo
        <5>2. CASE m \in Approvals(j)
          <6>1. FirstTwo(j, n, m)
            BY <4>1, <4>3 DEF FirstTwo
          <6>2. approved[n].votes \cap approved[m].votes \subseteq late
            BY <5>1, <5>2, <6>1, <1>8 DEF BallotsOK
          <6>3. QED
            BY <6>2, <5>1, <5>2, <4>1, <3>1
        <5>3. CASE m = Len(approved) + 1
          <6>1. \A k \in Approvals(j) : k = n
            BY <5>3, <4>1, <4>3, <3>1 DEF FirstTwo
          <6>2. ~Twice(j)
            BY <6>1 DEF Twice
          <6>3. a \in late \/ a \notin approved[n].votes
            BY <6>2, <5>1, <3>2, <1>8 DEF Clear
          <6>4. b.votes \cap approved[n].votes \subseteq late
            BY <6>2, <5>1, <3>2, <1>8, <1>10
          <6>5. approved'[n] = approved[n] /\ approved'[m].votes = b.votes \cup {a}
            BY <5>1, <5>3, <4>1, <3>1
          <6>6. QED
            BY <6>3, <6>4, <6>5
        <5>4. QED
          BY <4>1, <5>2, <5>3
      <4>4. QED
        BY <4>2, <4>3
    <3>3. CASE i # j
      <4>1. List[i] # List[j]
        BY <3>3, <1>8 DEF Single
      <4>2. Approvals(j)' = Approvals(j) /\ Approvals(j) \subseteq DOMAIN approved
        BY <3>1, <4>1, <1>2 DEF Approvals
      <4>3. ASSUME NEW c \in LiveBallots', c.pay = List[j] PROVE c \in LiveBallots
        <5>1. c \in pending'
          BY DEF LiveBallots
        <5>2. QED
          BY <5>1, <4>1, <4>3, <1>l DEF KeptOrVoted, Ballot
      <4>4. /\ Twice(j)' <=> Twice(j)
            /\ \A n, m : FirstTwo(j, n, m)' <=> FirstTwo(j, n, m)
        BY <4>2 DEF Twice, FirstTwo
      <4>5. \A n \in Approvals(j) : approved'[n] = approved[n]
        BY <4>2, <3>1
      <4>6. QED
        BY <4>2, <4>3, <4>4, <4>5, <1>8 DEF BallotsOK
    <3>4. QED
      BY <3>2, <3>3
  <2>3. QED
    BY <1>5, <2>1, <2>2
<1>9. QED
  BY <1>2, <1>3, <1>4, <1>6, <1>8 DEF BallotsOK

\* A vote changes nothing about who may vote for what, but for its own.
LEMMA VoteKeepsClear ==
  ASSUME BallotsOK, batch' = batch, NEW a \in Authorities, NEW i \in Insts,
         Vote(a, List[i]), NEW c, NEW j \in Insts, Single(j), Clear(c, j), c # a \/ j # i
  PROVE  Clear(c, j)'
<1>1. PICK b : VoteOnBallot(a, i, b)
  BY VoteHasBallot
<1>l. /\ \A d \in pending' : KeptOrVoted(a, i, b, d)
      /\ LiveBallots' = pending'
  BY <1>1, LiveAfter
<1>2. List' = List
  BY SameList
<1>3. Approvals(j) \subseteq Approvals(j)' /\ \A n \in Approvals(j) : approved'[n] = approved[n]
  <2>1. CASE approved' = approved
    BY <2>1, <1>2 DEF Approvals
  <2>2. CASE approved' = Append(approved, [pay |-> List[i], votes |-> b.votes \cup {a}])
    BY <2>2, <1>2, ApprovedAfter DEF Approvals
  <2>3. QED
    BY <2>1, <2>2, <1>1 DEF VoteOnBallot
<1>7. CASE Twice(j)'
  BY <1>7 DEF Clear
<1>8. CASE ~Twice(j)'
  <2>0. /\ ~Twice(j)
        /\ \A n \in Approvals(j) : c \notin approved[n].votes
        /\ (\E d \in LiveBallots : d.pay = List[j] /\ c \in d.votes) => Approvals(j) # {}
    BY <1>8, <1>3 DEF Twice, Clear
  <2>1. ASSUME NEW n \in Approvals(j)' PROVE c \notin approved'[n].votes
    <3>1. CASE n \in Approvals(j)
      BY <3>1, <1>3, <2>0
    <3>2. CASE n \notin Approvals(j)
      <4>1. approved' = Append(approved, [pay |-> List[i], votes |-> b.votes \cup {a}])
        BY <3>2, <1>1, <1>2 DEF VoteOnBallot, Approvals
      <4>2. List[i] = List[j] /\ approved'[n] = [pay |-> List[i], votes |-> b.votes \cup {a}]
        <5> DEFINE e == [pay |-> List[i], votes |-> b.votes \cup {a}]
        <5>1. /\ \A m \in DOMAIN approved : approved'[m] = approved[m]
              /\ approved'[Len(approved) + 1] = e
              /\ DOMAIN approved' = DOMAIN approved \cup {Len(approved) + 1}
          BY <4>1, ApprovedAfter
        <5>2. QED
          BY <5>1, <3>2, <1>2 DEF Approvals
      <4>3. i = j
        BY <4>2 DEF Single
      <4>4. Approvals(j) = {}
        BY <3>2, <1>3, <1>8 DEF Twice
      <4>5. c \notin b.votes
        BY <4>4, <4>3, <1>1, <2>0 DEF VoteOnBallot
      <4>6. QED
        BY <4>2, <4>3, <4>5
    <3>3. QED
      BY <3>1, <3>2
  <2>2. ASSUME NEW d \in LiveBallots', d.pay = List[j], c \in d.votes
        PROVE  Approvals(j)' # {}
    <3>1. d \in pending'
      BY DEF LiveBallots
    <3>2. CASE d \in LiveBallots
      BY <3>2, <2>2, <1>3, <2>0
    <3>3. CASE d.pay = List[i] /\ d.votes = b.votes \cup {a}
      <4>1. i = j
        BY <3>3, <2>2 DEF Single
      <4>2. c \in b.votes
        BY <4>1, <3>3, <2>2
      <4>3. b \in LiveBallots /\ b.pay = List[j]
        BY <4>1, <4>2, <1>1 DEF VoteOnBallot
      <4>4. QED
        BY <4>2, <4>3, <1>3, <2>0
    <3>4. QED
      BY <3>1, <3>2, <3>3, <1>l DEF KeptOrVoted, Ballot
  <2>3. QED
    BY <1>2, <2>1, <2>2 DEF Clear
<1>9. QED
  BY <1>7, <1>8

-----------------------------------------------------------------------------
\* Instructions have numbers, and a payee each.
LEMMA InstsAreNumbers ==
  ASSUME batch \in Batches
  PROVE  /\ Insts \subseteq Nat \ {0}
         /\ \A i \in Insts : List[i].payee \in Payees
<1> DEFINE Pay == [payee : Payees, amount : Nat]
<1>1. List \in Seq(Pay)
  BY BatchAssumption DEF List
<1> HIDE DEF Pay
<1>2. Insts \subseteq Nat \ {0} /\ \A i \in Insts : List[i] \in Pay
  BY <1>1 DEF Insts
<1>3. QED
  BY <1>2 DEF Pay

\* Ballots for the only payee of an instruction are for that instruction.
LEMMA PayeeIsPayment ==
  ASSUME BallotsOK, NEW i \in Insts, Single(i)
  PROVE  /\ \A b \in pending : b.pay.payee = List[i].payee => b.pay = List[i]
         /\ \A n \in DOMAIN approved :
               approved[n].pay.payee = List[i].payee => n \in Approvals(i)
<1>1. \A b \in pending : b.pay.payee = List[i].payee => b.pay = List[i]
  BY DEF BallotsOK, IsBallot, Single
<1>2. \A n \in DOMAIN approved : approved[n] \in ApprovedBallot
  <2>1. approved \in Seq(ApprovedBallot)
    BY DEF BallotsOK
  <2>2. QED
    BY <2>1
<1>3. \A n \in DOMAIN approved : \E j \in Insts : approved[n].pay = List[j]
  BY <1>2 DEF ApprovedBallot
<1>4. QED
  BY <1>1, <1>3 DEF Single, Approvals

\* Whoever reads the ballots notices the votes that must not be repeated.
LEMMA PictureTells ==
  ASSUME batch \in Batches, BallotsOK, NEW a, NEW i \in Insts, Single(i)
  PROVE  \/ Clear(a, i)
         \/ \E e \in Picture[List[i].payee] :
              e.pay.amount = List[i].amount /\ a \in e.votes
<1> DEFINE p == List[i].payee
<1>1. /\ \A b \in pending : b.pay.payee = p => b.pay = List[i]
      /\ \A n \in DOMAIN approved : approved[n].pay.payee = p => n \in Approvals(i)
  BY PayeeIsPayment
<1>2. p \in Payees
  BY InstsAreNumbers
<1>3. \A n \in Approvals(i) : n \in DOMAIN approved /\ n \in Nat /\ approved[n].pay = List[i]
  <2>1. approved \in Seq(ApprovedBallot)
    BY DEF BallotsOK
  <2>2. DOMAIN approved \subseteq Nat
    BY <2>1
  <2>3. QED
    BY <2>2 DEF Approvals
<1>7. CASE Twice(i)
  BY <1>7 DEF Clear
<1>4. CASE Approvals(i) # {} /\ ~Twice(i)
  <2>1. PICK n \in Approvals(i) : \A m \in Approvals(i) : m = n
    BY <1>4 DEF Twice
  <2>2. LastApproved(p) = {n}
    BY <1>1, <1>3, <2>1 DEF LastApproved
  <2>3. Picture[p] = {approved[n]}
    BY <1>2, <2>2 DEF Picture
  <2>4. CASE a \in approved[n].votes
    BY <2>3, <2>4, <1>3
  <2>5. CASE a \notin approved[n].votes
    BY <2>5, <2>1, <1>4 DEF Clear
  <2>6. QED
    BY <2>4, <2>5
<1>5. CASE Approvals(i) = {}
  <2>1. LastApproved(p) = {}
    BY <1>1, <1>5 DEF LastApproved
  <2>2. Picture[p] = {Noted(b) : b \in LastPending(p)}
    BY <1>2, <2>1 DEF Picture
  <2>3. ASSUME NEW b \in LiveBallots, b.pay = List[i], a \in b.votes
        PROVE  \E e \in Picture[p] : e.pay.amount = List[i].amount /\ a \in e.votes
    <3>1. b \in pending
      BY DEF LiveBallots
    <3>2. \A c \in pending : c.pay.payee = p => c = b
      BY <3>1, <2>3, <1>1 DEF BallotsOK
    <3>3. b \in LastPending(p)
      BY <3>1, <3>2, <2>3 DEF LastPending
    <3>4. Noted(b) \in Picture[p]
      BY <3>3, <2>2
    <3>5. Noted(b).pay = List[i] /\ a \in Noted(b).votes
      BY <2>3 DEF Noted
    <3>6. QED
      BY <3>4, <3>5
  <2>4. QED
    BY <2>3, <1>5 DEF Clear
<1>6. QED
  BY <1>4, <1>5, <1>7

\* While the chain stays as it is, so do the ballots and who may vote.
LEMMA ChainStill ==
  ASSUME UNCHANGED <<batch, pending, approved>>, late \subseteq late'
  PROVE  /\ BallotsOK => BallotsOK'
         /\ \A a, i : Clear(a, i) <=> Clear(a, i)'
<1>1. /\ List' = List /\ Insts' = Insts /\ LiveBallots' = LiveBallots
      /\ \A i : Single(i)' <=> Single(i)
      /\ \A b : IsBallot(b)' <=> IsBallot(b)
  BY SameList DEF LiveBallots
<1>2. \A i : Approvals(i)' = Approvals(i)
  BY <1>1 DEF Approvals
<1>3. /\ \A i : Twice(i)' <=> Twice(i)
      /\ \A i, n, m : FirstTwo(i, n, m)' <=> FirstTwo(i, n, m)
  BY <1>2 DEF Twice, FirstTwo
<1>4. ApprovedBallot' = ApprovedBallot
  BY <1>1 DEF ApprovedBallot
<1>5. ASSUME BallotsOK PROVE BallotsOK'
  <2>1. ASSUME NEW i \in Insts, Single(i)
        PROVE  /\ ~Twice(i) => \A n \in Approvals(i), b \in LiveBallots :
                    b.pay = List[i] => b.votes \cap approved[n].votes \subseteq late'
               /\ \A n, m \in Approvals(i) :
                    FirstTwo(i, n, m) => approved[n].votes \cap approved[m].votes \subseteq late'
    <3>1. \A S : S \subseteq late => S \subseteq late'
      OBVIOUS
    <3>2. QED
      BY <1>5, <2>1, <3>1 DEF BallotsOK
  <2>2. QED
    BY <1>1, <1>2, <1>3, <1>4, <1>5, <2>1 DEF BallotsOK
<1>6. QED
  BY <1>1, <1>2, <1>3, <1>5 DEF Clear

\* A run that is left alone is as good as before.
LEMMA RunStill ==
  ASSUME NEW c, RunOK(c), batch' = batch,
         pc'[c] = pc[c], at'[c] = at[c], picture'[c] = picture[c], lead'[c] = lead[c],
         mempool'[c] = mempool[c],
         \A i \in Insts : Single(i) /\ Clear(c, i) => Clear(c, i)'
  PROVE  RunOK(c)'
<1>1. List' = List /\ Insts' = Insts /\ \A i : Single(i)' <=> Single(i)
  BY SameList
<1>2. Signed(c)' = Signed(c) /\ Voting(c)' = Voting(c) /\ Ahead(c)' = Ahead(c)
  BY <1>1 DEF Signed, Voting, Ahead
<1>3. \A i : Settled(c, i)' <=> Settled(c, i)
  BY <1>1, <1>2 DEF Settled, Noticed
<1>4. QED
  BY <1>1, <1>2, <1>3 DEF RunOK

\* Steps of a's own run: the chain and the other runs stay as they are.
LEMMA OwnStep ==
  ASSUME BatchInv, NEW a \in Authorities, UNCHANGED <<batch, pending, approved>>,
         late \subseteq late', RunShape',
         \A c \in Authorities \ {a} :
            /\ pc'[c] = pc[c] /\ at'[c] = at[c] /\ picture'[c] = picture[c]
            /\ lead'[c] = lead[c] /\ mempool'[c] = mempool[c],
         Aimed(a)', a \notin late' => RunOK(a)'
  PROVE  BatchInv'
<1>1. BallotsOK' /\ \A c, i : Clear(c, i) => Clear(c, i)'
  BY ChainStill DEF BatchInv
<1>2. ASSUME NEW c \in Authorities \ {a}, c \notin late' PROVE RunOK(c)'
  <2>1. RunOK(c)
    BY <1>2 DEF BatchInv
  <2>2. QED
    BY <1>1, <2>1, RunStill
<1>3. ASSUME NEW c \in Authorities \ {a} PROVE Aimed(c)'
  <2>1. Aimed(c) /\ Insts' = Insts
    BY SameList DEF BatchInv
  <2>2. QED
    BY <2>1 DEF Aimed
<1>4. QED
  BY <1>1, <1>2, <1>3 DEF BatchInv

\* A run begins.
LEMMA OpenKeeps ==
  ASSUME BatchInv, NEW a \in Authorities, batch' = batch, Open(a)
  PROVE  BatchInv'
<1>0. /\ RunShape /\ Aimed(a) /\ (a \notin late => RunOK(a)) /\ BallotsOK
      /\ batch \in Batches /\ UNCHANGED <<batch, pending, approved>>
      /\ late \subseteq late'
  BY DEF BatchInv, Open, chainVars, hindsight, runVars
<1>n. List' = List /\ Insts' = Insts /\ \A i \in Insts : i \in Int
  BY <1>0, SameList, InstsAreNumbers
<1>1. /\ Insts' = Insts /\ \A i : Single(i)' <=> Single(i)
      /\ \A i : Clear(a, i) <=> Clear(a, i)'
  BY <1>0, SameList, ChainStill
<1>2. RunShape'
  BY <1>0 DEF Open, RunShape, chainVars, runVars
<1>3. \A c \in Authorities \ {a} :
         /\ pc'[c] = pc[c] /\ at'[c] = at[c] /\ picture'[c] = picture[c]
         /\ lead'[c] = lead[c] /\ mempool'[c] = mempool[c]
  BY <1>0 DEF Open, RunShape, chainVars, runVars
<1>4. ASSUME a \notin late' PROVE RunOK(a)'
  <2>0. RunOK(a)
    BY <1>0, <1>4
  <2>1. pc[a] = "idle" /\ pc'[a] = "opened" /\ mempool' = mempool
    BY <1>0, <2>0 DEF Open, RunShape, chainVars, runVars
  <2>2. mempool'[a] = {}
    BY <1>0, <2>0, <2>1 DEF RunOK
  <2>3. \A i : Settled(a, i)'
    BY <2>1, <2>2 DEF Settled, Voting, Ahead
  <2>4. QED
    BY <2>1, <2>2, <2>3 DEF RunOK
<1>5. Aimed(a)'
  BY <1>0, <1>n DEF Open, RunShape, chainVars, runVars, Aimed
<1>6. QED
  BY <1>0, <1>2, <1>3, <1>4, <1>5, OwnStep

\* A run ends.
LEMMA WriteKeeps ==
  ASSUME BatchInv, NEW a \in Authorities, batch' = batch, Write(a)
  PROVE  BatchInv'
<1>0. /\ RunShape /\ Aimed(a) /\ (a \notin late => RunOK(a)) /\ BallotsOK
      /\ batch \in Batches /\ UNCHANGED <<batch, pending, approved>>
      /\ late \subseteq late'
  BY DEF BatchInv, Write, chainVars, hindsight, runVars
<1>n. List' = List /\ Insts' = Insts /\ \A i \in Insts : i \in Int
  BY <1>0, SameList, InstsAreNumbers
<1>1. /\ Insts' = Insts /\ \A i : Single(i)' <=> Single(i)
      /\ \A i : Clear(a, i) <=> Clear(a, i)'
  BY <1>0, SameList, ChainStill
<1>2. RunShape'
  <2>1. pc' = [c \in Authorities |-> pc'[c]]
    BY <1>0 DEF Write, RunShape, chainVars, runVars
  <2>2. at' \in [Authorities -> Int]
    BY <1>0 DEF Write, RunShape, chainVars, runVars
  <2>3. picture' = [c \in Authorities |-> picture'[c]]
    BY <1>0 DEF Write, RunShape, chainVars, runVars
  <2>4. /\ lead' = [c \in Authorities |-> lead'[c]]
        /\ mempool' = [c \in Authorities |-> mempool'[c]]
    BY <1>0 DEF Write, RunShape, chainVars, runVars
  <2>5. QED
    BY <2>1, <2>2, <2>3, <2>4 DEF RunShape
<1>3. \A c \in Authorities \ {a} :
         /\ pc'[c] = pc[c] /\ at'[c] = at[c] /\ picture'[c] = picture[c]
         /\ lead'[c] = lead[c] /\ mempool'[c] = mempool[c]
  BY <1>0 DEF Write, RunShape, chainVars, runVars
<1>4. ASSUME a \notin late' PROVE RunOK(a)'
  <2>0. RunOK(a)
    BY <1>0, <1>4
  <2>1. pc[a] = "next" /\ pc'[a] = "idle" /\ mempool' = mempool
    BY <1>0, <2>0 DEF Write, RunShape, chainVars, runVars
  <2>2. mempool'[a] = {}
    BY <1>0, <2>0, <2>1 DEF RunOK
  <2>3. \A i : Settled(a, i)'
    BY <2>1, <2>2 DEF Settled, Voting, Ahead
  <2>4. QED
    BY <2>1, <2>2, <2>3 DEF RunOK
<1>5. Aimed(a)'
  BY <1>0, <1>n DEF Write, RunShape, chainVars, runVars, Aimed
<1>6. QED
  BY <1>0, <1>2, <1>3, <1>4, <1>5, OwnStep

\* A run reads the ballots.
LEMMA ReadKeeps ==
  ASSUME BatchInv, NEW a \in Authorities, batch' = batch, Read(a)
  PROVE  BatchInv'
<1>0. /\ RunShape /\ Aimed(a) /\ (a \notin late => RunOK(a)) /\ BallotsOK
      /\ batch \in Batches /\ UNCHANGED <<batch, pending, approved>>
      /\ late \subseteq late'
  BY DEF BatchInv, Read, chainVars, hindsight, runVars
<1>n. List' = List /\ Insts' = Insts /\ \A i \in Insts : i \in Int
  BY <1>0, SameList, InstsAreNumbers
<1>1. /\ Insts' = Insts /\ \A i : Single(i)' <=> Single(i)
      /\ \A i : Clear(a, i) <=> Clear(a, i)'
  BY <1>0, SameList, ChainStill
<1>2. RunShape'
  <2>1. pc' = [c \in Authorities |-> pc'[c]]
    BY <1>0 DEF Read, RunShape, chainVars, runVars
  <2>2. at' \in [Authorities -> Int]
    BY <1>0 DEF Read, RunShape, chainVars, runVars
  <2>3. picture' = [c \in Authorities |-> picture'[c]]
    BY <1>0 DEF Read, RunShape, chainVars, runVars
  <2>4. /\ lead' = [c \in Authorities |-> lead'[c]]
        /\ mempool' = [c \in Authorities |-> mempool'[c]]
    BY <1>0 DEF Read, RunShape, chainVars, runVars
  <2>5. QED
    BY <2>1, <2>2, <2>3, <2>4 DEF RunShape
<1>3. \A c \in Authorities \ {a} :
         /\ pc'[c] = pc[c] /\ at'[c] = at[c] /\ picture'[c] = picture[c]
         /\ lead'[c] = lead[c] /\ mempool'[c] = mempool[c]
  BY <1>0 DEF Read, RunShape, chainVars, runVars
<1>4. ASSUME a \notin late' PROVE RunOK(a)'
  <2>0. RunOK(a)
    BY <1>0, <1>4
  <2>1. /\ pc[a] = "opened" /\ pc'[a] = "next" /\ mempool' = mempool
        /\ picture'[a] = Picture
    BY <1>0, <2>0 DEF Read, RunShape, chainVars, runVars
  <2>2. mempool'[a] = {}
    BY <1>0, <2>0, <2>1 DEF RunOK
  <2>3. ASSUME NEW i \in Insts, Single(i) PROVE Clear(a, i)' \/ Settled(a, i)'
    <3>1. \/ Clear(a, i)
          \/ \E e \in Picture[List[i].payee] :
               e.pay.amount = List[i].amount /\ a \in e.votes
      BY <1>0, <2>0, <2>3, PictureTells
    <3>2. QED
      BY <3>1, <1>1, <1>n, <2>1, <2>2 DEF Settled, Voting, Noticed
  <2>4. QED
    BY <1>1, <2>1, <2>2, <2>3 DEF RunOK
<1>5. Aimed(a)'
  BY <1>0, <1>n DEF Read, RunShape, chainVars, runVars, Aimed
<1>6. QED
  BY <1>0, <1>2, <1>3, <1>4, <1>5, OwnStep

\* An instruction is skipped.
LEMMA SkipKeeps ==
  ASSUME BatchInv, NEW a \in Authorities, batch' = batch, Skip(a)
  PROVE  BatchInv'
<1>0. /\ RunShape /\ Aimed(a) /\ (a \notin late => RunOK(a)) /\ BallotsOK
      /\ batch \in Batches /\ UNCHANGED <<batch, pending, approved>>
      /\ late \subseteq late'
  BY DEF BatchInv, Skip, chainVars, hindsight, runVars
<1>n. List' = List /\ Insts' = Insts /\ \A i \in Insts : i \in Int
  BY <1>0, SameList, InstsAreNumbers
<1>1. /\ Insts' = Insts /\ \A i : Single(i)' <=> Single(i)
      /\ \A i : Clear(a, i) <=> Clear(a, i)'
  BY <1>0, SameList, ChainStill
<1>2. RunShape'
  BY <1>0 DEF Skip, RunShape, chainVars, runVars
<1>3. \A c \in Authorities \ {a} :
         /\ pc'[c] = pc[c] /\ at'[c] = at[c] /\ picture'[c] = picture[c]
         /\ lead'[c] = lead[c] /\ mempool'[c] = mempool[c]
  BY <1>0 DEF Skip, RunShape, chainVars, runVars
<1>4. ASSUME a \notin late' PROVE RunOK(a)'
  <2>0. RunOK(a)
    BY <1>0, <1>4
  <2>1. /\ pc[a] = "next" /\ pc'[a] = "next" /\ mempool' = mempool
        /\ at'[a] = at[a] + 1 /\ at[a] \in Int /\ picture' = picture
    BY <1>0, <2>0 DEF Skip, RunShape, chainVars, runVars
  <2>2. mempool'[a] = {}
    BY <1>0, <2>0, <2>1 DEF RunOK
  <2>3. \A i \in Insts : Settled(a, i) => Settled(a, i)'
    <3>1. \A i \in Insts : i \in Ahead(a)' => i \in Ahead(a)
      BY <1>n, <2>1 DEF Ahead
    <3>2. \A i \in Insts : Noticed(a, i) => Noticed(a, i)'
      BY <1>n, <2>1 DEF Noticed
    <3>3. QED
      BY <2>1, <2>2, <3>1, <3>2 DEF Settled, Voting
  <2>4. QED
    BY <1>0, <2>0, <1>1, <2>1, <2>2, <2>3 DEF RunOK
<1>5. Aimed(a)'
  BY <1>0, <1>n DEF Skip, RunShape, chainVars, runVars, Aimed
<1>6. QED
  BY <1>0, <1>2, <1>3, <1>4, <1>5, OwnStep

\* A run signs a vote that it does not know of.
LEMMA SignKeeps ==
  ASSUME BatchInv, NEW a \in Authorities, batch' = batch, Sign(a)
  PROVE  BatchInv'
<1>0. /\ RunShape /\ Aimed(a) /\ (a \notin late => RunOK(a)) /\ BallotsOK
      /\ batch \in Batches /\ UNCHANGED <<batch, pending, approved>>
      /\ late \subseteq late'
  BY DEF BatchInv, Sign, chainVars, hindsight, runVars
<1>n. List' = List /\ Insts' = Insts /\ \A i \in Insts : i \in Int
  BY <1>0, SameList, InstsAreNumbers
<1>1. /\ Insts' = Insts /\ \A i : Single(i)' <=> Single(i)
      /\ \A i : Clear(a, i) <=> Clear(a, i)'
  BY <1>0, SameList, ChainStill
<1>2. RunShape'
  BY <1>0 DEF Sign, RunShape, chainVars, runVars
<1>3. \A c \in Authorities \ {a} :
         /\ pc'[c] = pc[c] /\ at'[c] = at[c] /\ picture'[c] = picture[c]
         /\ lead'[c] = lead[c] /\ mempool'[c] = mempool[c]
  BY <1>0 DEF Sign, RunShape, chainVars, runVars
<1>4. ASSUME a \notin late' PROVE RunOK(a)'
  <2>0. RunOK(a)
    BY <1>0, <1>4
  <2>1. /\ pc[a] = "next" /\ pc'[a] = "signed" /\ mempool' = mempool
        /\ at' = at /\ at[a] \in Insts /\ picture' = picture
    BY <1>0, <2>0 DEF Sign, RunShape, chainVars, runVars
  <2>2. mempool'[a] = {}
    BY <1>0, <2>0, <2>1 DEF RunOK
  <2>3. ~Noticed(a, at[a])
    BY DEF Sign, Worth, Voters, Seen, Noticed
  <2>6. at[a] \in Int /\ at'[a] = at[a]
    BY <1>n, <2>1
  <2>4. \A i \in Insts : Settled(a, i) => Settled(a, i)'
    <3>1. \A i \in Insts : Settled(a, i) => at[a] # i
      BY <1>n, <2>1, <2>3, <2>6 DEF Settled, Ahead
    <3>2. \A i \in Insts : i \in Ahead(a)' => i \in Ahead(a)
      BY <1>n, <2>1, <2>6 DEF Ahead
    <3>3. \A i \in Insts : Noticed(a, i) => Noticed(a, i)'
      BY <1>n, <2>1 DEF Noticed
    <3>4. QED
      BY <2>1, <3>1, <3>2, <3>3 DEF Settled
  <2>5. QED
    BY <1>0, <2>0, <1>1, <2>1, <2>2, <2>4 DEF RunOK
<1>5. Aimed(a)'
  BY <1>0, <1>n DEF Sign, RunShape, chainVars, runVars, Aimed
<1>6. QED
  BY <1>0, <1>2, <1>3, <1>4, <1>5, OwnStep

\* The transaction goes into the mempool.
LEMMA SubmitKeeps ==
  ASSUME BatchInv, NEW a \in Authorities, batch' = batch, Submit(a)
  PROVE  BatchInv'
<1>0. /\ RunShape /\ Aimed(a) /\ (a \notin late => RunOK(a)) /\ BallotsOK
      /\ batch \in Batches /\ UNCHANGED <<batch, pending, approved>>
      /\ late \subseteq late'
  BY DEF BatchInv, Submit, chainVars, hindsight, runVars
<1>n. List' = List /\ Insts' = Insts /\ \A i \in Insts : i \in Int
  BY <1>0, SameList, InstsAreNumbers
<1>1. /\ Insts' = Insts /\ \A i : Single(i)' <=> Single(i)
      /\ \A i : Clear(a, i) <=> Clear(a, i)'
  BY <1>0, SameList, ChainStill
<1>2. RunShape'
  BY <1>0 DEF Submit, RunShape, chainVars, runVars
<1>3. \A c \in Authorities \ {a} :
         /\ pc'[c] = pc[c] /\ at'[c] = at[c] /\ picture'[c] = picture[c]
         /\ lead'[c] = lead[c] /\ mempool'[c] = mempool[c]
  BY <1>0 DEF Submit, RunShape, chainVars, runVars
<1>4. ASSUME a \notin late' PROVE RunOK(a)'
  <2>0. RunOK(a)
    BY <1>0, <1>4
  <2>1. /\ pc[a] = "signed" /\ pc'[a] = "wait" /\ lead' = lead
        /\ mempool'[a] = mempool[a] \cup {Signed(a)}
        /\ at' = at /\ picture' = picture
    BY <1>0, <2>0 DEF Submit, RunShape, chainVars, runVars
  <2>2. mempool'[a] = {Signed(a)'}
    BY <1>0, <2>0, <2>1 DEF RunOK, Signed
  <2>3. \A i \in Insts : Settled(a, i) => Settled(a, i)'
    <3>1. \A i \in Insts : i \in Ahead(a)' => i \in Ahead(a)
      BY <1>n, <2>1 DEF Ahead
    <3>2. \A i \in Insts : Noticed(a, i) => Noticed(a, i)'
      BY <1>n, <2>1 DEF Noticed
    <3>3. QED
      BY <2>1, <2>2, <3>1, <3>2 DEF Settled, Voting
  <2>4. QED
    BY <1>0, <2>0, <1>1, <2>1, <2>2, <2>3 DEF RunOK
<1>5. Aimed(a)'
  BY <1>0, <1>n DEF Submit, RunShape, chainVars, runVars, Aimed, Signed
<1>6. QED
  BY <1>0, <1>2, <1>3, <1>4, <1>5, OwnStep

\* The transaction is refused, and the run goes on.
LEMMA RefusedKeeps ==
  ASSUME BatchInv, NEW a \in Authorities, batch' = batch, Refused(a)
  PROVE  BatchInv'
<1>0. /\ RunShape /\ Aimed(a) /\ (a \notin late => RunOK(a)) /\ BallotsOK
      /\ batch \in Batches /\ UNCHANGED <<batch, pending, approved>>
      /\ late \subseteq late'
  BY DEF BatchInv, Refused, chainVars, hindsight, runVars
<1>n. List' = List /\ Insts' = Insts /\ \A i \in Insts : i \in Int
  BY <1>0, SameList, InstsAreNumbers
<1>1. /\ Insts' = Insts /\ \A i : Single(i)' <=> Single(i)
      /\ \A i : Clear(a, i) <=> Clear(a, i)'
  BY <1>0, SameList, ChainStill
<1>2. RunShape'
  <2>1. pc' = [c \in Authorities |-> pc'[c]]
    BY <1>0 DEF Refused, RunShape, chainVars, runVars, Proceed
  <2>2. at' \in [Authorities -> Int]
    BY <1>0 DEF Refused, RunShape, chainVars, runVars, Proceed
  <2>3. picture' = [c \in Authorities |-> picture'[c]]
    BY <1>0 DEF Refused, RunShape, chainVars, runVars, Proceed
  <2>4. /\ lead' = [c \in Authorities |-> lead'[c]]
        /\ mempool' = [c \in Authorities |-> mempool'[c]]
    BY <1>0 DEF Refused, RunShape, chainVars, runVars, Proceed
  <2>5. QED
    BY <2>1, <2>2, <2>3, <2>4 DEF RunShape
<1>3. \A c \in Authorities \ {a} :
         /\ pc'[c] = pc[c] /\ at'[c] = at[c] /\ picture'[c] = picture[c]
         /\ lead'[c] = lead[c] /\ mempool'[c] = mempool[c]
  BY <1>0 DEF Refused, RunShape, chainVars, runVars, Proceed
<1>4. ASSUME a \notin late' PROVE RunOK(a)'
  <2>0. RunOK(a)
    BY <1>0, <1>4
  <2>1. /\ pc[a] = "signed" /\ pc'[a] = "next" /\ mempool' = mempool
        /\ at'[a] = at[a] + 1 /\ at[a] \in Int /\ picture' = picture
    BY <1>0, <2>0 DEF Refused, RunShape, chainVars, runVars, Proceed
  <2>2. mempool'[a] = {}
    BY <1>0, <2>0, <2>1 DEF RunOK
  <2>3. \A i \in Insts : Settled(a, i) => Settled(a, i)'
    <3>1. \A i \in Insts : i \in Ahead(a)' => i \in Ahead(a)
      BY <1>n, <2>1 DEF Ahead
    <3>2. \A i \in Insts : Noticed(a, i) => Noticed(a, i)'
      BY <1>n, <2>1 DEF Noticed
    <3>3. QED
      BY <2>1, <2>2, <3>1, <3>2 DEF Settled, Voting
  <2>4. QED
    BY <1>0, <2>0, <1>1, <2>1, <2>2, <2>3 DEF RunOK
<1>5. Aimed(a)'
  BY <1>0, <1>n DEF Refused, RunShape, chainVars, runVars, Proceed, Aimed
<1>6. QED
  BY <1>0, <1>2, <1>3, <1>4, <1>5, OwnStep

\* The transaction is gone, and the run goes on.
LEMMA AnsweredKeeps ==
  ASSUME BatchInv, NEW a \in Authorities, batch' = batch, Answered(a)
  PROVE  BatchInv'
<1>0. /\ RunShape /\ Aimed(a) /\ (a \notin late => RunOK(a)) /\ BallotsOK
      /\ batch \in Batches /\ UNCHANGED <<batch, pending, approved>>
      /\ late \subseteq late'
  BY DEF BatchInv, Answered, chainVars, hindsight, runVars
<1>n. List' = List /\ Insts' = Insts /\ \A i \in Insts : i \in Int
  BY <1>0, SameList, InstsAreNumbers
<1>1. /\ Insts' = Insts /\ \A i : Single(i)' <=> Single(i)
      /\ \A i : Clear(a, i) <=> Clear(a, i)'
  BY <1>0, SameList, ChainStill
<1>2. RunShape'
  BY <1>0 DEF Answered, RunShape, chainVars, runVars, Proceed
<1>3. \A c \in Authorities \ {a} :
         /\ pc'[c] = pc[c] /\ at'[c] = at[c] /\ picture'[c] = picture[c]
         /\ lead'[c] = lead[c] /\ mempool'[c] = mempool[c]
  BY <1>0 DEF Answered, RunShape, chainVars, runVars, Proceed
<1>4. ASSUME a \notin late' PROVE RunOK(a)'
  <2>0. RunOK(a)
    BY <1>0, <1>4
  <2>1. /\ pc[a] = "wait" /\ pc'[a] = "next" /\ mempool' = mempool
        /\ Signed(a) \notin mempool[a]
        /\ at'[a] = at[a] + 1 /\ at[a] \in Int /\ picture' = picture
    BY <1>0, <2>0 DEF Answered, RunShape, chainVars, runVars, Proceed
  <2>2. mempool'[a] = {}
    BY <1>0, <2>0, <2>1 DEF RunOK
  <2>3. \A i \in Insts : Settled(a, i) => Settled(a, i)'
    <3>1. \A i \in Insts : i \in Ahead(a)' => i \in Ahead(a)
      BY <1>n, <2>1 DEF Ahead
    <3>2. \A i \in Insts : Noticed(a, i) => Noticed(a, i)'
      BY <1>n, <2>1 DEF Noticed
    <3>3. QED
      BY <2>1, <2>2, <3>1, <3>2 DEF Settled, Voting
  <2>4. QED
    BY <1>0, <2>0, <1>1, <2>1, <2>2, <2>3 DEF RunOK
<1>5. Aimed(a)'
  BY <1>0, <1>n DEF Answered, RunShape, chainVars, runVars, Proceed, Aimed
<1>6. QED
  BY <1>0, <1>2, <1>3, <1>4, <1>5, OwnStep

\* A run goes on without an answer, and has left nothing behind.
LEMMA UnreachableKeeps ==
  ASSUME BatchInv, NEW a \in Authorities, batch' = batch, Unreachable(a)
  PROVE  BatchInv'
<1>0. /\ RunShape /\ Aimed(a) /\ (a \notin late => RunOK(a)) /\ BallotsOK
      /\ batch \in Batches /\ UNCHANGED <<batch, pending, approved>>
      /\ late \subseteq late'
  BY DEF BatchInv, Unreachable, chainVars, hindsight, runVars
<1>n. List' = List /\ Insts' = Insts /\ \A i \in Insts : i \in Int
  BY <1>0, SameList, InstsAreNumbers
<1>1. /\ Insts' = Insts /\ \A i : Single(i)' <=> Single(i)
      /\ \A i : Clear(a, i) <=> Clear(a, i)'
  BY <1>0, SameList, ChainStill
<1>2. RunShape'
  <2>1. pc' = [c \in Authorities |-> pc'[c]]
    BY <1>0 DEF Unreachable, RunShape, chainVars, runVars, Proceed
  <2>2. at' \in [Authorities -> Int]
    BY <1>0 DEF Unreachable, RunShape, chainVars, runVars, Proceed
  <2>3. picture' = [c \in Authorities |-> picture'[c]]
    BY <1>0 DEF Unreachable, RunShape, chainVars, runVars, Proceed
  <2>4. lead' = [c \in Authorities |-> lead'[c]]
    BY <1>0 DEF Unreachable, RunShape, chainVars, runVars, Proceed
  <2>5. mempool' = [c \in Authorities |-> mempool'[c]]
    BY <1>0 DEF Unreachable, RunShape, chainVars, runVars, Proceed
  <2>6. QED
    BY <2>1, <2>2, <2>3, <2>4, <2>5 DEF RunShape
<1>3. \A c \in Authorities \ {a} :
         /\ pc'[c] = pc[c] /\ at'[c] = at[c] /\ picture'[c] = picture[c]
         /\ lead'[c] = lead[c] /\ mempool'[c] = mempool[c]
  BY <1>0 DEF Unreachable, RunShape, chainVars, runVars, Proceed
<1>4. ASSUME a \notin late' PROVE RunOK(a)'
  <2>0. RunOK(a)
    BY <1>0, <1>4
  <2>1. /\ pc[a] \in {"signed", "wait"} /\ pc'[a] = "next"
        /\ mempool'[a] \in {mempool[a], mempool[a] \cup {Signed(a)}}
        /\ Signed(a) \notin mempool'[a]
        /\ at'[a] = at[a] + 1 /\ at[a] \in Int /\ picture' = picture
    BY <1>0, <2>0, <1>4 DEF Unreachable, RunShape, chainVars, runVars, Proceed
  <2>2. mempool'[a] = {}
    BY <1>0, <2>0, <2>1 DEF RunOK
  <2>3. \A i \in Insts : Settled(a, i) => Settled(a, i)'
    <3>1. \A i \in Insts : i \in Ahead(a)' => i \in Ahead(a)
      BY <1>n, <2>1 DEF Ahead
    <3>2. \A i \in Insts : Noticed(a, i) => Noticed(a, i)'
      BY <1>n, <2>1 DEF Noticed
    <3>3. QED
      BY <2>1, <2>2, <3>1, <3>2 DEF Settled, Voting
  <2>4. QED
    BY <1>0, <2>0, <1>1, <2>1, <2>2, <2>3 DEF RunOK
<1>5. Aimed(a)'
  BY <1>0, <1>n DEF Unreachable, RunShape, chainVars, runVars, Proceed, Aimed, Signed
<1>6. QED
  BY <1>0, <1>2, <1>3, <1>4, <1>5, OwnStep

\* A run dies, and has left nothing behind.
LEMMA CrashKeeps ==
  ASSUME BatchInv, NEW a \in Authorities, batch' = batch, Crash(a)
  PROVE  BatchInv'
<1>0. /\ RunShape /\ Aimed(a) /\ (a \notin late => RunOK(a)) /\ BallotsOK
      /\ batch \in Batches /\ UNCHANGED <<batch, pending, approved>>
      /\ late \subseteq late'
  BY DEF BatchInv, Crash, chainVars, hindsight, runVars
<1>n. List' = List /\ Insts' = Insts /\ \A i \in Insts : i \in Int
  BY <1>0, SameList, InstsAreNumbers
<1>1. /\ Insts' = Insts /\ \A i : Single(i)' <=> Single(i)
      /\ \A i : Clear(a, i) <=> Clear(a, i)'
  BY <1>0, SameList, ChainStill
<1>2. RunShape'
  <2>1. pc' = [c \in Authorities |-> pc'[c]]
    BY <1>0 DEF Crash, RunShape, chainVars, runVars
  <2>2. at' \in [Authorities -> Int]
    BY <1>0 DEF Crash, RunShape, chainVars, runVars
  <2>3. picture' = [c \in Authorities |-> picture'[c]]
    BY <1>0 DEF Crash, RunShape, chainVars, runVars
  <2>4. /\ lead' = [c \in Authorities |-> lead'[c]]
        /\ mempool' = [c \in Authorities |-> mempool'[c]]
    BY <1>0 DEF Crash, RunShape, chainVars, runVars
  <2>5. QED
    BY <2>1, <2>2, <2>3, <2>4 DEF RunShape
<1>3. \A c \in Authorities \ {a} :
         /\ pc'[c] = pc[c] /\ at'[c] = at[c] /\ picture'[c] = picture[c]
         /\ lead'[c] = lead[c] /\ mempool'[c] = mempool[c]
  BY <1>0 DEF Crash, RunShape, chainVars, runVars
<1>4. ASSUME a \notin late' PROVE RunOK(a)'
  <2>0. RunOK(a)
    BY <1>0, <1>4
  <2>1. /\ pc'[a] = "idle" /\ mempool' = mempool
        /\ pc[a] = "wait" => Signed(a) \notin mempool[a]
    BY <1>0, <2>0, <1>4 DEF Crash, RunShape, chainVars, runVars
  <2>2. mempool'[a] = {}
    BY <1>0, <2>0, <2>1 DEF RunOK
  <2>3. \A i : Settled(a, i)'
    BY <2>1, <2>2 DEF Settled, Voting, Ahead
  <2>4. QED
    BY <2>1, <2>2, <2>3 DEF RunOK
<1>5. Aimed(a)'
  BY <1>0, <1>n DEF Crash, RunShape, chainVars, runVars, Aimed
<1>6. QED
  BY <1>0, <1>2, <1>3, <1>4, <1>5, OwnStep

\* A dry run writes its file only.
LEMMA CheckKeeps ==
  ASSUME BatchInv, NEW a \in Authorities, batch' = batch, Check(a)
  PROVE  BatchInv'
<1>0. /\ RunShape /\ Aimed(a) /\ (a \notin late => RunOK(a)) /\ BallotsOK
      /\ batch \in Batches /\ UNCHANGED <<batch, pending, approved>>
      /\ late \subseteq late'
  BY DEF BatchInv, Check, chainVars, hindsight, runVars
<1>n. List' = List /\ Insts' = Insts /\ \A i \in Insts : i \in Int
  BY <1>0, SameList, InstsAreNumbers
<1>1. /\ Insts' = Insts /\ \A i : Single(i)' <=> Single(i)
      /\ \A i : Clear(a, i) <=> Clear(a, i)'
  BY <1>0, SameList, ChainStill
<1>2. RunShape'
  BY <1>0 DEF Check, RunShape, chainVars, runVars
<1>3. \A c \in Authorities \ {a} :
         /\ pc'[c] = pc[c] /\ at'[c] = at[c] /\ picture'[c] = picture[c]
         /\ lead'[c] = lead[c] /\ mempool'[c] = mempool[c]
  BY <1>0 DEF Check, RunShape, chainVars, runVars
<1>4. ASSUME a \notin late' PROVE RunOK(a)'
  <2>0. RunOK(a)
    BY <1>0, <1>4
  <2>1. /\ pc' = pc /\ mempool' = mempool /\ at' = at /\ picture' = picture
        /\ lead' = lead
    BY <1>0, <2>0 DEF Check, RunShape, chainVars, runVars
  <2>2. QED
    BY <1>0, <2>0, <1>1, <2>1, RunStill
<1>5. Aimed(a)'
  BY <1>0, <1>n DEF Check, RunShape, chainVars, runVars, Aimed
<1>6. QED
  BY <1>0, <1>2, <1>3, <1>4, <1>5, OwnStep

\* A transaction expires.
LEMMA DropKeeps ==
  ASSUME BatchInv, NEW a \in Authorities, batch' = batch, Drop(a)
  PROVE  BatchInv'
<1>0. /\ RunShape /\ Aimed(a) /\ (a \notin late => RunOK(a)) /\ BallotsOK
      /\ batch \in Batches /\ UNCHANGED <<batch, pending, approved>>
      /\ late \subseteq late'
  BY DEF BatchInv, Drop, chainVars, hindsight, runVars
<1>n. List' = List /\ Insts' = Insts /\ \A i \in Insts : i \in Int
  BY <1>0, SameList, InstsAreNumbers
<1>1. /\ Insts' = Insts /\ \A i : Single(i)' <=> Single(i)
      /\ \A i : Clear(a, i) <=> Clear(a, i)'
  BY <1>0, SameList, ChainStill
<1>2. RunShape'
  BY <1>0 DEF Drop, RunShape, chainVars, runVars
<1>3. \A c \in Authorities \ {a} :
         /\ pc'[c] = pc[c] /\ at'[c] = at[c] /\ picture'[c] = picture[c]
         /\ lead'[c] = lead[c] /\ mempool'[c] = mempool[c]
  BY <1>0 DEF Drop, RunShape, chainVars, runVars
<1>4. ASSUME a \notin late' PROVE RunOK(a)'
  <2>0. RunOK(a)
    BY <1>0, <1>4
  <2>1. /\ mempool'[a] \subseteq mempool[a]
        /\ pc' = pc /\ at' = at /\ picture' = picture /\ lead' = lead
    BY <1>0, <2>0 DEF Drop, RunShape, chainVars, runVars
  <2>2. Signed(a)' = Signed(a)
    BY <2>1 DEF Signed
  <2>3. \A i \in Insts : Settled(a, i) => Settled(a, i)'
    BY <1>n, <2>1 DEF Settled, Voting, Ahead, Noticed
  <2>4. QED
    BY <1>0, <2>0, <1>1, <2>1, <2>2, <2>3 DEF RunOK
<1>5. Aimed(a)'
  BY <1>0, <1>n DEF Drop, RunShape, chainVars, runVars, Aimed
<1>6. QED
  BY <1>0, <1>2, <1>3, <1>4, <1>5, OwnStep

\* A transaction expires behind a gap.
LEMMA OverdueKeeps ==
  ASSUME BatchInv, NEW a \in Authorities, batch' = batch, Overdue(a)
  PROVE  BatchInv'
<1>0. /\ RunShape /\ Aimed(a) /\ (a \notin late => RunOK(a)) /\ BallotsOK
      /\ batch \in Batches /\ UNCHANGED <<batch, pending, approved>>
      /\ late \subseteq late'
  BY DEF BatchInv, Overdue, chainVars, hindsight, runVars
<1>n. List' = List /\ Insts' = Insts /\ \A i \in Insts : i \in Int
  BY <1>0, SameList, InstsAreNumbers
<1>1. /\ Insts' = Insts /\ \A i : Single(i)' <=> Single(i)
      /\ \A i : Clear(a, i) <=> Clear(a, i)'
  BY <1>0, SameList, ChainStill
<1>2. RunShape'
  BY <1>0 DEF Overdue, RunShape, chainVars, runVars
<1>3. \A c \in Authorities \ {a} :
         /\ pc'[c] = pc[c] /\ at'[c] = at[c] /\ picture'[c] = picture[c]
         /\ lead'[c] = lead[c] /\ mempool'[c] = mempool[c]
  BY <1>0 DEF Overdue, RunShape, chainVars, runVars
<1>4. ASSUME a \notin late' PROVE RunOK(a)'
  <2>0. RunOK(a)
    BY <1>0, <1>4
  <2>1. /\ mempool'[a] \subseteq mempool[a]
        /\ pc' = pc /\ at' = at /\ picture' = picture /\ lead' = lead
    BY <1>0, <2>0 DEF Overdue, RunShape, chainVars, runVars
  <2>2. Signed(a)' = Signed(a)
    BY <2>1 DEF Signed
  <2>3. \A i \in Insts : Settled(a, i) => Settled(a, i)'
    BY <1>n, <2>1 DEF Settled, Voting, Ahead, Noticed
  <2>4. QED
    BY <1>0, <2>0, <1>1, <2>1, <2>2, <2>3 DEF RunOK
<1>5. Aimed(a)'
  BY <1>0, <1>n DEF Overdue, RunShape, chainVars, runVars, Aimed
<1>6. QED
  BY <1>0, <1>2, <1>3, <1>4, <1>5, OwnStep

\* A ballot expires.
LEMMA LapseKeeps ==
  ASSUME BatchInv, batch' = batch, Lapse
  PROVE  BatchInv'
<1>0. /\ RunShape /\ BallotsOK /\ batch \in Batches
      /\ UNCHANGED <<approved, late>> /\ UNCHANGED <<pc, at, picture, lead, mempool>>
  BY DEF BatchInv, Lapse, runVars
<1>1. /\ List' = List /\ Insts' = Insts
      /\ \A i : Single(i)' <=> Single(i)
      /\ \A b : IsBallot(b)' <=> IsBallot(b)
  BY SameList
<1>2. PICK b \in LiveBallots :
         pending' = (pending \ {b}) \cup {Ballot(b.no, b.pay, b.votes, TRUE)}
  BY DEF Lapse
<1> DEFINE o == Ballot(b.no, b.pay, b.votes, TRUE)
<1>3. b \in pending /\ o.pay = b.pay /\ o.votes = b.votes /\ o.old = TRUE
  BY DEF LiveBallots, Ballot
<1> HIDE DEF o
<1>4. LiveBallots' \subseteq LiveBallots
  BY <1>2, <1>3 DEF LiveBallots, o
<1>5. \A i : Approvals(i)' = Approvals(i)
  BY <1>0, <1>1 DEF Approvals
<1>6. BallotsOK'
  <2>1. \A c \in pending' : IsBallot(c)
    BY <1>0, <1>2, <1>3 DEF BallotsOK, IsBallot, o
  <2>2. \A c, d \in pending' : c.pay = d.pay => c = d
    <3>1. pending' = (pending \ {b}) \cup {o}
      BY <1>2 DEF o
    <3>2. \A c, d \in pending : c.pay = d.pay => c = d
      BY <1>0 DEF BallotsOK
    <3>3. QED
      BY <1>3, <3>1, <3>2
  <2>3. ApprovedBallot' = ApprovedBallot
    BY <1>1 DEF ApprovedBallot
  <2>5. approved \in Seq(ApprovedBallot)
    BY <1>0 DEF BallotsOK
  <2>6. ASSUME NEW i \in Insts, Single(i)
        PROVE  /\ ~Twice(i) => \A n \in Approvals(i), c \in LiveBallots' :
                    c.pay = List[i] => c.votes \cap approved[n].votes \subseteq late
               /\ \A n, m \in Approvals(i) :
                    FirstTwo(i, n, m) => approved[n].votes \cap approved[m].votes \subseteq late
    BY <1>0, <1>4, <2>6 DEF BallotsOK
  <2>7. /\ \A i : Twice(i)' <=> Twice(i)
        /\ \A i, n, m : FirstTwo(i, n, m)' <=> FirstTwo(i, n, m)
    BY <1>5 DEF Twice, FirstTwo
  <2>8. QED
    BY <1>0, <1>1, <1>5, <2>1, <2>2, <2>3, <2>5, <2>6, <2>7 DEF BallotsOK
<1>7. \A c, i : Clear(c, i) => Clear(c, i)'
  BY <1>0, <1>1, <1>4, <1>5 DEF Clear, Twice
<1>8. ASSUME NEW c \in Authorities, c \notin late' PROVE RunOK(c)'
  <2>1. RunOK(c)
    BY <1>0, <1>8 DEF BatchInv
  <2>2. QED
    BY <1>0, <1>7, <2>1, RunStill
<1>9. ASSUME NEW c \in Authorities PROVE Aimed(c)'
  <2>1. Aimed(c)
    BY DEF BatchInv
  <2>2. QED
    BY <1>0, <1>1, <2>1 DEF Aimed
<1>10. QED
  BY <1>0, <1>6, <1>8, <1>9 DEF BatchInv, RunShape

\* A vote is executed: the one that its run waits for, which does not count
\* twice, or one that was left behind.
LEMMA CommitKeeps ==
  ASSUME BatchInv, NEW a \in Authorities, batch' = batch, Commit(a)
  PROVE  BatchInv'
<1>0. /\ RunShape /\ Aimed(a) /\ (a \notin late => RunOK(a)) /\ BallotsOK
      /\ batch \in Batches /\ UNCHANGED <<pc, at, picture, late>>
  BY DEF BatchInv, Commit, hindsight
<1>1. /\ List' = List /\ Insts' = Insts
      /\ \A i : Single(i)' <=> Single(i)
  BY SameList
<1>2. PICK tx \in mempool[a] :
         /\ IF HasVoted(a, List[tx.inst]) THEN UNCHANGED <<pending, approved>>
            ELSE Vote(a, List[tx.inst])
         /\ mempool' = [mempool EXCEPT ![a] = {[t EXCEPT !.off = @ - 1] : t \in @ \ {tx}}]
         /\ lead' = [lead EXCEPT ![a] = @ - 1]
  BY DEF Commit
<1>3. PICK k \in Insts : k = tx.inst
  BY <1>0 DEF Aimed
<1>4. ASSUME a \notin late
      PROVE  pc[a] = "wait" /\ mempool[a] = {tx} /\ k = at[a]
  BY <1>0, <1>3, <1>4 DEF RunOK, Signed
<1>6. Single(k) => a \in late \/ Clear(a, k)
  BY <1>0, <1>3, <1>4 DEF RunOK, Settled, Voting
<1>7. BallotsOK' /\ \A c, i : i \in Insts /\ Single(i) /\ Clear(c, i) /\ (c # a \/ i # k)
                             => Clear(c, i)'
  <2>1. CASE UNCHANGED <<pending, approved>>
    BY <2>1, <1>0, ChainStill
  <2>2. CASE Vote(a, List[k])
    <3>1. BallotsOK'
      BY <2>2, <1>0, <1>6, VoteKeepsBallots
    <3>2. QED
      BY <2>2, <3>1, <1>0, VoteKeepsClear
  <2>3. QED
    BY <2>1, <2>2, <1>2, <1>3
<1>8. RunShape'
  BY <1>0, <1>2 DEF RunShape
<1>9. ASSUME NEW c \in Authorities, c # a
      PROVE  Aimed(c)' /\ (c \notin late' => RunOK(c)')
  <2>1. lead'[c] = lead[c] /\ mempool'[c] = mempool[c]
    BY <1>0, <1>2, <1>9 DEF RunShape
  <2>2. Aimed(c) /\ (c \notin late => RunOK(c))
    BY DEF BatchInv
  <2>3. Aimed(c)'
    BY <1>0, <1>1, <2>1, <2>2 DEF Aimed
  <2>4. ASSUME c \notin late' PROVE RunOK(c)'
    BY <1>0, <1>7, <1>9, <2>1, <2>2, <2>4, RunStill
  <2>5. QED
    BY <2>3, <2>4
<1>10. ASSUME a \notin late' PROVE RunOK(a)'
  <2>0. a \notin late /\ RunOK(a)
    BY <1>0, <1>10
  <2>7. mempool'[a] = {}
    BY <1>0, <1>2, <1>4, <2>0 DEF RunShape
  <2>1. Ahead(a)' = Ahead(a) /\ ~Voting(a)'
    BY <1>0, <1>1, <1>4, <2>0, <2>7 DEF Ahead, Voting
  <2>2. \A i : Noticed(a, i)' <=> Noticed(a, i)
    BY <1>0, <1>1 DEF Noticed
  <2>3. \A i : Settled(a, i) => Settled(a, i)'
    BY <2>1, <2>2 DEF Settled
  <2>4. k \notin Ahead(a)
    <3>1. k \in Int
      BY <1>0, InstsAreNumbers
    <3>2. QED
      BY <3>1, <1>4, <2>0 DEF Ahead
  <2>5. Settled(a, k)'
    BY <2>1, <2>4 DEF Settled
  <2>6. \A i \in Insts : Single(i) => Clear(a, i)' \/ Settled(a, i)'
    BY <2>0, <1>7, <2>3, <2>5 DEF RunOK
  <2>8. QED
    BY <1>1, <2>6, <2>7 DEF RunOK
<1>11. Aimed(a)'
  <2>1. mempool'[a] = {[t EXCEPT !.off = @ - 1] : t \in mempool[a] \ {tx}}
    BY <1>0, <1>2 DEF RunShape
  <2>2. ASSUME NEW t \in mempool[a]
        PROVE  [t EXCEPT !.off = @ - 1] = [off |-> t.off - 1, inst |-> t.inst] /\ t.inst \in Insts
    BY <1>0 DEF Aimed
  <2>3. ASSUME NEW u \in mempool'[a]
        PROVE  u = [off |-> u.off, inst |-> u.inst] /\ u.inst \in Insts
    BY <2>1, <2>2
  <2>4. QED
    BY <1>0, <1>1, <2>3 DEF Aimed
<1>12. QED
  BY <1>0, <1>7, <1>8, <1>9, <1>10, <1>11 DEF BatchInv

\* At first there are no ballots, and no run has begun.
LEMMA BatchInitially == BatchInit => BatchInv
<1> SUFFICES ASSUME BatchInit PROVE BatchInv
  OBVIOUS
<1>1. RunShape
  BY DEF BatchInit, RunShape
<1>2. BallotsOK
  BY DEF BatchInit, BallotsOK, LiveBallots, Approvals
<1>3. ASSUME NEW a \in Authorities PROVE RunOK(a) /\ Aimed(a)
  BY DEF BatchInit, RunOK, Settled, Voting, Ahead, Aimed
<1>4. QED
  BY <1>1, <1>2, <1>3 DEF BatchInit, BatchInv

\* Every step keeps the invariant.
LEMMA BatchStep ==
  ASSUME BatchInv, [BatchNext]_batchVars
  PROVE  BatchInv'
<1>1. CASE BatchNext
  <2>0. BatchInv /\ batch' = batch
    BY <1>1 DEF BatchNext
  <2>1. CASE Lapse
    BY <2>0, <2>1, LapseKeeps
  <2>2. ASSUME NEW a \in Authorities, Run(a) PROVE BatchInv'
    <3>1. CASE Open(a)
      BY <2>0, <3>1, OpenKeeps
    <3>2. CASE Read(a)
      BY <2>0, <3>2, ReadKeeps
    <3>3. CASE Skip(a)
      BY <2>0, <3>3, SkipKeeps
    <3>4. CASE Sign(a)
      BY <2>0, <3>4, SignKeeps
    <3>5. CASE Submit(a)
      BY <2>0, <3>5, SubmitKeeps
    <3>6. CASE Refused(a)
      BY <2>0, <3>6, RefusedKeeps
    <3>7. CASE Answered(a)
      BY <2>0, <3>7, AnsweredKeeps
    <3>8. CASE Write(a)
      BY <2>0, <3>8, WriteKeeps
    <3>9. QED
      BY <2>2, <3>1, <3>2, <3>3, <3>4, <3>5, <3>6, <3>7, <3>8 DEF Run
  <2>3. ASSUME NEW a \in Authorities, Check(a) PROVE BatchInv'
    BY <2>0, <2>3, CheckKeeps
  <2>4. ASSUME NEW a \in Authorities, Commit(a) PROVE BatchInv'
    BY <2>0, <2>4, CommitKeeps
  <2>5. ASSUME NEW a \in Authorities, Drop(a) PROVE BatchInv'
    BY <2>0, <2>5, DropKeeps
  <2>6. ASSUME NEW a \in Authorities, Overdue(a) PROVE BatchInv'
    BY <2>0, <2>6, OverdueKeeps
  <2>7. ASSUME NEW a \in Authorities, Unreachable(a) PROVE BatchInv'
    BY <2>0, <2>7, UnreachableKeeps
  <2>8. ASSUME NEW a \in Authorities, Crash(a) PROVE BatchInv'
    BY <2>0, <2>8, CrashKeeps
  <2>9. QED
    BY <1>1, <2>1, <2>2, <2>3, <2>4, <2>5, <2>6, <2>7, <2>8 DEF BatchNext
<1>2. CASE UNCHANGED batchVars
  <2>1. UNCHANGED <<batch, pending, approved, pc, at, picture, lead, mempool, late>>
    BY <1>2 DEF batchVars, chainVars, runVars, hindsight
  <2>2. BallotsOK' /\ (\A c, i : Clear(c, i) => Clear(c, i)') /\ Insts' = Insts
    BY <2>1, ChainStill, SameList DEF BatchInv
  <2>3. ASSUME NEW c \in Authorities PROVE Aimed(c)' /\ (c \notin late' => RunOK(c)')
    <3>1. Aimed(c) /\ (c \notin late => RunOK(c))
      BY DEF BatchInv
    <3>2. Aimed(c)'
      BY <3>1, <2>1, <2>2 DEF Aimed
    <3>3. c \notin late' => RunOK(c)'
      BY <3>1, <2>1, <2>2, RunStill
    <3>4. QED
      BY <3>2, <3>3
  <2>4. QED
    BY <2>1, <2>2, <2>3 DEF BatchInv, RunShape
<1>3. QED
  BY <1>1, <1>2

\* PaidOnce, for any authorities, batch, threshold and number of faults: who has
\* left no transaction behind is not on both of the first two approvals of an
\* instruction that is the only one for its payee.
THEOREM PaymentsApprovedOnce == BatchSpec => []PaidOnce
<1>1. BatchInit => BatchInv
  BY BatchInitially
<1>2. BatchInv /\ [BatchNext]_batchVars => BatchInv'
  BY BatchStep
<1>3. BatchInv => PaidOnce
  BY DEF BatchInv, BallotsOK, PaidOnce
<1>4. QED
  BY <1>1, <1>2, <1>3, PTL DEF BatchSpec
=============================================================================
