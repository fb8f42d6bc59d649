-------------------------- MODULE DonorVoiceProofs --------------------------
(***************************************************************************)
(* Proofs about DonorVoice, for any wallets, donors, signers, payments and *)
(* durations, and, in the last part, about one poll of the donors with     *)
(* votes for and against (TurnoutTally), for any voters and weights.       *)
(***************************************************************************)
EXTENDS DonorVoice, TurnoutTally, SequenceTheorems, Sums

-----------------------------------------------------------------------------
(* Sequences *)

(* A list of which the elements above k are cut off, as vector::trim and     *)
(* pop_back leave it.                                                        *)
LEMMA CutOff ==
  ASSUME NEW T, NEW s \in Seq(T), NEW k \in 0..Len(s)
  PROVE  LET c == [j \in 1..k |-> s[j]]
         IN /\ c \in Seq(T) /\ Len(c) = k /\ DOMAIN c = 1..k
            /\ \A j \in 1..k : j \in DOMAIN s /\ c[j] = s[j]
<1> DEFINE c == [j \in 1..k |-> s[j]]
<1>1. Len(s) \in Nat /\ DOMAIN s = 1..Len(s) /\ \A j \in 1..Len(s) : s[j] \in T
  BY LenProperties
<1>2. c \in [1..k -> T]
  BY <1>1
<1>3. c \in Seq(T)
  BY <1>1, <1>2, SeqDef
<1>4. Len(c) = k
  BY <1>1, <1>3, LenProperties
<1> QED
  BY <1>1, <1>3, <1>4

(* An element put at the end of a list, as push_back does.                   *)
LEMMA PutBack ==
  ASSUME NEW T, NEW s \in Seq(T), NEW x \in T
  PROVE  /\ Append(s, x) \in Seq(T) /\ Len(Append(s, x)) = Len(s) + 1
         /\ DOMAIN Append(s, x) = 1..(Len(s) + 1) /\ DOMAIN s = 1..Len(s) /\ Len(s) \in Nat
         /\ \A j \in 1..(Len(s) + 1) :
              Append(s, x)[j] = IF j = Len(s) + 1 THEN x ELSE s[j]
  BY LenProperties

(* A list put together element by element.                                   *)
LEMMA Listed ==
  ASSUME NEW T, NEW n \in Nat, NEW c \in [1..n -> T]
  PROVE  c \in Seq(T)
  BY SeqDef

(* What filter_scheduled_due keeps for later and what it takes out.          *)
LEMMA Partition ==
  ASSUME NEW s \in Seq(Transfer), NEW e \in Nat, NEW f \in Rearrangements(s),
         NEW k \in 0..Len(s), StablePartition(s, e, f, k)
  PROVE  LET later == [i \in 1..k |-> s[f[i]]]
             now == [i \in 1..(Len(s) - k) |-> s[f[k + i]]]
         IN /\ DOMAIN later = 1..k /\ DOMAIN now = 1..(Len(s) - k)
            /\ \A i \in 1..k : i \in DOMAIN s /\ f[i] \in DOMAIN s /\ later[i] = s[f[i]]
            /\ \A i \in 1..(Len(s) - k) :
                 /\ k + i \in DOMAIN s /\ f[k + i] \in DOMAIN s /\ now[i] = s[f[k + i]]
                 /\ now[i].deadline <= e
<1>1. Len(s) \in Nat /\ DOMAIN s = 1..Len(s)
  BY LenProperties
<1>2. f \in [1..Len(s) -> 1..Len(s)]
  BY <1>1 DEF Rearrangements
<1>3. \A i \in 1..k : i \in DOMAIN s /\ f[i] \in DOMAIN s
  BY <1>1, <1>2
<1>4. ASSUME NEW i \in 1..(Len(s) - k)
      PROVE  k + i \in DOMAIN s /\ f[k + i] \in DOMAIN s /\ s[f[k + i]].deadline <= e
  <2>1. k + i \in DOMAIN s /\ ~ (k + i <= k)
    BY <1>1
  <2>2. f[k + i] \in DOMAIN s
    BY <1>1, <1>2, <2>1
  <2>3. s[f[k + i]] \in Transfer
    BY <1>1, <2>2, ElementOfSeq
  <2>4. s[f[k + i]].deadline \in Nat
    BY <2>3 DEF Transfer
  <2>5. ~ (s[f[k + i]].deadline > e)
    BY <2>1 DEF StablePartition
  <2> QED
    BY <2>1, <2>2, <2>4, <2>5
<1> QED
  BY <1>3, <1>4

-----------------------------------------------------------------------------
(* Types.  The number of a ballot counts those before it, so that the        *)
(* ballots have to be finite.                                                *)
TypeInv ==
  /\ DonorVoiceTypeOK
  /\ \A w \in Wallets : IsFiniteSet(ballots[w])

LEMMA InitType == Init => TypeInv
<1> SUFFICES ASSUME Init PROVE TypeInv
  OBVIOUS
<1>1. \A w \in Wallets : TotalGifts(InitGifts[w]) \in Nat
  BY DonorVoiceAssumption, SumNat DEF TotalGifts
<1>2. cumulative \in [Wallets -> Nat] /\ balance = cumulative
  BY <1>1 DEF Init
<1>3. \A w \in Wallets : IsFiniteSet(ballots[w])
  BY FS_EmptySet DEF Init
<1>4. <<>> \in Seq(Transfer) /\ <<>> \in Seq(Wallets)
  OBVIOUS
<1> QED
  BY <1>2, <1>3, <1>4, DonorVoiceAssumption DEF Init, TypeInv, DonorVoiceTypeOK, Loan

(* A vote yields a ballot of the type, completed or not.                     *)
LEMMA VotedType ==
  ASSUME TypeInv, NEW d \in Donors, NEW w \in Wallets, NEW b \in Ballot
  PROVE  Voted(d, w, b) \in Ballot
<1>1. gifts[w][d] \in Nat
  BY DEF TypeInv, DonorVoiceTypeOK
<1>2. Passes(b.approve + gifts[w][d], 0, b.max, MinTurnout) \in BOOLEAN
  BY DEF Passes
<1>3. b.approve + gifts[w][d] \in Nat /\ b.voters \cup {d} \in SUBSET Donors
  BY <1>1 DEF Ballot
<1>4. ASSUME NEW total \in Nat, NEW who \in SUBSET Donors, NEW ok \in BOOLEAN
      PROVE  [b EXCEPT !.approve = total, !.voters = who, !.completed = ok] \in Ballot
  BY DEF Ballot
<1> QED
  BY <1>2, <1>3, <1>4, Zenon DEF Voted

LEMMA NewBallotType ==
  ASSUME TypeInv, NEW w \in Wallets, NEW kind \in Kinds, NEW tx \in Nat, NEW days \in Nat
  PROVE  NewBallot(w, kind, tx, days) \in Ballot
<1>1. Cardinality(ballots[w]) \in Nat
  BY FS_CardinalityType DEF TypeInv
<1>2. epoch \in Nat /\ cumulative[w] \in Nat
  BY DonorVoiceAssumption DEF TypeInv, DonorVoiceTypeOK
<1> QED
  BY <1>1, <1>2, DonorVoiceAssumption DEF NewBallot, Ballot

(* Adding a ballot, or putting one in the place of another.                  *)
LEMMA BallotsType ==
  ASSUME TypeInv, NEW w \in Wallets, NEW b \in Ballot, NEW X \in SUBSET ballots[w],
         ballots' = [ballots EXCEPT ![w] = X \cup {b}]
  PROVE  /\ ballots' \in [Wallets -> SUBSET Ballot]
         /\ \A v \in Wallets : IsFiniteSet(ballots'[v])
<1>1. IsFiniteSet(X \cup {b})
  BY FS_Subset, FS_AddElement DEF TypeInv
<1> QED
  BY <1>1 DEF TypeInv, DonorVoiceTypeOK

(* The proposals that are voted on, and what is left of the others.          *)
LEMMA ProposalsType ==
  ASSUME TypeInv, NEW w \in Wallets, NEW o \in Orders
  PROVE  /\ LiveProposals(w) \subseteq proposals[w]
         /\ NewProposal(w, o) \in Proposal
         /\ CandidateProposals(w, o) \subseteq Proposal
<1>1. nextId[w] \in Nat /\ epoch \in Nat /\ proposals[w] \subseteq Proposal
  <2>1. /\ nextId \in [Wallets -> 1..(MaxId + 1)] /\ epoch \in 0..MaxEpoch
        /\ proposals \in [Wallets -> SUBSET Proposal]
    BY DEF TypeInv, DonorVoiceTypeOK
  <2>2. MaxId \in Nat /\ MaxEpoch \in Nat
    BY DonorVoiceAssumption
  <2> QED
    BY <2>1, <2>2
<1>2. NewProposal(w, o) \in Proposal
  BY <1>1, DonorVoiceAssumption DEF NewProposal, Proposal
<1> QED
  BY <1>1, <1>2 DEF LiveProposals, CandidateProposals, SameOrder

LEMMA VoteOnPaymentType ==
  ASSUME TypeInv, NEW a \in Authorities, NEW w \in Wallets, NEW o \in Orders, NEW p,
         VoteOnPayment(a, w, o, p)
  PROVE  nextId' \in [Wallets -> 1..(MaxId + 1)]
<1>1. nextId \in [Wallets -> 1..(MaxId + 1)]
  BY DEF TypeInv, DonorVoiceTypeOK
<1>2. nextId' = nextId \/ (nextId[w] <= MaxId /\ nextId' = [nextId EXCEPT ![w] = nextId[w] + 1])
  BY DEF VoteOnPayment
<1> QED
  BY <1>1, <1>2, DonorVoiceAssumption

LEMMA VetoBallotType ==
  ASSUME TypeInv, NEW d \in Donors, NEW w \in Wallets, NEW i \in DOMAIN scheduled[w]
  PROVE  VetoBallot(d, w, i) \in Ballot
<1>1. scheduled[w] \in Seq(Transfer)
  BY DEF TypeInv, DonorVoiceTypeOK
<1>2. scheduled[w][i] \in Transfer
  BY <1>1, LenProperties
<1>3. scheduled[w][i].id \in Nat
  BY <1>2 DEF Transfer
<1>4. NewBallot(w, "veto", scheduled[w][i].id, VetoDays) \in Ballot
  BY <1>3, NewBallotType, DonorVoiceAssumption DEF Kinds
<1> QED
  BY <1>4, VotedType DEF VetoBallot

LEMMA MovedType ==
  ASSUME NEW b \in Ballot, NEW list \in {"pending", "approved", "rejected"}
  PROVE  [b EXCEPT !.list = list] \in Ballot
  BY DEF Ballot

LEMMA NextType == TypeInv /\ [Next]_vars => TypeInv'
<1> SUFFICES ASSUME TypeInv, [Next]_vars PROVE TypeInv'
  OBVIOUS
<1> USE DonorVoiceAssumption
<1>1. ASSUME NEW d \in Donors, NEW w \in Wallets, NEW x \in Amounts, Donate(d, w, x)
      PROVE  TypeInv'
  <2>1. /\ x \in Nat /\ gifts[w] \in [Donors -> Nat]
        /\ balance \in [Wallets -> Nat] /\ cumulative \in [Wallets -> Nat]
    BY DEF TypeInv, DonorVoiceTypeOK
  <2>2. [gifts[w] EXCEPT ![d] = gifts[w][d] + x] \in [Donors -> Nat]
    BY <2>1
  <2>3. gifts' = [gifts EXCEPT ![w] = [gifts[w] EXCEPT ![d] = gifts[w][d] + x]]
    BY <1>1 DEF Donate
  <2>4. gifts' \in [Wallets -> [Donors -> Nat]]
    BY <2>2, <2>3 DEF TypeInv, DonorVoiceTypeOK
  <2>5. /\ balance' = [balance EXCEPT ![w] = balance[w] + x]
        /\ cumulative' = [cumulative EXCEPT ![w] = cumulative[w] + x]
    BY <1>1 DEF Donate
  <2>6. balance' \in [Wallets -> Nat] /\ cumulative' \in [Wallets -> Nat]
    BY <2>1, <2>5
  <2> QED
    BY <1>1, <2>4, <2>6 DEF Donate, TypeInv, DonorVoiceTypeOK, authVars, pipeVars, boundaryVars
<1>2. ASSUME NEW p \in Payees, BecomeSlow(p) PROVE TypeInv'
  BY <1>2 DEF BecomeSlow, TypeInv, DonorVoiceTypeOK, moneyVars, pipeVars, boundaryVars
<1>3. ASSUME NEW w \in Wallets, MandateExpires(w) PROVE TypeInv'
  BY <1>3 DEF MandateExpires, TypeInv, DonorVoiceTypeOK, moneyVars, pipeVars, boundaryVars
<1>4. ASSUME NEW w \in Wallets, GoInactive(w) PROVE TypeInv'
  BY <1>4 DEF GoInactive, TypeInv, DonorVoiceTypeOK, moneyVars, pipeVars, boundaryVars
<1>5. ASSUME NEW w \in Wallets, NEW x \in Amounts, Repay(w, x) PROVE TypeInv'
  <2> DEFINE logged == IF x > advance[w].outstanding THEN advance[w].outstanding ELSE x
  <2>0. x \in Nat /\ balance[w] \in Nat /\ advance[w] \in Loan
    BY DEF TypeInv, DonorVoiceTypeOK
  <2>1. /\ logged \in Nat /\ advance[w].outstanding - logged \in Nat
        /\ advance[w].repaid + logged \in Nat /\ balance[w] + x \in Nat
    BY <1>5, <2>0 DEF Repay, Loan
  <2>2. ASSUME NEW o \in Nat, NEW r \in Nat
        PROVE  [advance[w] EXCEPT !.outstanding = o, !.repaid = r] \in Loan
    BY <2>0 DEF Loan
  <2>3. /\ advance' = [advance EXCEPT ![w] =
              [advance[w] EXCEPT !.outstanding = advance[w].outstanding - logged,
                                 !.repaid = advance[w].repaid + logged]]
        /\ balance' = [balance EXCEPT ![w] = balance[w] + x]
        /\ UNCHANGED <<epoch, gifts, cumulative, swept, authVars, proposals, nextId,
                       pipeVars, ballots, queue, boundaryVars>>
    BY <1>5 DEF Repay
  <2>4. advance' \in [Wallets -> Loan] /\ balance' \in [Wallets -> Nat]
    BY <2>1, <2>2, <2>3 DEF TypeInv, DonorVoiceTypeOK
  <2> QED
    BY <2>1, <2>3, <2>4 DEF TypeInv, DonorVoiceTypeOK, authVars, pipeVars, boundaryVars
<1>6. ASSUME NEW a \in Authorities, NEW w \in Wallets, NEW o \in Orders, ApprovePayment(a, w, o)
      PROVE  TypeInv'
  <2>1. PICK p \in CandidateProposals(w, o) :
          /\ VoteOnPayment(a, w, o, p)
          /\ proposals' = [proposals EXCEPT ![w] =
               (LiveProposals(w) \ {p}) \cup {[p EXCEPT !.votes = p.votes \cup {a}]}]
          /\ UNCHANGED <<epoch, authVars, moneyVars, pipeVars, ballots, queue, boundaryVars>>
    BY <1>6 DEF ApprovePayment
  <2>2. p \in Proposal /\ LiveProposals(w) \subseteq proposals[w]
    BY ProposalsType
  <2>3. [p EXCEPT !.votes = p.votes \cup {a}] \in Proposal
    BY <2>2 DEF Proposal
  <2>4. proposals' \in [Wallets -> SUBSET Proposal]
    BY <2>1, <2>2, <2>3 DEF TypeInv, DonorVoiceTypeOK
  <2>5. nextId' \in [Wallets -> 1..(MaxId + 1)]
    BY <2>1, VoteOnPaymentType
  <2> QED
    BY <2>1, <2>4, <2>5
    DEF TypeInv, DonorVoiceTypeOK, authVars, moneyVars, pipeVars, boundaryVars
<1>7. ASSUME NEW a \in Authorities, NEW w \in Wallets, NEW o \in Orders, SchedulePayment(a, w, o)
      PROVE  TypeInv'
  <2>1. PICK p \in CandidateProposals(w, o) :
          /\ VoteOnPayment(a, w, o, p)
          /\ proposals' = [proposals EXCEPT ![w] = LiveProposals(w) \ {p}]
          /\ scheduled' = [scheduled EXCEPT ![w] = Append(scheduled[w],
               [id |-> p.id, order |-> o, deadline |-> epoch + PaymentDays])]
          /\ UNCHANGED <<epoch, authVars, moneyVars, vetoed, paid, rejections, frozen,
                         ballots, queue, boundaryVars>>
    BY <1>7 DEF SchedulePayment
  <2>2. p \in Proposal /\ LiveProposals(w) \subseteq proposals[w]
    BY ProposalsType
  <2>3. [id |-> p.id, order |-> o, deadline |-> epoch + PaymentDays] \in Transfer
    BY <2>2 DEF Proposal, Transfer, TypeInv, DonorVoiceTypeOK
  <2>4. scheduled' \in [Wallets -> Seq(Transfer)]
    BY <2>1, <2>3, PutBack DEF TypeInv, DonorVoiceTypeOK
  <2>5. proposals' \in [Wallets -> SUBSET Proposal]
    BY <2>1, <2>2 DEF TypeInv, DonorVoiceTypeOK
  <2>6. nextId' \in [Wallets -> 1..(MaxId + 1)]
    BY <2>1, VoteOnPaymentType
  <2> QED
    BY <2>1, <2>4, <2>5, <2>6
    DEF TypeInv, DonorVoiceTypeOK, authVars, moneyVars, boundaryVars
<1>8. ASSUME NEW a \in Authorities, NEW w \in Wallets, NEW o \in Orders, AdvancePayment(a, w, o)
      PROVE  TypeInv'
  <2>1. PICK p \in CandidateProposals(w, o) :
          /\ VoteOnPayment(a, w, o, p)
          /\ proposals' = [proposals EXCEPT ![w] = LiveProposals(w) \ {p}]
          /\ Value[o] < balance[w]
          /\ balance' = [balance EXCEPT ![w] = balance[w] - Value[o]]
          /\ advance' = [advance EXCEPT ![w] =
               [advance[w] EXCEPT !.outstanding = advance[w].outstanding + Value[o],
                                  !.withdrawn = advance[w].withdrawn + Value[o]]]
          /\ UNCHANGED <<epoch, authVars, gifts, cumulative, swept, pipeVars, ballots,
                         queue, boundaryVars>>
    BY <1>8 DEF AdvancePayment
  <2>2. Value[o] \in Nat /\ balance \in [Wallets -> Nat] /\ advance[w] \in Loan
    BY DEF TypeInv, DonorVoiceTypeOK
  <2>3. balance' \in [Wallets -> Nat]
    BY <2>1, <2>2
  <2>4. ASSUME NEW x \in Nat, NEW y \in Nat
        PROVE  [advance[w] EXCEPT !.outstanding = x, !.withdrawn = y] \in Loan
    BY <2>2 DEF Loan
  <2>5. advance[w].outstanding + Value[o] \in Nat /\ advance[w].withdrawn + Value[o] \in Nat
    BY <2>2 DEF Loan
  <2>6. advance' \in [Wallets -> Loan]
    BY <2>1, <2>4, <2>5 DEF TypeInv, DonorVoiceTypeOK
  <2>7. proposals' \in [Wallets -> SUBSET Proposal]
    BY <2>1, ProposalsType DEF TypeInv, DonorVoiceTypeOK
  <2>8. nextId' \in [Wallets -> 1..(MaxId + 1)]
    BY <2>1, VoteOnPaymentType
  <2> QED
    BY <2>1, <2>3, <2>6, <2>7, <2>8
    DEF TypeInv, DonorVoiceTypeOK, authVars, pipeVars, boundaryVars
<1>9. ASSUME NEW d \in Donors, NEW w \in Wallets, NEW i \in DOMAIN scheduled[w], OpenVeto(d, w, i)
      PROVE  TypeInv'
  <2>1. /\ ballots' = [ballots EXCEPT ![w] = ballots[w] \cup {VetoBallot(d, w, i)}]
        /\ UNCHANGED <<epoch, authVars, moneyVars, proposals, nextId, pipeVars, queue,
                       boundaryVars>>
    BY <1>9 DEF OpenVeto
  <2>2. /\ ballots' \in [Wallets -> SUBSET Ballot]
        /\ \A v \in Wallets : IsFiniteSet(ballots'[v])
    BY <2>1, VetoBallotType, BallotsType
  <2> QED
    BY <2>1, <2>2 DEF TypeInv, DonorVoiceTypeOK, authVars, moneyVars, pipeVars, boundaryVars
<1>10. ASSUME NEW d \in Donors, NEW w \in Wallets, NEW i \in DOMAIN scheduled[w], PassVeto(d, w, i)
       PROVE  TypeInv'
  <2> DEFINE b == [VetoBallot(d, w, i) EXCEPT !.list = "approved"]
  <2>1. /\ ballots' = [ballots EXCEPT ![w] = ballots[w] \cup {b}]
        /\ Reject(w, i) /\ MaybeFreeze(w)
        /\ UNCHANGED <<epoch, authVars, moneyVars, proposals, nextId, paid, queue, boundaryVars>>
    BY <1>10 DEF PassVeto
  <2>2. b \in Ballot
    BY VetoBallotType, MovedType
  <2>3. /\ ballots' \in [Wallets -> SUBSET Ballot]
        /\ \A v \in Wallets : IsFiniteSet(ballots'[v])
    BY <2>1, <2>2, BallotsType
  <2>4. scheduled[w] \in Seq(Transfer) /\ i \in 1..Len(scheduled[w]) /\ Len(scheduled[w]) \in Nat
    BY LenProperties DEF TypeInv, DonorVoiceTypeOK
  <2>5. [j \in 1..(i - 1) |-> scheduled[w][j]] \in Seq(Transfer)
    <3>1. i - 1 \in 0..Len(scheduled[w])
      BY <2>4
    <3> QED
      BY <2>4, <3>1, CutOff
  <2>6. scheduled' = [scheduled EXCEPT ![w] = [j \in 1..(i - 1) |-> scheduled[w][j]]]
    BY <2>1 DEF Reject
  <2>7. scheduled' \in [Wallets -> Seq(Transfer)]
    BY <2>5, <2>6 DEF TypeInv, DonorVoiceTypeOK
  <2>8. scheduled[w][i] \in Transfer
    BY <2>4, ElementOfSeq
  <2>9. vetoed' \in [Wallets -> SUBSET Transfer] /\ rejections' \in [Wallets -> Nat]
    <3>1. vetoed \in [Wallets -> SUBSET Transfer] /\ rejections \in [Wallets -> Nat]
      BY DEF TypeInv, DonorVoiceTypeOK
    <3>2. /\ vetoed' = [vetoed EXCEPT ![w] = vetoed[w] \cup {scheduled[w][i]}]
          /\ rejections' = [rejections EXCEPT ![w] = rejections[w] + 1]
      BY <2>1 DEF Reject
    <3> QED
      BY <2>8, <3>1, <3>2
  <2>10. frozen' \in [Wallets -> BOOLEAN]
    BY <2>1 DEF MaybeFreeze, TypeInv, DonorVoiceTypeOK
  <2> QED
    BY <2>1, <2>3, <2>7, <2>9, <2>10
    DEF TypeInv, DonorVoiceTypeOK, authVars, moneyVars, boundaryVars
<1>11. ASSUME NEW d \in Donors, NEW w \in Wallets, ProposeLiquidation(d, w) PROVE TypeInv'
  <2>1. /\ ballots' = [ballots EXCEPT ![w] =
              ballots[w] \cup {NewBallot(w, "liquidate", 0, LiquidationDays)}]
        /\ UNCHANGED <<epoch, authVars, moneyVars, proposals, nextId, pipeVars, queue,
                       boundaryVars>>
    BY <1>11 DEF ProposeLiquidation
  <2>2. NewBallot(w, "liquidate", 0, LiquidationDays) \in Ballot
    BY NewBallotType DEF Kinds
  <2>3. /\ ballots' \in [Wallets -> SUBSET Ballot]
        /\ \A v \in Wallets : IsFiniteSet(ballots'[v])
    BY <2>1, <2>2, BallotsType
  <2> QED
    BY <2>1, <2>3 DEF TypeInv, DonorVoiceTypeOK, authVars, moneyVars, pipeVars, boundaryVars
<1>12. ASSUME NEW d \in Donors, NEW w \in Wallets, ProposeReauth(d, w) PROVE TypeInv'
  <2>1. /\ ballots' = [ballots EXCEPT ![w] =
              ballots[w] \cup {NewBallot(w, "reauth", 0, ReauthDays)}]
        /\ UNCHANGED <<epoch, authVars, moneyVars, proposals, nextId, pipeVars, queue,
                       boundaryVars>>
    BY <1>12 DEF ProposeReauth
  <2>2. NewBallot(w, "reauth", 0, ReauthDays) \in Ballot
    BY NewBallotType DEF Kinds
  <2>3. /\ ballots' \in [Wallets -> SUBSET Ballot]
        /\ \A v \in Wallets : IsFiniteSet(ballots'[v])
    BY <2>1, <2>2, BallotsType
  <2> QED
    BY <2>1, <2>3 DEF TypeInv, DonorVoiceTypeOK, authVars, moneyVars, pipeVars, boundaryVars
<1>13. ASSUME NEW d \in Donors, NEW w \in Wallets, VoteLiquidation(d, w) PROVE TypeInv'
  <2>1. PICK b \in PendingBallots(w, "liquidate") :
          /\ ballots' = [ballots EXCEPT ![w] = (ballots[w] \ {b}) \cup {Voted(d, w, b)}]
          /\ frozen' = [frozen EXCEPT ![w] = frozen[w] \/ Voted(d, w, b).completed]
          /\ queue' = IF Voted(d, w, b).completed THEN Append(queue, w) ELSE queue
    BY <1>13 DEF VoteLiquidation
  <2>2. UNCHANGED <<epoch, authVars, moneyVars, proposals, nextId, scheduled, vetoed,
                    paid, rejections, boundaryVars>>
    BY <1>13 DEF VoteLiquidation
  <2>3. b \in ballots[w] /\ b \in Ballot
    BY <2>1 DEF PendingBallots, TypeInv, DonorVoiceTypeOK
  <2>4. Voted(d, w, b) \in Ballot
    BY <2>3, VotedType
  <2>5. /\ ballots' \in [Wallets -> SUBSET Ballot]
        /\ \A v \in Wallets : IsFiniteSet(ballots'[v])
    <3>1. ballots[w] \ {b} \in SUBSET ballots[w]
      OBVIOUS
    <3> QED
      BY <2>1, <2>4, <3>1, BallotsType
  <2>6. Voted(d, w, b).completed \in BOOLEAN
    BY <2>4 DEF Ballot
  <2>7. frozen' \in [Wallets -> BOOLEAN]
    BY <2>1, <2>6, Zenon DEF TypeInv, DonorVoiceTypeOK
  <2>8. queue' \in Seq(Wallets)
    BY <2>1, PutBack DEF TypeInv, DonorVoiceTypeOK
  <2> QED
    BY <2>2, <2>5, <2>7, <2>8
    DEF TypeInv, DonorVoiceTypeOK, authVars, moneyVars, boundaryVars
<1>14. ASSUME NEW d \in Donors, NEW w \in Wallets, VoteReauth(d, w) PROVE TypeInv'
  <2>1. PICK b \in PendingBallots(w, "reauth") :
          /\ mandate' = [mandate EXCEPT ![w] = mandate[w] \/ Voted(d, w, b).completed]
          /\ ballots' = [ballots EXCEPT ![w] = (ballots[w] \ {b}) \cup
               {IF Voted(d, w, b).completed THEN [Voted(d, w, b) EXCEPT !.list = "approved"]
                ELSE Voted(d, w, b)}]
    BY <1>14 DEF VoteReauth
  <2>2. UNCHANGED <<epoch, slow, active, moneyVars, proposals, nextId, pipeVars, queue,
                    boundaryVars>>
    BY <1>14 DEF VoteReauth
  <2>3. b \in ballots[w] /\ b \in Ballot
    BY <2>1 DEF PendingBallots, TypeInv, DonorVoiceTypeOK
  <2>4. Voted(d, w, b) \in Ballot
    BY <2>3, VotedType
  <2> DEFINE nb == IF Voted(d, w, b).completed
                     THEN [Voted(d, w, b) EXCEPT !.list = "approved"] ELSE Voted(d, w, b)
  <2>5. nb \in Ballot
    BY <2>4, MovedType
  <2>6. /\ ballots' \in [Wallets -> SUBSET Ballot]
        /\ \A v \in Wallets : IsFiniteSet(ballots'[v])
    <3>1. ballots[w] \ {b} \in SUBSET ballots[w]
      OBVIOUS
    <3> HIDE DEF nb
    <3>2. ballots' = [ballots EXCEPT ![w] = (ballots[w] \ {b}) \cup {nb}]
      BY <2>1 DEF nb
    <3> QED
      BY <2>5, <3>1, <3>2, BallotsType
  <2>7. Voted(d, w, b).completed \in BOOLEAN
    BY <2>4 DEF Ballot
  <2>8. mandate' \in [Wallets -> BOOLEAN]
    BY <2>1, <2>7, Zenon DEF TypeInv, DonorVoiceTypeOK
  <2> QED
    BY <2>2, <2>6, <2>8 DEF TypeInv, DonorVoiceTypeOK, moneyVars, pipeVars, boundaryVars
<1>15. ASSUME NEW w \in Wallets, CloseReauth(w) PROVE TypeInv'
  <2> DEFINE expired == {b \in PendingBallots(w, "reauth") : epoch > b.deadline}
             closed == {[b EXCEPT !.list = "rejected"] : b \in expired}
  <2>1. /\ ballots' = [ballots EXCEPT ![w] = (ballots[w] \ expired) \cup closed]
        /\ UNCHANGED <<epoch, authVars, moneyVars, proposals, nextId, pipeVars, queue,
                       boundaryVars>>
    BY <1>15 DEF CloseReauth
  <2>2. expired \subseteq ballots[w] /\ ballots[w] \subseteq Ballot /\ IsFiniteSet(ballots[w])
    BY DEF PendingBallots, TypeInv, DonorVoiceTypeOK
  <2>3. \A b \in Ballot : [b EXCEPT !.list = "rejected"] \in Ballot
    BY MovedType
  <2>4. closed \subseteq Ballot
    BY <2>2, <2>3
  <2>5. IsFiniteSet(closed)
    <3> DEFINE f == [b \in expired |-> [b EXCEPT !.list = "rejected"]]
    <3>1. f \in Surjection(expired, closed)
      BY DEF Surjection
    <3>2. IsFiniteSet(expired)
      BY <2>2, FS_Subset
    <3> QED
      BY <3>1, <3>2, FS_Surjection
  <2>6. IsFiniteSet((ballots[w] \ expired) \cup closed)
    BY <2>2, <2>5, FS_Subset, FS_Union
  <2>7. /\ ballots' \in [Wallets -> SUBSET Ballot]
        /\ \A v \in Wallets : IsFiniteSet(ballots'[v])
    BY <2>1, <2>2, <2>4, <2>6 DEF TypeInv, DonorVoiceTypeOK
  <2> QED
    BY <2>1, <2>7 DEF TypeInv, DonorVoiceTypeOK, authVars, moneyVars, pipeVars, boundaryVars
<1>16. CASE BeginBoundary
  <2> DEFINE drained == {queue[i] : i \in DOMAIN queue}
  <2>1. balance \in [Wallets -> Nat] /\ swept \in [Wallets -> Nat]
    BY DEF TypeInv, DonorVoiceTypeOK
  <2>2. /\ balance' = [w \in Wallets |-> IF w \in drained THEN 0 ELSE balance[w]]
        /\ swept' = [w \in Wallets |-> IF w \in drained THEN swept[w] + balance[w]
                                       ELSE swept[w]]
    BY <1>16 DEF BeginBoundary
  <2> HIDE DEF drained
  <2>3. balance' \in [Wallets -> Nat] /\ swept' \in [Wallets -> Nat]
    BY <2>1, <2>2
  <2> QED
    BY <1>16, <2>3
    DEF BeginBoundary, TypeInv, DonorVoiceTypeOK, authVars, pipeVars
<1>17. ASSUME NEW w \in Wallets, FilterDue(w) PROVE TypeInv'
  <2>1. PICK f \in Rearrangements(scheduled[w]), k \in 0..Len(scheduled[w]) :
          /\ scheduled' = [scheduled EXCEPT ![w] = [i \in 1..k |-> scheduled[w][f[i]]]]
          /\ due' = [i \in 1..(Len(scheduled[w]) - k) |-> scheduled[w][f[k + i]]]
    BY <1>17 DEF FilterDue
  <2>2. /\ scheduled[w] \in Seq(Transfer) /\ Len(scheduled[w]) \in Nat
        /\ DOMAIN scheduled[w] = 1..Len(scheduled[w])
    BY LenProperties DEF TypeInv, DonorVoiceTypeOK
  <2>3. f \in [1..Len(scheduled[w]) -> 1..Len(scheduled[w])]
    BY <2>2 DEF Rearrangements
  <2> DEFINE n == Len(scheduled[w]) - k
             S1 == [i \in 1..k |-> scheduled[w][f[i]]]
             D1 == [i \in 1..n |-> scheduled[w][f[k + i]]]
  <2>4. /\ k \in Nat /\ n \in Nat
        /\ \A i \in 1..k : f[i] \in 1..Len(scheduled[w])
        /\ \A i \in 1..n : f[k + i] \in 1..Len(scheduled[w])
    <3>1. ASSUME NEW m \in Nat, NEW j \in 0..m
          PROVE  /\ j \in Nat /\ m - j \in Nat /\ \A i \in 1..j : i \in 1..m
                 /\ \A i \in 1..(m - j) : j + i \in 1..m
      OBVIOUS
    <3>2. /\ k \in Nat /\ n \in Nat /\ \A i \in 1..k : i \in 1..Len(scheduled[w])
          /\ \A i \in 1..n : k + i \in 1..Len(scheduled[w])
      BY <2>2, <3>1
    <3> QED
      BY <2>3, <3>2
  <2>5. \A j \in 1..Len(scheduled[w]) : scheduled[w][j] \in Transfer
    BY <2>2, ElementOfSeq
  <2>6. S1 \in [1..k -> Transfer] /\ D1 \in [1..n -> Transfer]
    BY <2>4, <2>5
  <2> HIDE DEF n
  <2>7. S1 \in Seq(Transfer) /\ D1 \in Seq(Transfer)
    <3> HIDE DEF S1, D1
    <3> QED
      BY <2>4, <2>6, Listed
  <2>8. scheduled' \in [Wallets -> Seq(Transfer)] /\ due' \in Seq(Transfer)
    <3>1. scheduled' = [scheduled EXCEPT ![w] = S1] /\ due' = D1
      BY <2>1 DEF n
    <3> HIDE DEF S1, D1
    <3> QED
      BY <2>7, <3>1 DEF TypeInv, DonorVoiceTypeOK
  <2> QED
    BY <1>17, <2>8 DEF FilterDue, TypeInv, DonorVoiceTypeOK, authVars, moneyVars
<1>18. ASSUME TakeDue PROVE NextDue \in Transfer /\ due' \in Seq(Transfer)
  <2>1. due \in Seq(Transfer) /\ due # <<>>
    BY <1>18 DEF TakeDue, TypeInv, DonorVoiceTypeOK
  <2>2. Len(due) \in Nat \ {0} /\ DOMAIN due = 1..Len(due)
    BY <2>1, EmptySeq, LenProperties
  <2>3. NextDue \in Transfer
    BY <2>1, <2>2, ElementOfSeq DEF NextDue
  <2>4. Len(due) - 1 \in 0..Len(due)
    BY <2>2
  <2>5. [i \in 1..(Len(due) - 1) |-> due[i]] \in Seq(Transfer)
    BY <2>1, <2>4, CutOff
  <2> QED
    BY <1>18, <2>3, <2>5 DEF TakeDue, PopDue
<1>19. CASE PayDue
  <2>1. NextDue \in Transfer /\ due' \in Seq(Transfer)
    BY <1>18, <1>19 DEF PayDue
  <2>2. /\ balance \in [Wallets -> Nat] /\ paid \in [Wallets -> SUBSET Transfer]
        /\ rejections \in [Wallets -> Nat] /\ at \in Wallets
    BY DEF TypeInv, DonorVoiceTypeOK
  <2>3. Value[NextDue.order] \in Nat /\ Value[NextDue.order] <= balance[at]
    BY <1>19, <2>1 DEF PayDue, Affordable, Transfer
  <2>4. /\ balance' = [balance EXCEPT ![at] = balance[at] - Value[NextDue.order]]
        /\ paid' = [paid EXCEPT ![at] = paid[at] \cup {NextDue}]
        /\ rejections' = [rejections EXCEPT ![at] = 0]
    BY <1>19 DEF PayDue
  <2>5. balance' \in [Wallets -> Nat]
    BY <2>2, <2>3, <2>4
  <2>6. paid' \in [Wallets -> SUBSET Transfer] /\ rejections' \in [Wallets -> Nat]
    BY <2>1, <2>2, <2>4
  <2> QED
    BY <1>19, <2>1, <2>5, <2>6 DEF PayDue, TypeInv, DonorVoiceTypeOK, authVars
<1>20. CASE RequeueDue
  <2>1. NextDue \in Transfer /\ due' \in Seq(Transfer)
    BY <1>18, <1>20 DEF RequeueDue
  <2>2. scheduled \in [Wallets -> Seq(Transfer)] /\ at \in Wallets
    BY DEF TypeInv, DonorVoiceTypeOK
  <2>3. scheduled' = [scheduled EXCEPT ![at] = Append(scheduled[at], NextDue)]
    BY <1>20 DEF RequeueDue
  <2>4. scheduled' \in [Wallets -> Seq(Transfer)]
    BY <2>1, <2>2, <2>3, PutBack
  <2> QED
    BY <1>20, <2>1, <2>4 DEF RequeueDue, TypeInv, DonorVoiceTypeOK, authVars, moneyVars
<1>21. CASE EndBoundary
  BY <1>21 DEF EndBoundary, TypeInv, DonorVoiceTypeOK, authVars, moneyVars, pipeVars
<1>22. CASE UNCHANGED vars
  BY <1>22 DEF vars, TypeInv, DonorVoiceTypeOK, authVars, moneyVars, pipeVars, boundaryVars
<1> QED
  BY <1>1, <1>2, <1>3, <1>4, <1>5, <1>6, <1>7, <1>8, <1>9, <1>10, <1>11, <1>12, <1>13,
     <1>14, <1>15, <1>16, <1>17, <1>19, <1>20, <1>21, <1>22
  DEF Next, Boundary, DonorTx, AuthorityTx, OtherTx

(* Whatever the accounts do, and however often the boundary runs, every      *)
(* resource of a community wallet keeps its type: no payment or advance      *)
(* takes a balance below zero, no repayment a loan.                          *)
THEOREM DonorVoiceType == Spec => []DonorVoiceTypeOK
<1>1. Spec => []TypeInv
  BY InitType, NextType, PTL DEF Spec
<1>2. TypeInv => DonorVoiceTypeOK
  BY DEF TypeInv
<1> QED
  BY <1>1, <1>2, PTL

-----------------------------------------------------------------------------
(* What reaches the boundary.  A payment is scheduled for a slow wallet, and *)
(* the due_list holds only payments whose deadline has come; it is empty     *)
(* between two boundaries.                                                   *)
DueInv ==
  /\ ScheduledPayeesSlow
  /\ \A i \in DOMAIN due : Payee[due[i].order] \in slow /\ due[i].deadline <= epoch
  /\ stage = "open" => due = <<>>

LEMMA InitDue == Init => DueInv
  BY DEF Init, DueInv, ScheduledPayeesSlow, DueOf

LEMMA NextDueInv == TypeInv /\ DueInv /\ [Next]_vars => DueInv'
<1> SUFFICES ASSUME TypeInv, DueInv, [Next]_vars PROVE DueInv'
  OBVIOUS
<1> USE DonorVoiceAssumption
<1>0. /\ scheduled \in [Wallets -> Seq(Transfer)] /\ due \in Seq(Transfer)
      /\ epoch \in Nat /\ at \in Wallets
  BY DEF TypeInv, DonorVoiceTypeOK
<1>1. ASSUME UNCHANGED <<scheduled, due, stage, epoch>>, slow \subseteq slow'
      PROVE  DueInv'
  BY <1>1 DEF DueInv, ScheduledPayeesSlow, DueOf
<1>1a. ASSUME NEW w \in Wallets, \A v \in Wallets : v # w => scheduled'[v] = scheduled[v],
              \A i \in DOMAIN scheduled'[w] : Payee[scheduled'[w][i].order] \in slow,
              \A i \in DOMAIN due' : Payee[due'[i].order] \in slow /\ due'[i].deadline <= epoch,
              stage' = "open" => due' = <<>>, slow' = slow, epoch' = epoch
       PROVE  DueInv'
  <2>1. \A v \in Wallets : \A i \in DOMAIN scheduled'[v] :
          Payee[scheduled'[v][i].order] \in slow
    BY <1>1a DEF DueInv, ScheduledPayeesSlow
  <2>2. \A v \in Wallets : \A i \in DOMAIN DueOf(v)' : Payee[DueOf(v)'[i].order] \in slow
    BY <1>1a DEF DueOf
  <2>3. ScheduledPayeesSlow'
    BY <1>1a, <2>1, <2>2 DEF ScheduledPayeesSlow
  <2> QED
    BY <1>1a, <2>3 DEF DueInv
<1>2. ASSUME NEW a \in Authorities, NEW w \in Wallets, NEW o \in Orders, SchedulePayment(a, w, o)
      PROVE  DueInv'
  <2>1. PICK p \in CandidateProposals(w, o) :
          /\ Payee[o] \in slow
          /\ scheduled' = [scheduled EXCEPT ![w] = Append(scheduled[w],
               [id |-> p.id, order |-> o, deadline |-> epoch + PaymentDays])]
          /\ UNCHANGED <<epoch, authVars, boundaryVars>>
    BY <1>2 DEF SchedulePayment
  <2> DEFINE t == [id |-> p.id, order |-> o, deadline |-> epoch + PaymentDays]
  <2>2. t \in Transfer /\ t.order = o
    BY <1>0, ProposalsType DEF Proposal, Transfer
  <2> HIDE DEF t
  <2>3. scheduled'[w] = Append(scheduled[w], t)
    BY <1>0, <2>1 DEF t
  <2>4. \A i \in DOMAIN scheduled'[w] : Payee[scheduled'[w][i].order] \in slow
    BY <1>0, <2>1, <2>2, <2>3, PutBack DEF DueInv, ScheduledPayeesSlow
  <2>5. \A v \in Wallets : v # w => scheduled'[v] = scheduled[v]
    BY <1>0, <2>1
  <2> QED
    BY <1>1a, <2>1, <2>4, <2>5 DEF DueInv, authVars, boundaryVars
<1>3. ASSUME NEW d \in Donors, NEW w \in Wallets, NEW i \in DOMAIN scheduled[w], PassVeto(d, w, i)
      PROVE  DueInv'
  <2>1. /\ i = Len(scheduled[w])
        /\ scheduled' = [scheduled EXCEPT ![w] = [j \in 1..(i - 1) |-> scheduled[w][j]]]
        /\ UNCHANGED <<epoch, authVars, boundaryVars>>
    BY <1>3 DEF PassVeto, Reject
  <2>2. i - 1 \in 0..Len(scheduled[w])
    BY <1>0, <2>1, LenProperties
  <2>3. scheduled'[w] = [j \in 1..(i - 1) |-> scheduled[w][j]]
    BY <1>0, <2>1
  <2>4. \A j \in DOMAIN scheduled'[w] : Payee[scheduled'[w][j].order] \in slow
    BY <1>0, <2>2, <2>3, CutOff DEF DueInv, ScheduledPayeesSlow
  <2>5. \A v \in Wallets : v # w => scheduled'[v] = scheduled[v]
    BY <1>0, <2>1
  <2> QED
    BY <1>1a, <2>1, <2>4, <2>5 DEF DueInv, authVars, boundaryVars
<1>4. CASE BeginBoundary
  BY <1>4 DEF BeginBoundary, DueInv, ScheduledPayeesSlow, DueOf, authVars, pipeVars
<1>5. ASSUME NEW w \in Wallets, FilterDue(w) PROVE DueInv'
  <2>1. PICK f \in Rearrangements(scheduled[w]), k \in 0..Len(scheduled[w]) :
          /\ StablePartition(scheduled[w], epoch, f, k)
          /\ scheduled' = [scheduled EXCEPT ![w] = [i \in 1..k |-> scheduled[w][f[i]]]]
          /\ due' = [i \in 1..(Len(scheduled[w]) - k) |-> scheduled[w][f[k + i]]]
    BY <1>5 DEF FilterDue
  <2>2. /\ UNCHANGED <<epoch, authVars, stage>> /\ stage = "pay"
    BY <1>5 DEF FilterDue
  <2>3. scheduled[w] \in Seq(Transfer)
    BY <1>0
  <2>4. scheduled'[w] = [i \in 1..k |-> scheduled[w][f[i]]]
    BY <1>0, <2>1
  <2>5. \A i \in DOMAIN scheduled'[w] :
          \E j \in DOMAIN scheduled[w] : scheduled'[w][i] = scheduled[w][j]
    BY <1>0, <2>1, <2>3, <2>4, Partition
  <2>6. \A i \in DOMAIN due' :
          /\ \E j \in DOMAIN scheduled[w] : due'[i] = scheduled[w][j]
          /\ due'[i].deadline <= epoch
    BY <1>0, <2>1, <2>3, Partition
  <2>7. /\ \A i \in DOMAIN scheduled'[w] : Payee[scheduled'[w][i].order] \in slow
        /\ \A i \in DOMAIN due' : Payee[due'[i].order] \in slow
    BY <2>5, <2>6 DEF DueInv, ScheduledPayeesSlow
  <2>8. \A v \in Wallets : v # w => scheduled'[v] = scheduled[v]
    BY <1>0, <2>1
  <2> QED
    BY <1>1a, <2>2, <2>6, <2>7, <2>8 DEF authVars
<1>6. ASSUME TakeDue
      PROVE  /\ NextDue \in Transfer /\ Payee[NextDue.order] \in slow
             /\ \A i \in DOMAIN due' : i \in DOMAIN due /\ due'[i] = due[i]
             /\ \A i \in DOMAIN due' : Payee[due'[i].order] \in slow /\ due'[i].deadline <= epoch
             /\ stage = "pay"
  <2>1. Len(due) \in Nat \ {0} /\ DOMAIN due = 1..Len(due)
    BY <1>0, <1>6, EmptySeq, LenProperties DEF TakeDue
  <2>2. Len(due) - 1 \in 0..Len(due)
    BY <2>1
  <2>3. \A i \in DOMAIN due' : i \in DOMAIN due /\ due'[i] = due[i]
    BY <1>0, <1>6, <2>2, CutOff DEF TakeDue, PopDue
  <2>4. NextDue \in Transfer
    BY <1>0, <2>1, ElementOfSeq DEF NextDue
  <2> QED
    BY <1>6, <2>3, <2>4 DEF TakeDue, DueInv
<1>7. CASE PayDue
  <2>1. /\ \A i \in DOMAIN due' : Payee[due'[i].order] \in slow /\ due'[i].deadline <= epoch
        /\ stage = "pay"
    BY <1>6, <1>7 DEF PayDue
  <2>2. UNCHANGED <<epoch, authVars, scheduled, stage, at>>
    BY <1>7 DEF PayDue
  <2> QED
    BY <2>1, <2>2 DEF DueInv, ScheduledPayeesSlow, DueOf, authVars
<1>8. CASE RequeueDue
  <2>1. /\ NextDue \in Transfer /\ Payee[NextDue.order] \in slow
        /\ \A i \in DOMAIN due' : Payee[due'[i].order] \in slow /\ due'[i].deadline <= epoch
        /\ stage = "pay"
    BY <1>6, <1>8 DEF RequeueDue
  <2>2. /\ UNCHANGED <<epoch, authVars, stage, at>>
        /\ scheduled' = [scheduled EXCEPT ![at] = Append(scheduled[at], NextDue)]
    BY <1>8 DEF RequeueDue
  <2>3. scheduled'[at] = Append(scheduled[at], NextDue)
    BY <1>0, <2>2
  <2>4. \A i \in DOMAIN scheduled'[at] : Payee[scheduled'[at][i].order] \in slow
    BY <1>0, <2>1, <2>3, PutBack DEF DueInv, ScheduledPayeesSlow
  <2>5. \A v \in Wallets : v # at => scheduled'[v] = scheduled[v]
    BY <1>0, <2>2
  <2> QED
    BY <1>0, <1>1a, <2>1, <2>2, <2>4, <2>5 DEF authVars
<1>9. CASE EndBoundary
  BY <1>9 DEF EndBoundary, DueInv, ScheduledPayeesSlow, DueOf, authVars, pipeVars
<1>10. ASSUME NEW d \in Donors, NEW w \in Wallets, DonorTx(d, w) PROVE DueInv'
  <2>1. CASE \E x \in Amounts : Donate(d, w, x)
    BY <1>1, <2>1 DEF Donate, authVars, pipeVars, boundaryVars
  <2>2. CASE \E i \in DOMAIN scheduled[w] : OpenVeto(d, w, i)
    BY <1>1, <2>2 DEF OpenVeto, authVars, pipeVars, boundaryVars
  <2>3. CASE ProposeLiquidation(d, w) \/ ProposeReauth(d, w)
    BY <1>1, <2>3 DEF ProposeLiquidation, ProposeReauth, authVars, pipeVars, boundaryVars
  <2>4. CASE VoteLiquidation(d, w) \/ VoteReauth(d, w)
    BY <1>1, <2>4 DEF VoteLiquidation, VoteReauth, authVars, pipeVars, boundaryVars
  <2> QED
    BY <1>3, <1>10, <2>1, <2>2, <2>3, <2>4 DEF DonorTx
<1>11. ASSUME NEW a \in Authorities, NEW w \in Wallets, NEW o \in Orders, AuthorityTx(a, w, o)
       PROVE  DueInv'
  <2>1. CASE ApprovePayment(a, w, o)
    BY <1>1, <2>1 DEF ApprovePayment, authVars, pipeVars, boundaryVars
  <2>2. CASE AdvancePayment(a, w, o)
    BY <1>1, <2>2 DEF AdvancePayment, authVars, pipeVars, boundaryVars
  <2> QED
    BY <1>2, <1>11, <2>1, <2>2 DEF AuthorityTx
<1>12. CASE OtherTx
  <2>1. CASE \E p \in Payees : BecomeSlow(p)
    BY <1>1, <2>1 DEF BecomeSlow, pipeVars, boundaryVars
  <2>2. CASE \E w \in Wallets : MandateExpires(w) \/ GoInactive(w) \/ CloseReauth(w)
    BY <1>1, <2>2 DEF MandateExpires, GoInactive, CloseReauth, authVars, pipeVars, boundaryVars
  <2>3. CASE \E w \in Wallets, x \in Amounts : Repay(w, x)
    BY <1>1, <2>3 DEF Repay, authVars, pipeVars, boundaryVars
  <2> QED
    BY <1>12, <2>1, <2>2, <2>3 DEF OtherTx
<1>13. CASE UNCHANGED vars
  BY <1>1, <1>13 DEF vars, authVars, pipeVars, boundaryVars
<1> QED
  BY <1>4, <1>5, <1>7, <1>8, <1>9, <1>10, <1>11, <1>12, <1>13 DEF Next, Boundary

(* A payment never waits for an account that could take the loop of          *)
(* maybe_pay_deadline to the branch that does not count: slow wallets stay   *)
(* slow, and schedule asserts that the payee is one.                         *)
THEOREM PayeesStaySlow == Spec => []ScheduledPayeesSlow
<1>1. Init => TypeInv /\ DueInv
  BY InitType, InitDue
<1>2. (TypeInv /\ DueInv) /\ [Next]_vars => (TypeInv /\ DueInv)'
  BY NextType, NextDueInv
<1>3. TypeInv /\ DueInv => ScheduledPayeesSlow
  BY DEF DueInv
<1> QED
  BY <1>1, <1>2, <1>3, PTL DEF Spec

(* Only PayDue adds to the payments made.                                    *)
LEMMA PaidByBoundary ==
  ASSUME [Next]_vars, ~ PayDue
  PROVE  paid' = paid
<1>1. ASSUME NEW d \in Donors, NEW w \in Wallets, DonorTx(d, w) PROVE paid' = paid
  <2>1. CASE \E x \in Amounts : Donate(d, w, x)
    BY <2>1 DEF Donate, pipeVars
  <2>2. CASE \E i \in DOMAIN scheduled[w] : OpenVeto(d, w, i) \/ PassVeto(d, w, i)
    BY <2>2 DEF OpenVeto, PassVeto, pipeVars
  <2>3. CASE ProposeLiquidation(d, w) \/ ProposeReauth(d, w)
    BY <2>3 DEF ProposeLiquidation, ProposeReauth, pipeVars
  <2>4. CASE VoteLiquidation(d, w) \/ VoteReauth(d, w)
    BY <2>4 DEF VoteLiquidation, VoteReauth, pipeVars
  <2> QED
    BY <1>1, <2>1, <2>2, <2>3, <2>4 DEF DonorTx
<1>2. ASSUME NEW a \in Authorities, NEW w \in Wallets, NEW o \in Orders, AuthorityTx(a, w, o)
      PROVE  paid' = paid
  BY <1>2 DEF AuthorityTx, ApprovePayment, SchedulePayment, AdvancePayment, pipeVars
<1>3. CASE OtherTx
  BY <1>3 DEF OtherTx, BecomeSlow, MandateExpires, GoInactive, CloseReauth, Repay, pipeVars
<1>4. CASE BeginBoundary \/ (\E w \in Wallets : FilterDue(w)) \/ RequeueDue \/ EndBoundary
  BY <1>4 DEF BeginBoundary, FilterDue, RequeueDue, EndBoundary, pipeVars
<1>5. CASE UNCHANGED vars
  BY <1>5 DEF vars, pipeVars
<1> QED
  BY <1>1, <1>2, <1>3, <1>4, <1>5 DEF Next, Boundary

(* The donors always have the epochs before the deadline to veto: nothing    *)
(* that the boundary pays has a deadline that is still to come, however      *)
(* often it was put back (filter_scheduled_due, maybe_pay_deadline).         *)
THEOREM ReviewPeriodKept == Spec => PaidNotBeforeDeadline
<1> DEFINE Kept == \A w \in Wallets : \A t \in paid'[w] \ paid[w] : t.deadline <= epoch
<1>1. Init => TypeInv /\ DueInv
  BY InitType, InitDue
<1>2. (TypeInv /\ DueInv) /\ [Next]_vars => (TypeInv /\ DueInv)'
  BY NextType, NextDueInv
<1>3. (TypeInv /\ DueInv) /\ [Next]_vars => [Kept]_vars
  <2> SUFFICES ASSUME TypeInv, DueInv, [Next]_vars PROVE Kept
    OBVIOUS
  <2>1. CASE PayDue
    <3>1. due \in Seq(Transfer) /\ due # <<>> /\ paid \in [Wallets -> SUBSET Transfer]
      BY <2>1 DEF PayDue, TakeDue, TypeInv, DonorVoiceTypeOK
    <3>2. Len(due) \in DOMAIN due
      BY <3>1, EmptySeq, LenProperties
    <3>3. NextDue.deadline <= epoch
      BY <3>2 DEF NextDue, DueInv
    <3>4. paid' = [paid EXCEPT ![at] = paid[at] \cup {NextDue}]
      BY <2>1 DEF PayDue
    <3> QED
      BY <3>1, <3>3, <3>4
  <2>2. CASE ~ PayDue
    BY <2>2, PaidByBoundary
  <2> QED
    BY <2>1, <2>2
<1> QED
  BY <1>1, <1>2, <1>3, PTL DEF Spec, PaidNotBeforeDeadline

-----------------------------------------------------------------------------
(* Payments in one place.  For one wallet: P its proposals, S its schedule,  *)
(* D what is due, V and Q what was vetoed and paid, and n the number of the  *)
(* next payment, which every number in use is below.                         *)
Apart(P, S, D, V, Q) ==
  /\ \A i, j \in DOMAIN S : S[i].id = S[j].id => i = j
  /\ \A i, j \in DOMAIN D : D[i].id = D[j].id => i = j
  /\ \A i \in DOMAIN S : \A j \in DOMAIN D : S[i].id # D[j].id
  /\ \A i \in DOMAIN S : \A t \in V : S[i].id # t.id
  /\ \A i \in DOMAIN S : \A t \in Q : S[i].id # t.id
  /\ \A i \in DOMAIN S : \A t \in P : S[i].id # t.id
  /\ \A i \in DOMAIN D : \A t \in V : D[i].id # t.id
  /\ \A i \in DOMAIN D : \A t \in Q : D[i].id # t.id
  /\ \A i \in DOMAIN D : \A t \in P : D[i].id # t.id
  /\ \A t \in V : \A u \in Q : t.id # u.id
  /\ \A t \in P : \A u \in V : t.id # u.id
  /\ \A t \in P : \A u \in Q : t.id # u.id
  /\ \A t, u \in P : t.id = u.id => t = u

Below(P, S, D, V, Q, n) ==
  /\ \A i \in DOMAIN S : S[i].id < n
  /\ \A i \in DOMAIN D : D[i].id < n
  /\ \A t \in P \cup V \cup Q : t.id < n

(* A number that no list of the wallet holds.                                *)
Fresh(x, P, S, D, V, Q) ==
  /\ \A i \in DOMAIN S : S[i].id # x
  /\ \A i \in DOMAIN D : D[i].id # x
  /\ \A t \in P \cup V \cup Q : t.id # x

(* The proposal voted on, pending or new, is the only one with its number.   *)
LEMMA VotedIsFresh ==
  ASSUME NEW P \in SUBSET Proposal, NEW S, NEW D, NEW V, NEW Q, NEW n \in Nat,
         Apart(P, S, D, V, Q), Below(P, S, D, V, Q, n), NEW p,
         p \in P \/ p.id = n
  PROVE  Fresh(p.id, P \ {p}, S, D, V, Q)
<1>1. CASE p \in P
  BY <1>1 DEF Apart, Fresh
<1>2. CASE p.id = n
  <2>1. ASSUME NEW x, x < n PROVE x # n
    BY <2>1
  <2> QED
    BY <1>2, <2>1 DEF Below, Fresh
<1> QED
  BY <1>1, <1>2

(* The next number only grows.                                               *)
LEMMA BelowKept ==
  ASSUME NEW P \in SUBSET Proposal, NEW S \in Seq(Transfer), NEW D \in Seq(Transfer),
         NEW V \in SUBSET Transfer, NEW Q \in SUBSET Transfer,
         NEW n \in Nat, NEW m \in Nat, n <= m, Below(P, S, D, V, Q, n)
  PROVE  Below(P, S, D, V, Q, m)
<1>1. /\ \A i \in DOMAIN S : S[i] \in Transfer
      /\ \A i \in DOMAIN D : D[i] \in Transfer
  BY LenProperties
<1>2. /\ \A t \in Transfer : t.id \in Nat
      /\ \A t \in Proposal : t.id \in Nat
  BY DEF Transfer, Proposal
<1>3. \A x \in Nat : x < n => x < m
  OBVIOUS
<1> QED
  BY <1>1, <1>2, <1>3 DEF Below

(* vote_impl: the proposal is put back with the vote.                        *)
LEMMA ApartVoted ==
  ASSUME NEW P, NEW S, NEW D, NEW V, NEW Q, Apart(P, S, D, V, Q),
         NEW p, NEW L \in SUBSET P, NEW q,
         q.id = p.id, Fresh(p.id, P \ {p}, S, D, V, Q)
  PROVE  Apart((L \ {p}) \cup {q}, S, D, V, Q)
  BY DEF Apart, Fresh

(* transfer_credit, or an expired proposal: taken out of the proposals.      *)
LEMMA ApartWithdrawn ==
  ASSUME NEW P, NEW S, NEW D, NEW V, NEW Q, Apart(P, S, D, V, Q), NEW L \in SUBSET P
  PROVE  Apart(L, S, D, V, Q)
  BY DEF Apart

(* schedule, or a payment that cannot be made: put at the end of the         *)
(* schedule.                                                                 *)
LEMMA ApartAppended ==
  ASSUME NEW P, NEW S \in Seq(Transfer), NEW D, NEW V, NEW Q, Apart(P, S, D, V, Q),
         NEW t \in Transfer, Fresh(t.id, P, S, D, V, Q)
  PROVE  Apart(P, Append(S, t), D, V, Q)
<1> DEFINE S1 == Append(S, t)
<1>1. \A j \in DOMAIN S1 : \/ j = Len(S) + 1 /\ S1[j] = t
                           \/ j \in DOMAIN S /\ S1[j] = S[j]
  BY PutBack
<1> HIDE DEF S1
<1>2. \A i, j \in DOMAIN S1 : S1[i].id = S1[j].id => i = j
  BY <1>1 DEF Apart, Fresh
<1>3. /\ \A i \in DOMAIN S1 : \A j \in DOMAIN D : S1[i].id # D[j].id
      /\ \A i \in DOMAIN S1 : \A u \in V : S1[i].id # u.id
      /\ \A i \in DOMAIN S1 : \A u \in Q : S1[i].id # u.id
      /\ \A i \in DOMAIN S1 : \A u \in P : S1[i].id # u.id
  BY <1>1 DEF Apart, Fresh
<1> QED
  BY <1>2, <1>3 DEF S1, Apart

(* reject: from the end of the schedule to the vetoed payments.              *)
LEMMA ApartVetoed ==
  ASSUME NEW P, NEW S \in Seq(Transfer), NEW D, NEW V, NEW Q, Apart(P, S, D, V, Q),
         NEW i \in DOMAIN S, i = Len(S)
  PROVE  Apart(P, [j \in 1..(i - 1) |-> S[j]], D, V \cup {S[i]}, Q)
<1> DEFINE S1 == [j \in 1..(i - 1) |-> S[j]]
<1>1. i - 1 \in 0..Len(S) /\ i \in Nat
  BY LenProperties
<1>2. \A j \in DOMAIN S1 : j \in DOMAIN S /\ j # i /\ S1[j] = S[j]
  BY <1>1, CutOff
<1> HIDE DEF S1
<1>3. Apart(P, S1, D, V \cup {S[i]}, Q)
  BY <1>2 DEF Apart
<1> QED
  BY <1>3 DEF S1

(* filter_scheduled_due: from the schedule to the due_list.  S1 holds the     *)
(* first k payments in the order f, D1 the others.                           *)
FrontOf(S1, S, f, k) ==
  \A i \in DOMAIN S1 : /\ i \in DOMAIN S /\ i <= k /\ i \in Nat
                       /\ f[i] \in DOMAIN S /\ S1[i] = S[f[i]]

BackOf(D1, S, f, k) ==
  \A i \in DOMAIN D1 : /\ k + i \in DOMAIN S /\ k + i > k /\ i \in Nat
                       /\ f[k + i] \in DOMAIN S /\ D1[i] = S[f[k + i]]

LEMMA ApartFiltered ==
  ASSUME NEW P, NEW S, NEW V, NEW Q, Apart(P, S, <<>>, V, Q), NEW S1, NEW D1,
         NEW f \in Rearrangements(S), NEW k \in Nat, FrontOf(S1, S, f, k), BackOf(D1, S, f, k)
  PROVE  Apart(P, S1, D1, V, Q)
<1>1. \A i \in DOMAIN S1 : /\ i \in DOMAIN S /\ i <= k /\ i \in Nat
                           /\ f[i] \in DOMAIN S /\ S1[i] = S[f[i]]
  BY DEF FrontOf
<1>2. \A i \in DOMAIN D1 : /\ k + i \in DOMAIN S /\ k + i > k /\ i \in Nat
                           /\ f[k + i] \in DOMAIN S /\ D1[i] = S[f[k + i]]
  BY DEF BackOf
<1>3. \A i, j \in DOMAIN S : f[i] = f[j] => i = j
  BY DEF Rearrangements
<1>4. \A i, j \in DOMAIN S1 : S1[i].id = S1[j].id => i = j
  BY <1>1, <1>3 DEF Apart
<1>5. \A i, j \in DOMAIN D1 : D1[i].id = D1[j].id => i = j
  BY <1>2, <1>3 DEF Apart
<1>6. \A i \in DOMAIN S1 : \A j \in DOMAIN D1 : S1[i].id # D1[j].id
  BY <1>1, <1>2, <1>3 DEF Apart
<1>7. /\ \A i \in DOMAIN S1 : \A t \in V : S1[i].id # t.id
      /\ \A i \in DOMAIN S1 : \A t \in Q : S1[i].id # t.id
      /\ \A i \in DOMAIN S1 : \A t \in P : S1[i].id # t.id
  BY <1>1 DEF Apart
<1>8. /\ \A i \in DOMAIN D1 : \A t \in V : D1[i].id # t.id
      /\ \A i \in DOMAIN D1 : \A t \in Q : D1[i].id # t.id
      /\ \A i \in DOMAIN D1 : \A t \in P : D1[i].id # t.id
  BY <1>2 DEF Apart
<1> QED
  BY <1>4, <1>5, <1>6, <1>7, <1>8 DEF Apart

(* The last payment of the due_list, as the loop takes it: paid, or back to  *)
(* the end of the schedule.                                                  *)
LEMMA ApartTaken ==
  ASSUME NEW P, NEW S, NEW D, NEW V, NEW Q, Apart(P, S, D, V, Q), NEW D1, NEW n \in DOMAIN D,
         \A i \in DOMAIN D1 : i \in DOMAIN D /\ i # n /\ D1[i] = D[i]
  PROVE  Apart(P, S, D1, V, Q) /\ Fresh(D[n].id, P, S, D1, V, Q)
<1>1. Apart(P, S, D1, V, Q)
  BY DEF Apart
<1>2. Fresh(D[n].id, P, S, D1, V, Q)
  BY DEF Apart, Fresh
<1> QED
  BY <1>1, <1>2

(* pop_back: the last element, and the list without it.                      *)
LEMMA PopBack ==
  ASSUME NEW T, NEW s \in Seq(T), s # <<>>
  PROVE  /\ Len(s) \in DOMAIN s /\ s[Len(s)] \in T
         /\ \A i \in DOMAIN [j \in 1..(Len(s) - 1) |-> s[j]] :
              i \in DOMAIN s /\ i # Len(s) /\ [j \in 1..(Len(s) - 1) |-> s[j]][i] = s[i]
<1> DEFINE c == [j \in 1..(Len(s) - 1) |-> s[j]]
<1>1. Len(s) \in Nat \ {0} /\ DOMAIN s = 1..Len(s)
  BY EmptySeq, LenProperties
<1>2. Len(s) \in DOMAIN s /\ s[Len(s)] \in T
  BY <1>1, ElementOfSeq
<1>3. ASSUME NEW n \in Nat PROVE \A i \in 1..(n - 1) : i \in 1..n /\ i # n
  OBVIOUS
<1>4. \A i \in 1..(Len(s) - 1) : i \in 1..Len(s) /\ i # Len(s)
  BY <1>1, <1>3
<1>5. DOMAIN c = 1..(Len(s) - 1) /\ \A i \in 1..(Len(s) - 1) : c[i] = s[i]
  OBVIOUS
<1> QED
  BY <1>1, <1>2, <1>4, <1>5

(* The invariant: every wallet's lists are apart, and the numbers in use are *)
(* below the next one.                                                       *)
PlaceInv ==
  /\ \A w \in Wallets :
       /\ Apart(proposals[w], scheduled[w], DueOf(w), vetoed[w], paid[w])
       /\ Below(proposals[w], scheduled[w], DueOf(w), vetoed[w], paid[w], nextId[w])
  /\ stage = "open" => due = <<>>

LEMMA InitPlace == Init => PlaceInv
  BY DEF Init, PlaceInv, DueOf, Apart, Below

LEMMA NextPlace == TypeInv /\ PlaceInv /\ [Next]_vars => PlaceInv'
<1> SUFFICES ASSUME TypeInv, PlaceInv, [Next]_vars PROVE PlaceInv'
  OBVIOUS
<1> USE DonorVoiceAssumption
<1> DEFINE A(w) == Apart(proposals[w], scheduled[w], DueOf(w), vetoed[w], paid[w])
           B(w) == Below(proposals[w], scheduled[w], DueOf(w), vetoed[w], paid[w], nextId[w])
<1>0. /\ scheduled \in [Wallets -> Seq(Transfer)] /\ due \in Seq(Transfer)
      /\ proposals \in [Wallets -> SUBSET Proposal]
      /\ vetoed \in [Wallets -> SUBSET Transfer] /\ paid \in [Wallets -> SUBSET Transfer]
      /\ epoch \in Nat /\ at \in Wallets
      /\ nextId \in [Wallets -> Nat]
  BY DEF TypeInv, DonorVoiceTypeOK
<1>1. \A w \in Wallets : A(w) /\ B(w)
  BY DEF PlaceInv
<1>2. ASSUME UNCHANGED <<proposals, scheduled, due, at, vetoed, paid, nextId>>,
             stage' = stage \/ due = <<>>
      PROVE  PlaceInv'
  BY <1>2 DEF PlaceInv, DueOf
(* a step on one wallet *)
<1>3. ASSUME NEW w \in Wallets,
             \A v \in Wallets : v # w =>
               /\ proposals'[v] = proposals[v] /\ scheduled'[v] = scheduled[v]
               /\ DueOf(v)' = DueOf(v) /\ vetoed'[v] = vetoed[v] /\ paid'[v] = paid[v]
               /\ nextId'[v] = nextId[v],
             A(w)', B(w)', stage' = "open" => due' = <<>>
      PROVE  PlaceInv'
  <2>1. ASSUME NEW v \in Wallets PROVE A(v)' /\ B(v)'
    BY <1>1, <1>3
  <2> QED
    BY <1>3, <2>1 DEF PlaceInv
<1>4. ASSUME NEW a \in Authorities, NEW w \in Wallets, NEW o \in Orders,
             NEW p \in CandidateProposals(w, o), VoteOnPayment(a, w, o, p)
      PROVE  /\ Fresh(p.id, proposals[w] \ {p}, scheduled[w], DueOf(w), vetoed[w], paid[w])
             /\ Below(proposals[w], scheduled[w], DueOf(w), vetoed[w], paid[w], nextId'[w])
             /\ p \in Proposal /\ p.id < nextId'[w]
             /\ LiveProposals(w) \subseteq proposals[w]
             /\ \A v \in Wallets : v # w => nextId'[v] = nextId[v]
             /\ due = <<>> /\ stage = "open"
  <2>1. nextId[w] \in Nat /\ proposals[w] \subseteq Proposal /\ A(w) /\ B(w)
    BY <1>0, <1>1
  <2>2. \/ p \in proposals[w] /\ nextId' = nextId
        \/ p.id = nextId[w] /\ nextId' = [nextId EXCEPT ![w] = nextId[w] + 1]
    BY <1>4 DEF VoteOnPayment, NewProposal, SameOrder, LiveProposals
  <2>3. Fresh(p.id, proposals[w] \ {p}, scheduled[w], DueOf(w), vetoed[w], paid[w])
    BY <2>1, <2>2, VotedIsFresh
  <2>4. p \in Proposal /\ LiveProposals(w) \subseteq proposals[w]
    BY ProposalsType
  <2>5. p.id < nextId'[w] /\ nextId[w] <= nextId'[w] /\ nextId'[w] \in Nat
    <3>1. CASE p \in proposals[w] /\ nextId' = nextId
      BY <2>1, <3>1 DEF Below
    <3>2. CASE p.id = nextId[w] /\ nextId' = [nextId EXCEPT ![w] = nextId[w] + 1]
      BY <1>0, <2>1, <3>2
    <3> QED
      BY <2>2, <3>1, <3>2
  <2>6. \A v \in Wallets : v # w => nextId'[v] = nextId[v]
    BY <1>0, <2>2
  <2>7. due = <<>> /\ stage = "open"
    BY <1>4 DEF VoteOnPayment, UserTx, PlaceInv
  <2>8. DueOf(w) \in Seq(Transfer)
    BY <1>0 DEF DueOf
  <2>9. Below(proposals[w], scheduled[w], DueOf(w), vetoed[w], paid[w], nextId'[w])
    BY <1>0, <2>1, <2>5, <2>8, BelowKept
  <2> QED
    BY <2>3, <2>4, <2>5, <2>6, <2>7, <2>9
<1>5. ASSUME NEW a \in Authorities, NEW w \in Wallets, NEW o \in Orders, ApprovePayment(a, w, o)
      PROVE  PlaceInv'
  <2>1. PICK p \in CandidateProposals(w, o) :
          /\ VoteOnPayment(a, w, o, p)
          /\ proposals' = [proposals EXCEPT ![w] =
               (LiveProposals(w) \ {p}) \cup {[p EXCEPT !.votes = p.votes \cup {a}]}]
          /\ UNCHANGED <<pipeVars, boundaryVars>>
    BY <1>5 DEF ApprovePayment
  <2> DEFINE q == [p EXCEPT !.votes = p.votes \cup {a}]
  <2>2. /\ Fresh(p.id, proposals[w] \ {p}, scheduled[w], DueOf(w), vetoed[w], paid[w])
        /\ Below(proposals[w], scheduled[w], DueOf(w), vetoed[w], paid[w], nextId'[w])
        /\ p \in Proposal /\ p.id < nextId'[w]
        /\ LiveProposals(w) \subseteq proposals[w]
        /\ \A v \in Wallets : v # w => nextId'[v] = nextId[v]
        /\ due = <<>> /\ stage = "open"
    BY <1>4, <2>1
  <2>3. q.id = p.id /\ p.id \in Nat
    BY <2>2 DEF Proposal
  <2> HIDE DEF q
  <2>4. /\ proposals'[w] = (LiveProposals(w) \ {p}) \cup {q}
        /\ \A v \in Wallets : v # w => proposals'[v] = proposals[v]
    BY <1>0, <2>1 DEF q
  <2>5. UNCHANGED <<scheduled, vetoed, paid, at, due, stage>>
    BY <2>1 DEF pipeVars, boundaryVars
  <2>6. A(w)'
    <3>1. Apart((LiveProposals(w) \ {p}) \cup {q}, scheduled[w], DueOf(w), vetoed[w], paid[w])
      BY <1>1, <2>2, <2>3, ApartVoted
    <3> QED
      BY <2>4, <2>5, <3>1 DEF DueOf
  <2>7. B(w)'
    <3>1. Below((LiveProposals(w) \ {p}) \cup {q}, scheduled[w], DueOf(w), vetoed[w], paid[w],
                nextId'[w])
      BY <2>2, <2>3 DEF Below
    <3> QED
      BY <2>4, <2>5, <3>1 DEF DueOf
  <2>8. \A v \in Wallets : DueOf(v)' = DueOf(v)
    BY <2>5 DEF DueOf
  <2> QED
    BY <1>3, <2>2, <2>4, <2>5, <2>6, <2>7, <2>8
<1>6. ASSUME NEW a \in Authorities, NEW w \in Wallets, NEW o \in Orders, SchedulePayment(a, w, o)
      PROVE  PlaceInv'
  <2>1. PICK p \in CandidateProposals(w, o) :
          /\ VoteOnPayment(a, w, o, p)
          /\ proposals' = [proposals EXCEPT ![w] = LiveProposals(w) \ {p}]
          /\ scheduled' = [scheduled EXCEPT ![w] = Append(scheduled[w],
               [id |-> p.id, order |-> o, deadline |-> epoch + PaymentDays])]
          /\ UNCHANGED <<vetoed, paid, boundaryVars>>
    BY <1>6 DEF SchedulePayment
  <2> DEFINE t == [id |-> p.id, order |-> o, deadline |-> epoch + PaymentDays]
  <2>2. /\ Fresh(p.id, proposals[w] \ {p}, scheduled[w], DueOf(w), vetoed[w], paid[w])
        /\ Below(proposals[w], scheduled[w], DueOf(w), vetoed[w], paid[w], nextId'[w])
        /\ p \in Proposal /\ p.id < nextId'[w]
        /\ LiveProposals(w) \subseteq proposals[w]
        /\ \A v \in Wallets : v # w => nextId'[v] = nextId[v]
        /\ due = <<>> /\ stage = "open"
    BY <1>4, <2>1
  <2>3. t \in Transfer /\ t.id = p.id
    BY <1>0, <2>2 DEF Proposal, Transfer
  <2> HIDE DEF t
  <2>4. /\ proposals'[w] = LiveProposals(w) \ {p}
        /\ scheduled'[w] = Append(scheduled[w], t)
        /\ \A v \in Wallets : v # w => /\ proposals'[v] = proposals[v]
                                       /\ scheduled'[v] = scheduled[v]
    BY <1>0, <2>1 DEF t
  <2>5. UNCHANGED <<vetoed, paid, at, due, stage>>
    BY <2>1 DEF boundaryVars
  <2>6. A(w)'
    <3>1. Apart(LiveProposals(w) \ {p}, Append(scheduled[w], t), DueOf(w), vetoed[w], paid[w])
      <4>1. Apart(LiveProposals(w) \ {p}, scheduled[w], DueOf(w), vetoed[w], paid[w])
        BY <1>1, <2>2, ApartWithdrawn
      <4>2. Fresh(t.id, LiveProposals(w) \ {p}, scheduled[w], DueOf(w), vetoed[w], paid[w])
        BY <2>2, <2>3 DEF Fresh
      <4> QED
        BY <1>0, <2>3, <4>1, <4>2, ApartAppended
    <3> QED
      BY <2>4, <2>5, <3>1 DEF DueOf
  <2>7. B(w)'
    <3>1. \A j \in DOMAIN Append(scheduled[w], t) :
            \/ Append(scheduled[w], t)[j] = t
            \/ j \in DOMAIN scheduled[w] /\ Append(scheduled[w], t)[j] = scheduled[w][j]
      BY <1>0, <2>3, PutBack
    <3>2. Below(LiveProposals(w) \ {p}, Append(scheduled[w], t), DueOf(w), vetoed[w], paid[w],
                nextId'[w])
      BY <2>2, <2>3, <3>1 DEF Below
    <3> QED
      BY <2>4, <2>5, <3>2 DEF DueOf
  <2>8. \A v \in Wallets : DueOf(v)' = DueOf(v)
    BY <2>5 DEF DueOf
  <2> QED
    BY <1>3, <2>2, <2>4, <2>5, <2>6, <2>7, <2>8
<1>7. ASSUME NEW a \in Authorities, NEW w \in Wallets, NEW o \in Orders, AdvancePayment(a, w, o)
      PROVE  PlaceInv'
  <2>1. PICK p \in CandidateProposals(w, o) :
          /\ VoteOnPayment(a, w, o, p)
          /\ proposals' = [proposals EXCEPT ![w] = LiveProposals(w) \ {p}]
          /\ UNCHANGED <<pipeVars, boundaryVars>>
    BY <1>7 DEF AdvancePayment
  <2>2. /\ Below(proposals[w], scheduled[w], DueOf(w), vetoed[w], paid[w], nextId'[w])
        /\ LiveProposals(w) \subseteq proposals[w]
        /\ \A v \in Wallets : v # w => nextId'[v] = nextId[v]
        /\ due = <<>> /\ stage = "open"
    BY <1>4, <2>1
  <2>3. /\ proposals'[w] = LiveProposals(w) \ {p}
        /\ \A v \in Wallets : v # w => proposals'[v] = proposals[v]
    BY <1>0, <2>1
  <2>4. UNCHANGED <<scheduled, vetoed, paid, at, due, stage>>
    BY <2>1 DEF pipeVars, boundaryVars
  <2>5. A(w)'
    <3>1. Apart(LiveProposals(w) \ {p}, scheduled[w], DueOf(w), vetoed[w], paid[w])
      BY <1>1, <2>2, ApartWithdrawn
    <3> QED
      BY <2>3, <2>4, <3>1 DEF DueOf
  <2>6. B(w)'
    <3>1. Below(LiveProposals(w) \ {p}, scheduled[w], DueOf(w), vetoed[w], paid[w], nextId'[w])
      BY <2>2 DEF Below
    <3> QED
      BY <2>3, <2>4, <3>1 DEF DueOf
  <2>7. \A v \in Wallets : DueOf(v)' = DueOf(v)
    BY <2>4 DEF DueOf
  <2> QED
    BY <1>3, <2>2, <2>3, <2>4, <2>5, <2>6, <2>7
<1>8. ASSUME NEW d \in Donors, NEW w \in Wallets, NEW i \in DOMAIN scheduled[w], PassVeto(d, w, i)
      PROVE  PlaceInv'
  <2>1. /\ i = Len(scheduled[w]) /\ stage = "open"
        /\ scheduled' = [scheduled EXCEPT ![w] = [j \in 1..(i - 1) |-> scheduled[w][j]]]
        /\ vetoed' = [vetoed EXCEPT ![w] = vetoed[w] \cup {scheduled[w][i]}]
        /\ UNCHANGED <<proposals, nextId, paid, boundaryVars>>
    BY <1>8 DEF PassVeto, Reject, MayProposeVeto, UserTx
  <2> DEFINE S1 == [j \in 1..(i - 1) |-> scheduled[w][j]]
  <2>2. /\ scheduled'[w] = S1 /\ vetoed'[w] = vetoed[w] \cup {scheduled[w][i]}
        /\ \A v \in Wallets : v # w => /\ scheduled'[v] = scheduled[v]
                                       /\ vetoed'[v] = vetoed[v]
    BY <1>0, <2>1
  <2>3. UNCHANGED <<proposals, nextId, paid, at, due, stage>>
    BY <2>1 DEF boundaryVars
  <2>4. A(w)'
    <3>1. Apart(proposals[w], S1, DueOf(w), vetoed[w] \cup {scheduled[w][i]}, paid[w])
      BY <1>0, <1>1, <2>1, ApartVetoed
    <3> QED
      BY <2>2, <2>3, <3>1 DEF DueOf
  <2>5. B(w)'
    <3>1. i - 1 \in 0..Len(scheduled[w])
      BY <1>0, <2>1, LenProperties
    <3>2. \A j \in DOMAIN S1 : j \in DOMAIN scheduled[w] /\ S1[j] = scheduled[w][j]
      BY <1>0, <3>1, CutOff
    <3> HIDE DEF S1
    <3>3. Below(proposals[w], S1, DueOf(w), vetoed[w] \cup {scheduled[w][i]}, paid[w], nextId[w])
      BY <1>1, <3>2 DEF Below
    <3> QED
      BY <2>2, <2>3, <3>3 DEF DueOf
  <2>6. \A v \in Wallets : DueOf(v)' = DueOf(v)
    BY <2>3 DEF DueOf
  <2>7. stage' = "open" => due' = <<>>
    BY <2>1, <2>3 DEF PlaceInv
  <2> HIDE DEF S1
  <2> QED
    BY <1>3, <2>2, <2>3, <2>4, <2>5, <2>6, <2>7
<1>9. ASSUME NEW w \in Wallets, FilterDue(w) PROVE PlaceInv'
  <2>1. PICK f \in Rearrangements(scheduled[w]), k \in 0..Len(scheduled[w]) :
          /\ StablePartition(scheduled[w], epoch, f, k)
          /\ scheduled' = [scheduled EXCEPT ![w] = [i \in 1..k |-> scheduled[w][f[i]]]]
          /\ due' = [i \in 1..(Len(scheduled[w]) - k) |-> scheduled[w][f[k + i]]]
    BY <1>9 DEF FilterDue
  <2>2. /\ due = <<>> /\ stage = "pay" /\ at' = w
        /\ UNCHANGED <<proposals, nextId, vetoed, paid, stage>>
    BY <1>9 DEF FilterDue
  <2> DEFINE S1 == [i \in 1..k |-> scheduled[w][f[i]]]
             D1 == [i \in 1..(Len(scheduled[w]) - k) |-> scheduled[w][f[k + i]]]
  <2>3. /\ scheduled'[w] = S1
        /\ \A v \in Wallets : v # w => scheduled'[v] = scheduled[v]
    BY <1>0, <2>1
  <2>4. /\ \A v \in Wallets : DueOf(v) = <<>>
        /\ DueOf(w)' = D1
        /\ \A v \in Wallets : v # w => DueOf(v)' = <<>>
    BY <2>1, <2>2 DEF DueOf
  <2>5a. Len(scheduled[w]) \in Nat /\ scheduled[w] \in Seq(Transfer) /\ k \in Nat
    BY <1>0, LenProperties
  <2>5b. FrontOf(S1, scheduled[w], f, k)
    <3>1. DOMAIN S1 = 1..k
      OBVIOUS
    <3>2. \A i \in 1..k : i <= k /\ i \in Nat
      BY <2>5a
    <3>3. \A i \in 1..k : /\ i \in DOMAIN scheduled[w] /\ f[i] \in DOMAIN scheduled[w]
                          /\ S1[i] = scheduled[w][f[i]]
      BY <1>0, <2>1, <2>5a, Partition
    <3> QED
      BY <3>1, <3>2, <3>3 DEF FrontOf
  <2>5c. BackOf(D1, scheduled[w], f, k)
    <3>1. DOMAIN D1 = 1..(Len(scheduled[w]) - k)
      OBVIOUS
    <3>2. \A i \in 1..(Len(scheduled[w]) - k) : k + i > k /\ i \in Nat
      BY <2>5a
    <3>3. \A i \in 1..(Len(scheduled[w]) - k) :
            /\ k + i \in DOMAIN scheduled[w]
            /\ f[k + i] \in DOMAIN scheduled[w] /\ D1[i] = scheduled[w][f[k + i]]
      BY <1>0, <2>1, <2>5a, Partition
    <3> QED
      BY <3>1, <3>2, <3>3 DEF BackOf
  <2>5. Apart(proposals[w], S1, D1, vetoed[w], paid[w])
    <3>1. Apart(proposals[w], scheduled[w], <<>>, vetoed[w], paid[w])
      BY <1>1, <2>4
    <3> HIDE DEF S1, D1
    <3> QED
      BY <2>5a, <2>5b, <2>5c, <3>1, ApartFiltered
  <2>6. Below(proposals[w], S1, D1, vetoed[w], paid[w], nextId[w])
    <3> HIDE DEF S1, D1
    <3> QED
      BY <1>1, <2>5b, <2>5c DEF Below, FrontOf, BackOf
  <2> HIDE DEF S1, D1
  <2>7. A(w)' /\ B(w)'
    BY <2>2, <2>3, <2>4, <2>5, <2>6
  <2> QED
    BY <1>3, <2>2, <2>3, <2>4, <2>7
<1>10. ASSUME TakeDue
       PROVE  LET D1 == [i \in 1..(Len(due) - 1) |-> due[i]]
              IN /\ due' = D1 /\ stage = "pay" /\ NextDue \in Transfer
                 /\ Apart(proposals[at], scheduled[at], D1, vetoed[at], paid[at])
                 /\ Below(proposals[at], scheduled[at], D1, vetoed[at], paid[at], nextId[at])
                 /\ Fresh(NextDue.id, proposals[at], scheduled[at], D1, vetoed[at], paid[at])
                 /\ NextDue.id < nextId[at]
  <2> DEFINE D1 == [i \in 1..(Len(due) - 1) |-> due[i]]
  <2>1. due # <<>> /\ stage = "pay" /\ due' = D1
    BY <1>10 DEF TakeDue, PopDue
  <2>2. /\ Apart(proposals[at], scheduled[at], due, vetoed[at], paid[at])
        /\ Below(proposals[at], scheduled[at], due, vetoed[at], paid[at], nextId[at])
    BY <1>0, <1>1 DEF DueOf
  <2>3. /\ Apart(proposals[at], scheduled[at], D1, vetoed[at], paid[at])
        /\ NextDue \in Transfer /\ Len(due) \in DOMAIN due
        /\ \A i \in DOMAIN D1 : i \in DOMAIN due /\ D1[i] = due[i]
        /\ Fresh(NextDue.id, proposals[at], scheduled[at], D1, vetoed[at], paid[at])
    <3>1. /\ Len(due) \in DOMAIN due /\ due[Len(due)] \in Transfer
          /\ \A i \in DOMAIN D1 : i \in DOMAIN due /\ i # Len(due) /\ D1[i] = due[i]
      BY <1>0, <2>1, PopBack
    <3> HIDE DEF D1
    <3> QED
      BY <2>2, <3>1, ApartTaken DEF NextDue
  <2> HIDE DEF D1
  <2>4. /\ Below(proposals[at], scheduled[at], D1, vetoed[at], paid[at], nextId[at])
        /\ NextDue.id < nextId[at]
    BY <2>2, <2>3 DEF Below, NextDue
  <2> QED
    BY <2>1, <2>3, <2>4 DEF D1
<1>11. CASE PayDue
  <2> DEFINE D1 == [i \in 1..(Len(due) - 1) |-> due[i]]
  <2>1. /\ due' = D1 /\ stage = "pay" /\ NextDue \in Transfer
        /\ Apart(proposals[at], scheduled[at], D1, vetoed[at], paid[at])
        /\ Below(proposals[at], scheduled[at], D1, vetoed[at], paid[at], nextId[at])
        /\ Fresh(NextDue.id, proposals[at], scheduled[at], D1, vetoed[at], paid[at])
        /\ NextDue.id < nextId[at]
    BY <1>10, <1>11 DEF PayDue
  <2> HIDE DEF D1
  <2>2. /\ paid' = [paid EXCEPT ![at] = paid[at] \cup {NextDue}]
        /\ UNCHANGED <<proposals, nextId, scheduled, vetoed, stage, at>>
    BY <1>11 DEF PayDue
  <2>3. /\ paid'[at] = paid[at] \cup {NextDue}
        /\ \A v \in Wallets : v # at => paid'[v] = paid[v] /\ DueOf(v)' = DueOf(v)
        /\ DueOf(at)' = D1
    BY <1>0, <2>1, <2>2 DEF DueOf
  <2>4. Apart(proposals[at], scheduled[at], D1, vetoed[at], paid[at] \cup {NextDue})
    BY <2>1 DEF Apart, Fresh
  <2>5. Below(proposals[at], scheduled[at], D1, vetoed[at], paid[at] \cup {NextDue}, nextId[at])
    BY <2>1 DEF Below
  <2>6. A(at)' /\ B(at)'
    BY <2>2, <2>3, <2>4, <2>5
  <2> QED
    BY <1>0, <1>3, <2>1, <2>2, <2>3, <2>6
<1>12. CASE RequeueDue
  <2> DEFINE D1 == [i \in 1..(Len(due) - 1) |-> due[i]]
             S1 == Append(scheduled[at], NextDue)
  <2>1. /\ due' = D1 /\ stage = "pay" /\ NextDue \in Transfer
        /\ Apart(proposals[at], scheduled[at], D1, vetoed[at], paid[at])
        /\ Below(proposals[at], scheduled[at], D1, vetoed[at], paid[at], nextId[at])
        /\ Fresh(NextDue.id, proposals[at], scheduled[at], D1, vetoed[at], paid[at])
        /\ NextDue.id < nextId[at]
    BY <1>10, <1>12 DEF RequeueDue
  <2> HIDE DEF D1
  <2>2. /\ scheduled' = [scheduled EXCEPT ![at] = S1]
        /\ UNCHANGED <<proposals, nextId, paid, vetoed, stage, at>>
    BY <1>12 DEF RequeueDue
  <2>3. /\ scheduled'[at] = S1
        /\ \A v \in Wallets : v # at => scheduled'[v] = scheduled[v] /\ DueOf(v)' = DueOf(v)
        /\ DueOf(at)' = D1
    BY <1>0, <2>1, <2>2 DEF DueOf
  <2>4. \A j \in DOMAIN S1 : \/ j = Len(scheduled[at]) + 1 /\ S1[j] = NextDue
                             \/ j \in DOMAIN scheduled[at] /\ S1[j] = scheduled[at][j]
    BY <1>0, <2>1, PutBack
  <2> HIDE DEF S1
  <2>5. Apart(proposals[at], S1, D1, vetoed[at], paid[at])
    BY <1>0, <2>1, ApartAppended DEF S1
  <2>6. Below(proposals[at], S1, D1, vetoed[at], paid[at], nextId[at])
    BY <2>1, <2>4 DEF Below
  <2>7. A(at)' /\ B(at)'
    BY <2>2, <2>3, <2>5, <2>6
  <2> QED
    BY <1>0, <1>3, <2>1, <2>2, <2>3, <2>7
<1>13. CASE BeginBoundary
  BY <1>2, <1>13 DEF BeginBoundary, PlaceInv, pipeVars
<1>14. CASE EndBoundary
  BY <1>2, <1>14 DEF EndBoundary, pipeVars
<1>15. ASSUME NEW d \in Donors, NEW w \in Wallets, DonorTx(d, w) PROVE PlaceInv'
  <2>1. CASE \E x \in Amounts : Donate(d, w, x)
    BY <1>2, <2>1 DEF Donate, pipeVars, boundaryVars
  <2>2. CASE \E i \in DOMAIN scheduled[w] : OpenVeto(d, w, i)
    BY <1>2, <2>2 DEF OpenVeto, pipeVars, boundaryVars
  <2>3. CASE ProposeLiquidation(d, w) \/ ProposeReauth(d, w)
    BY <1>2, <2>3 DEF ProposeLiquidation, ProposeReauth, pipeVars, boundaryVars
  <2>4. CASE VoteLiquidation(d, w) \/ VoteReauth(d, w)
    BY <1>2, <2>4 DEF VoteLiquidation, VoteReauth, pipeVars, boundaryVars
  <2> QED
    BY <1>8, <1>15, <2>1, <2>2, <2>3, <2>4 DEF DonorTx
<1>16. CASE OtherTx
  <2>1. CASE \E p \in Payees : BecomeSlow(p)
    BY <1>2, <2>1 DEF BecomeSlow, pipeVars, boundaryVars
  <2>2. CASE \E w \in Wallets : MandateExpires(w) \/ GoInactive(w) \/ CloseReauth(w)
    BY <1>2, <2>2 DEF MandateExpires, GoInactive, CloseReauth, pipeVars, boundaryVars
  <2>3. CASE \E w \in Wallets, x \in Amounts : Repay(w, x)
    BY <1>2, <2>3 DEF Repay, pipeVars, boundaryVars
  <2> QED
    BY <1>16, <2>1, <2>2, <2>3 DEF OtherTx
<1>17. CASE UNCHANGED vars
  BY <1>2, <1>17 DEF vars, pipeVars, boundaryVars
<1> QED
  BY <1>5, <1>6, <1>7, <1>9, <1>11, <1>12, <1>13, <1>14, <1>15, <1>16, <1>17
  DEF Next, Boundary, AuthorityTx

(* No payment is made twice and no vetoed payment is made, through every     *)
(* proposal, vote, veto, filter, payment and requeue: each moves the payment *)
(* out of the list that it was in.                                           *)
THEOREM NoPaymentTwice == Spec => []PaymentsInOnePlace
<1>1. Init => TypeInv /\ PlaceInv
  BY InitType, InitPlace
<1>2. (TypeInv /\ PlaceInv) /\ [Next]_vars => (TypeInv /\ PlaceInv)'
  BY NextType, NextPlace
<1>3. TypeInv /\ PlaceInv => PaymentsInOnePlace
  BY DEF PlaceInv, Apart, PaymentsInOnePlace, Ids
<1> QED
  BY <1>1, <1>2, <1>3, PTL DEF Spec

-----------------------------------------------------------------------------
(* Loans.  What a wallet holds never exceeds what came in, so the credit     *)
(* line of its balance is within the line of all that ever came in.          *)
LoanInv ==
  /\ LoanWithinCredit
  /\ \A w \in Wallets : balance[w] <= cumulative[w] + advance[w].repaid

LEMMA InitLoan == Init => LoanInv
<1> SUFFICES ASSUME Init PROVE LoanInv
  OBVIOUS
<1>1. \A w \in Wallets : cumulative[w] \in Nat /\ balance[w] = cumulative[w]
  BY InitType DEF Init, TypeInv, DonorVoiceTypeOK
<1>2. \A w \in Wallets : /\ advance[w].outstanding = 0 /\ advance[w].withdrawn = 0
                         /\ advance[w].repaid = 0
  BY DEF Init
<1> QED
  BY <1>1, <1>2 DEF LoanInv, LoanWithinCredit, BPS_BALANCE_CREDIT_LINE

LEMMA NextLoan == TypeInv /\ LoanInv /\ [Next]_vars => LoanInv'
<1> SUFFICES ASSUME TypeInv, LoanInv, [Next]_vars PROVE LoanInv'
  OBVIOUS
<1> USE DonorVoiceAssumption
<1>0. /\ balance \in [Wallets -> Nat] /\ cumulative \in [Wallets -> Nat]
      /\ advance \in [Wallets -> Loan]
      /\ at \in Wallets
      /\ \A w \in Wallets : /\ advance[w].outstanding \in Nat
                            /\ advance[w].withdrawn \in Nat /\ advance[w].repaid \in Nat
  BY DEF TypeInv, DonorVoiceTypeOK, Loan
<1>1. ASSUME UNCHANGED <<cumulative, advance>>,
             \A w \in Wallets : balance'[w] \in Nat /\ balance'[w] <= balance[w]
      PROVE  LoanInv'
  BY <1>0, <1>1 DEF LoanInv, LoanWithinCredit
<1>2. ASSUME UNCHANGED <<balance, cumulative, advance>> PROVE LoanInv'
  BY <1>2 DEF LoanInv, LoanWithinCredit
<1>1a. ASSUME NEW w \in Wallets, cumulative' = cumulative,
              \A v \in Wallets : v # w => advance'[v] = advance[v] /\ balance'[v] = balance[v],
              advance'[w].outstanding + advance'[w].repaid = advance'[w].withdrawn,
              advance'[w].outstanding * 10000
                <= (cumulative[w] + advance'[w].repaid) * BPS_BALANCE_CREDIT_LINE,
              balance'[w] <= cumulative[w] + advance'[w].repaid
       PROVE  LoanInv'
  <2>1. ASSUME NEW v \in Wallets
        PROVE  /\ advance'[v].outstanding + advance'[v].repaid = advance'[v].withdrawn
               /\ advance'[v].outstanding * 10000
                    <= (cumulative'[v] + advance'[v].repaid) * BPS_BALANCE_CREDIT_LINE
               /\ balance'[v] <= cumulative'[v] + advance'[v].repaid
    <3>1. CASE v = w
      BY <1>1a, <3>1
    <3>2. CASE v # w
      BY <1>1a, <3>2 DEF LoanInv, LoanWithinCredit
    <3> QED
      BY <3>1, <3>2
  <2> QED
    BY <2>1 DEF LoanInv, LoanWithinCredit
<1>3. ASSUME NEW d \in Donors, NEW w \in Wallets, NEW x \in Amounts, Donate(d, w, x)
      PROVE  LoanInv'
  <2>1. /\ balance' = [balance EXCEPT ![w] = balance[w] + x]
        /\ cumulative' = [cumulative EXCEPT ![w] = cumulative[w] + x]
        /\ advance' = advance /\ x \in Nat
    BY <1>3 DEF Donate
  <2>2. ASSUME NEW v \in Wallets
        PROVE  /\ balance'[v] <= cumulative'[v] + advance[v].repaid
               /\ cumulative[v] <= cumulative'[v] /\ cumulative'[v] \in Nat
    BY <1>0, <2>1 DEF LoanInv
  <2>3. LoanWithinCredit'
    BY <1>0, <2>1, <2>2 DEF LoanInv, LoanWithinCredit, BPS_BALANCE_CREDIT_LINE
  <2> QED
    BY <2>1, <2>2, <2>3 DEF LoanInv
<1>4. ASSUME NEW w \in Wallets, NEW x \in Amounts, Repay(w, x) PROVE LoanInv'
  <2>0. x \in Nat
    OBVIOUS
  <2>1. /\ x > 0 /\ advance[w].outstanding > x
        /\ advance' = [advance EXCEPT ![w].outstanding = advance[w].outstanding - x,
                                      ![w].repaid = advance[w].repaid + x]
        /\ balance' = [balance EXCEPT ![w] = balance[w] + x]
        /\ cumulative' = cumulative
    <3> DEFINE logged == IF x > advance[w].outstanding THEN advance[w].outstanding ELSE x
    <3>1. /\ logged > 0 /\ advance[w].outstanding > logged
          /\ advance' = [advance EXCEPT ![w].outstanding = advance[w].outstanding - logged,
                                        ![w].repaid = advance[w].repaid + logged]
          /\ balance' = [balance EXCEPT ![w] = balance[w] + x]
          /\ cumulative' = cumulative
      BY <1>4 DEF Repay
    <3>2. logged = x
      BY <1>0, <2>0, <3>1
    <3> HIDE DEF logged
    <3> QED
      BY <3>1, <3>2
  <2>2. /\ advance'[w].outstanding = advance[w].outstanding - x
        /\ advance'[w].repaid = advance[w].repaid + x
        /\ advance'[w].withdrawn = advance[w].withdrawn
        /\ balance'[w] = balance[w] + x
    BY <1>0, <2>1 DEF Loan
  <2>3. \A v \in Wallets : v # w => advance'[v] = advance[v] /\ balance'[v] = balance[v]
    BY <1>0, <2>1
  <2>4. /\ advance'[w].outstanding + advance'[w].repaid = advance'[w].withdrawn
        /\ advance'[w].outstanding * 10000
             <= (cumulative[w] + advance'[w].repaid) * BPS_BALANCE_CREDIT_LINE
        /\ balance'[w] <= cumulative[w] + advance'[w].repaid
    BY <1>0, <2>0, <2>1, <2>2 DEF LoanInv, LoanWithinCredit, BPS_BALANCE_CREDIT_LINE
  <2>8. cumulative' = cumulative
    BY <2>1
  <2> QED
    BY <1>1a, <2>3, <2>4, <2>8
<1>5. ASSUME NEW a \in Authorities, NEW w \in Wallets, NEW o \in Orders, AdvancePayment(a, w, o)
      PROVE  LoanInv'
  <2> DEFINE x == Value[o]
             limit == (balance[w] * BPS_BALANCE_CREDIT_LINE) \div 10000
  <2>1. PICK p \in CandidateProposals(w, o) :
          /\ VoteOnPayment(a, w, o, p) /\ Payee[o] \notin slow
          /\ x < balance[w]
          /\ balance' = [balance EXCEPT ![w] = balance[w] - x]
          /\ advance' = [advance EXCEPT ![w].outstanding = advance[w].outstanding + x,
                                        ![w].withdrawn = advance[w].withdrawn + x]
          /\ cumulative' = cumulative
    BY <1>5 DEF AdvancePayment
  <2>2. x \in Nat /\ CanWithdraw(w, x)
    BY <2>1 DEF VoteOnPayment
  <2>3. limit \in Nat /\ limit * 10000 <= balance[w] * 50
    BY <1>0 DEF BPS_BALANCE_CREDIT_LINE
  <2>4. advance[w].outstanding + x <= limit
    <3>1. CreditAvailable(w) > x
      BY <2>2 DEF CanWithdraw
    <3>2. CreditAvailable(w) = 0 \/ CreditAvailable(w) = limit - advance[w].outstanding
      BY DEF CreditAvailable
    <3> HIDE DEF limit
    <3> QED
      BY <1>0, <2>2, <2>3, <3>1, <3>2
  <2>5. /\ advance'[w].outstanding = advance[w].outstanding + x
        /\ advance'[w].repaid = advance[w].repaid
        /\ advance'[w].withdrawn = advance[w].withdrawn + x
        /\ balance'[w] = balance[w] - x
    BY <1>0, <2>1 DEF Loan
  <2>6. \A v \in Wallets : v # w => advance'[v] = advance[v] /\ balance'[v] = balance[v]
    BY <1>0, <2>1
  <2> HIDE DEF limit
  <2>7. /\ advance'[w].outstanding + advance'[w].repaid = advance'[w].withdrawn
        /\ advance'[w].outstanding * 10000
             <= (cumulative[w] + advance'[w].repaid) * BPS_BALANCE_CREDIT_LINE
        /\ balance'[w] <= cumulative[w] + advance'[w].repaid
    BY <1>0, <2>1, <2>2, <2>3, <2>4, <2>5
    DEF LoanInv, LoanWithinCredit, BPS_BALANCE_CREDIT_LINE
  <2>8. cumulative' = cumulative
    BY <2>1
  <2> QED
    BY <1>1a, <2>6, <2>7, <2>8
<1>6. CASE BeginBoundary
  <2>1. UNCHANGED <<cumulative, advance>>
    BY <1>6 DEF BeginBoundary
  <2>2. \A w \in Wallets : balance'[w] = 0 \/ balance'[w] = balance[w]
    BY <1>0, <1>6 DEF BeginBoundary
  <2> QED
    BY <1>0, <1>1, <2>1, <2>2
<1>7. CASE PayDue
  <2>1. /\ UNCHANGED <<cumulative, advance>>
        /\ balance' = [balance EXCEPT ![at] = balance[at] - Value[NextDue.order]]
        /\ due \in Seq(Transfer) /\ due # <<>>
    BY <1>7 DEF PayDue, TakeDue, TypeInv, DonorVoiceTypeOK
  <2>2. NextDue \in Transfer
    BY <2>1, PopBack DEF NextDue
  <2>3. Value[NextDue.order] \in Nat /\ Value[NextDue.order] <= balance[at]
    BY <1>7, <2>2 DEF PayDue, Affordable, Transfer
  <2> QED
    BY <1>0, <1>1, <2>1, <2>3
<1>8. CASE RequeueDue \/ EndBoundary \/ \E w \in Wallets : FilterDue(w)
  BY <1>2, <1>8 DEF RequeueDue, EndBoundary, FilterDue, moneyVars
<1>9. ASSUME NEW d \in Donors, NEW w \in Wallets, DonorTx(d, w) PROVE LoanInv'
  <2>1. CASE \E i \in DOMAIN scheduled[w] : OpenVeto(d, w, i) \/ PassVeto(d, w, i)
    BY <1>2, <2>1 DEF OpenVeto, PassVeto, moneyVars
  <2>2. CASE ProposeLiquidation(d, w) \/ ProposeReauth(d, w)
    BY <1>2, <2>2 DEF ProposeLiquidation, ProposeReauth, moneyVars
  <2>3. CASE VoteLiquidation(d, w) \/ VoteReauth(d, w)
    BY <1>2, <2>3 DEF VoteLiquidation, VoteReauth, moneyVars
  <2> QED
    BY <1>3, <1>9, <2>1, <2>2, <2>3 DEF DonorTx
<1>10. ASSUME NEW a \in Authorities, NEW w \in Wallets, NEW o \in Orders,
              ApprovePayment(a, w, o) \/ SchedulePayment(a, w, o)
       PROVE  LoanInv'
  BY <1>2, <1>10 DEF ApprovePayment, SchedulePayment, moneyVars
<1>11. CASE OtherTx
  <2>1. CASE \E p \in Payees : BecomeSlow(p)
    BY <1>2, <2>1 DEF BecomeSlow, moneyVars
  <2>2. CASE \E w \in Wallets : MandateExpires(w) \/ GoInactive(w) \/ CloseReauth(w)
    BY <1>2, <2>2 DEF MandateExpires, GoInactive, CloseReauth, moneyVars
  <2> QED
    BY <1>4, <1>11, <2>1, <2>2 DEF OtherTx
<1>12. CASE UNCHANGED vars
  BY <1>2, <1>12 DEF vars, moneyVars
<1> QED
  BY <1>5, <1>6, <1>7, <1>8, <1>9, <1>10, <1>11, <1>12 DEF Next, Boundary, AuthorityTx

(* No sequence of advances, repayments, payments and gifts takes a loan      *)
(* above the credit line of what came in, or makes the three records of a    *)
(* loan disagree (transfer_credit, service_loan_with_coin).                  *)
THEOREM LoansWithinCredit == Spec => []LoanWithinCredit
<1>1. Init => TypeInv /\ LoanInv
  BY InitType, InitLoan
<1>2. (TypeInv /\ LoanInv) /\ [Next]_vars => (TypeInv /\ LoanInv)'
  BY NextType, NextLoan
<1>3. TypeInv /\ LoanInv => LoanWithinCredit
  BY DEF LoanInv
<1> QED
  BY <1>1, <1>2, <1>3, PTL DEF Spec

-----------------------------------------------------------------------------
(* The books.  That no payment is counted twice rests on a payment that is   *)
(* due not being among the paid ones, which PlaceInv has.                    *)
BooksInv ==
  /\ WalletBooks
  /\ \A w \in Wallets : /\ cumulative[w] = TotalGifts(gifts[w])
                        /\ IsFiniteSet(paid[w])

(* The gifts of all donors, after one more.                                  *)
LEMMA GiftAdded ==
  ASSUME NEW g \in [Donors -> Nat], NEW d \in Donors, NEW x \in Nat
  PROVE  /\ TotalGifts(g) \in Nat
         /\ TotalGifts([g EXCEPT ![d] = g[d] + x]) = TotalGifts(g) + x
<1> DEFINE h == [g EXCEPT ![d] = g[d] + x]
<1>1. IsFiniteSet(Donors)
  BY DonorVoiceAssumption
<1>2. TotalGifts(g) \in Nat
  BY <1>1, SumNat DEF TotalGifts
<1>3. /\ h[d] = g[d] + x /\ g[d] \in Nat
      /\ \A e \in Donors : e # d => h[e] = g[e]
      /\ \A e \in Donors : g[e] \in Int
  OBVIOUS
<1> HIDE DEF h
<1>4. TotalGifts(h) = TotalGifts(g) + (h[d] - g[d])
  BY <1>1, <1>3, SumChange DEF TotalGifts
<1>5. TotalGifts(h) = TotalGifts(g) + x
  BY <1>2, <1>3, <1>4
<1> QED
  BY <1>2, <1>5 DEF h

(* What is paid out, after one more payment.                                 *)
LEMMA PaymentAdded ==
  ASSUME NEW P \in SUBSET Transfer, IsFiniteSet(P), NEW t \in Transfer, t \notin P
  PROVE  /\ PaidOut(P) \in Nat
         /\ PaidOut(P \cup {t}) = PaidOut(P) + Value[t.order]
<1> DEFINE f == [u \in P |-> Value[u.order]]
           g == [u \in P \cup {t} |-> Value[u.order]]
<1>1. \A u \in Transfer : Value[u.order] \in Nat
  BY DonorVoiceAssumption DEF Transfer
<1>2. /\ \A u \in P : f[u] \in Nat /\ g[u] = f[u]
      /\ \A u \in P \cup {t} : g[u] \in Int
      /\ g[t] = Value[t.order]
  BY <1>1
<1>3. PaidOut(P) = SumFunctionOnSet(f, P) /\ PaidOut(P \cup {t}) = SumFunctionOnSet(g, P \cup {t})
  BY DEF PaidOut
<1> HIDE DEF f, g
<1>4. SumFunctionOnSet(g, P \cup {t}) = SumFunctionOnSet(g, P) + g[t]
  BY <1>2, SumAdd
<1>5. SumFunctionOnSet(g, P) = SumFunctionOnSet(f, P)
  BY <1>2, SumSame
<1>6. SumFunctionOnSet(f, P) \in Nat
  BY <1>2, SumNat
<1> QED
  BY <1>2, <1>3, <1>4, <1>5, <1>6

(* The books of a new wallet.                                                *)
LEMMA InitBooks == Init => BooksInv
<1> SUFFICES ASSUME Init, NEW w \in Wallets
             PROVE  /\ balance[w] + swept[w] + advance[w].withdrawn + PaidOut(paid[w])
                         = TotalGifts(gifts[w]) + advance[w].repaid
                    /\ cumulative[w] = TotalGifts(gifts[w])
                    /\ IsFiniteSet(paid[w])
  BY DEF BooksInv, WalletBooks
<1>1. /\ balance[w] = TotalGifts(gifts[w]) /\ cumulative[w] = TotalGifts(gifts[w])
      /\ swept[w] = 0 /\ advance[w].withdrawn = 0 /\ advance[w].repaid = 0 /\ paid[w] = {}
  BY DEF Init
<1>2. cumulative[w] \in Nat
  BY InitType DEF TypeInv, DonorVoiceTypeOK
<1>3. PaidOut(paid[w]) = 0
  BY <1>1, SumEmpty DEF PaidOut
<1> QED
  BY <1>1, <1>2, <1>3, FS_EmptySet

(* Every step keeps the books.                                               *)
LEMMA NextBooks == TypeInv /\ PlaceInv /\ BooksInv /\ [Next]_vars => BooksInv'
<1> SUFFICES ASSUME TypeInv, PlaceInv, BooksInv, [Next]_vars PROVE BooksInv'
  OBVIOUS
<1> USE DonorVoiceAssumption
<1>0. /\ balance \in [Wallets -> Nat] /\ cumulative \in [Wallets -> Nat]
      /\ swept \in [Wallets -> Nat] /\ gifts \in [Wallets -> [Donors -> Nat]]
      /\ advance \in [Wallets -> Loan] /\ paid \in [Wallets -> SUBSET Transfer]
      /\ at \in Wallets
      /\ \A w \in Wallets : /\ balance[w] \in Nat /\ swept[w] \in Nat
                            /\ cumulative[w] \in Nat
                            /\ advance[w].outstanding \in Nat
                            /\ advance[w].withdrawn \in Nat /\ advance[w].repaid \in Nat
  BY DEF TypeInv, DonorVoiceTypeOK, Loan
<1> DEFINE B(w) == /\ balance[w] + swept[w] + advance[w].withdrawn + PaidOut(paid[w])
                         = TotalGifts(gifts[w]) + advance[w].repaid
                   /\ cumulative[w] = TotalGifts(gifts[w])
                   /\ IsFiniteSet(paid[w])
           Same(w) == /\ balance'[w] = balance[w] /\ swept'[w] = swept[w]
                      /\ advance'[w] = advance[w] /\ paid'[w] = paid[w]
                      /\ gifts'[w] = gifts[w] /\ cumulative'[w] = cumulative[w]
<1>b. \A w \in Wallets : B(w)
  BY DEF BooksInv, WalletBooks
<1>k. ASSUME \A w \in Wallets : B(w)' PROVE BooksInv'
  BY <1>k DEF BooksInv, WalletBooks
<1>s. ASSUME NEW w \in Wallets, Same(w) PROVE B(w)'
  BY <1>s, <1>b
<1>p. \A w \in Wallets : PaidOut(paid[w]) \in Nat /\ TotalGifts(gifts[w]) \in Nat
  <2> SUFFICES ASSUME NEW w \in Wallets
               PROVE  PaidOut(paid[w]) \in Nat /\ TotalGifts(gifts[w]) \in Nat
    OBVIOUS
  <2> DEFINE f == [u \in paid[w] |-> Value[u.order]]
  <2>1. \A u \in paid[w] : f[u] \in Nat
    BY <1>0 DEF Transfer
  <2> HIDE DEF f
  <2>2. SumFunctionOnSet(f, paid[w]) \in Nat
    BY <1>b, <2>1, SumNat
  <2>3. TotalGifts(gifts[w]) \in Nat
    BY <1>b, <1>0
  <2> QED
    BY <2>2, <2>3 DEF f, PaidOut
<1> HIDE DEF B
<1>2. ASSUME UNCHANGED <<moneyVars, paid>> PROVE BooksInv'
  BY <1>2, <1>k, <1>s DEF moneyVars
<1>1. ASSUME NEW w \in Wallets, \A v \in Wallets : v # w => Same(v), B(w)' PROVE BooksInv'
  BY <1>1, <1>k, <1>s
<1>3. ASSUME NEW d \in Donors, NEW w \in Wallets, NEW x \in Amounts, Donate(d, w, x)
      PROVE  BooksInv'
  <2>1. /\ balance' = [balance EXCEPT ![w] = balance[w] + x]
        /\ cumulative' = [cumulative EXCEPT ![w] = cumulative[w] + x]
        /\ gifts' = [gifts EXCEPT ![w] = [gifts[w] EXCEPT ![d] = gifts[w][d] + x]]
        /\ UNCHANGED <<swept, advance, paid>> /\ x \in Nat
    BY <1>3 DEF Donate, pipeVars
  <2>2. /\ balance'[w] = balance[w] + x /\ cumulative'[w] = cumulative[w] + x
        /\ gifts'[w] = [gifts[w] EXCEPT ![d] = gifts[w][d] + x]
        /\ gifts[w] \in [Donors -> Nat]
        /\ \A v \in Wallets : v # w => Same(v)
    BY <1>0, <2>1
  <2>3. TotalGifts(gifts'[w]) = TotalGifts(gifts[w]) + x
    BY <2>1, <2>2, GiftAdded
  <2>0. /\ balance[w] + swept[w] + advance[w].withdrawn + PaidOut(paid[w])
              = TotalGifts(gifts[w]) + advance[w].repaid
        /\ cumulative[w] = TotalGifts(gifts[w]) /\ IsFiniteSet(paid[w])
        /\ balance[w] \in Nat /\ swept[w] \in Nat /\ cumulative[w] \in Nat
        /\ advance[w].withdrawn \in Nat /\ advance[w].repaid \in Nat
        /\ PaidOut(paid[w]) \in Nat /\ TotalGifts(gifts[w]) \in Nat
    BY <1>0, <1>b, <1>p DEF B
  <2>4. /\ balance'[w] + swept'[w] + advance'[w].withdrawn + PaidOut(paid'[w])
              = TotalGifts(gifts'[w]) + advance'[w].repaid
        /\ cumulative'[w] = TotalGifts(gifts'[w]) /\ IsFiniteSet(paid'[w])
    <3>1. /\ balance'[w] = balance[w] + x /\ swept'[w] = swept[w]
          /\ advance'[w] = advance[w] /\ PaidOut(paid'[w]) = PaidOut(paid[w])
          /\ cumulative'[w] = cumulative[w] + x /\ IsFiniteSet(paid'[w])
      BY <2>0, <2>1, <2>2
    <3>2. x \in Nat
      BY <2>1
    <3> HIDE DonorVoiceAssumption
    <3> QED
      BY <2>0, <2>3, <3>1, <3>2
  <2> QED
    BY <1>1, <2>2, <2>4 DEF B
<1>4. ASSUME NEW w \in Wallets, NEW x \in Amounts, Repay(w, x) PROVE BooksInv'
  <2> DEFINE logged == IF x > advance[w].outstanding THEN advance[w].outstanding ELSE x
  <2>1. /\ advance[w].outstanding > logged
        /\ advance' = [advance EXCEPT ![w].outstanding = advance[w].outstanding - logged,
                                      ![w].repaid = advance[w].repaid + logged]
        /\ balance' = [balance EXCEPT ![w] = balance[w] + x]
        /\ UNCHANGED <<swept, gifts, cumulative, paid>> /\ x \in Nat
    BY <1>4 DEF Repay, pipeVars
  <2>2. logged = x
    BY <1>0, <2>1
  <2> HIDE DEF logged
  <2>3. /\ advance'[w].repaid = advance[w].repaid + x
        /\ advance'[w].withdrawn = advance[w].withdrawn
        /\ balance'[w] = balance[w] + x
        /\ \A v \in Wallets : v # w => Same(v)
    BY <1>0, <2>1, <2>2 DEF Loan
  <2>5. /\ advance'[w].repaid = advance[w].repaid + x
        /\ advance'[w].withdrawn = advance[w].withdrawn
    BY <2>3
  <2>0. /\ balance[w] + swept[w] + advance[w].withdrawn + PaidOut(paid[w])
              = TotalGifts(gifts[w]) + advance[w].repaid
        /\ cumulative[w] = TotalGifts(gifts[w]) /\ IsFiniteSet(paid[w])
        /\ balance[w] \in Nat /\ swept[w] \in Nat /\ cumulative[w] \in Nat
        /\ advance[w].withdrawn \in Nat /\ advance[w].repaid \in Nat
        /\ PaidOut(paid[w]) \in Nat /\ TotalGifts(gifts[w]) \in Nat
    BY <1>0, <1>b, <1>p DEF B
  <2>4. /\ balance'[w] + swept'[w] + advance'[w].withdrawn + PaidOut(paid'[w])
              = TotalGifts(gifts'[w]) + advance'[w].repaid
        /\ cumulative'[w] = TotalGifts(gifts'[w]) /\ IsFiniteSet(paid'[w])
    <3>1. /\ balance'[w] = balance[w] + x /\ swept'[w] = swept[w]
          /\ PaidOut(paid'[w]) = PaidOut(paid[w]) /\ IsFiniteSet(paid'[w])
          /\ TotalGifts(gifts'[w]) = TotalGifts(gifts[w]) /\ cumulative'[w] = cumulative[w]
      BY <2>0, <2>1, <2>3
    <3>2. x \in Nat
      BY <2>1
    <3>3. (balance[w] + x) + swept[w] + advance[w].withdrawn + PaidOut(paid[w])
            = TotalGifts(gifts[w]) + (advance[w].repaid + x)
      <4> DEFINE b == balance[w]
                 s == swept[w]
                 l == advance[w].withdrawn
                 p == PaidOut(paid[w])
                 g == TotalGifts(gifts[w])
                 r == advance[w].repaid
      <4>1. /\ b \in Nat /\ s \in Nat /\ l \in Nat /\ p \in Nat /\ g \in Nat
            /\ r \in Nat /\ b + s + l + p = g + r
        BY <2>0
      <4> HIDE DEF b, s, l, p, g, r
      <4>2. (b + x) + s + l + p = g + (r + x)
        BY <3>2, <4>1
      <4> QED
        BY <4>2 DEF b, s, l, p, g, r
    <3> QED
      BY <2>0, <2>5, <3>1, <3>3, Zenon
  <2> QED
    BY <1>1, <2>3, <2>4 DEF B
<1>5. ASSUME NEW a \in Authorities, NEW w \in Wallets, NEW o \in Orders, AdvancePayment(a, w, o)
      PROVE  BooksInv'
  <2>1. /\ Value[o] < balance[w] /\ Value[o] \in Nat
        /\ balance' = [balance EXCEPT ![w] = balance[w] - Value[o]]
        /\ advance' = [advance EXCEPT ![w].outstanding = advance[w].outstanding + Value[o],
                                      ![w].withdrawn = advance[w].withdrawn + Value[o]]
        /\ UNCHANGED <<swept, gifts, cumulative, paid>>
    BY <1>5 DEF AdvancePayment, pipeVars
  <2>3. /\ advance'[w].repaid = advance[w].repaid
        /\ advance'[w].withdrawn = advance[w].withdrawn + Value[o]
        /\ balance'[w] = balance[w] - Value[o]
        /\ \A v \in Wallets : v # w => Same(v)
    BY <1>0, <2>1 DEF Loan
  <2>5. /\ advance'[w].repaid = advance[w].repaid
        /\ advance'[w].withdrawn = advance[w].withdrawn + Value[o]
    BY <2>3
  <2>0. /\ balance[w] + swept[w] + advance[w].withdrawn + PaidOut(paid[w])
              = TotalGifts(gifts[w]) + advance[w].repaid
        /\ cumulative[w] = TotalGifts(gifts[w]) /\ IsFiniteSet(paid[w])
        /\ balance[w] \in Nat /\ swept[w] \in Nat /\ cumulative[w] \in Nat
        /\ advance[w].withdrawn \in Nat /\ advance[w].repaid \in Nat
        /\ PaidOut(paid[w]) \in Nat /\ TotalGifts(gifts[w]) \in Nat
    BY <1>0, <1>b, <1>p DEF B
  <2>4. /\ balance'[w] + swept'[w] + advance'[w].withdrawn + PaidOut(paid'[w])
              = TotalGifts(gifts'[w]) + advance'[w].repaid
        /\ cumulative'[w] = TotalGifts(gifts'[w]) /\ IsFiniteSet(paid'[w])
    <3>1. /\ balance'[w] = balance[w] - Value[o] /\ swept'[w] = swept[w]
          /\ PaidOut(paid'[w]) = PaidOut(paid[w]) /\ IsFiniteSet(paid'[w])
          /\ TotalGifts(gifts'[w]) = TotalGifts(gifts[w]) /\ cumulative'[w] = cumulative[w]
      BY <2>0, <2>1, <2>3
    <3>2. Value[o] \in Nat
      BY <2>1
    <3> QED
      BY <2>0, <2>5, <3>1, <3>2
  <2> QED
    BY <1>1, <2>3, <2>4 DEF B
<1>6. CASE BeginBoundary
  <2>1. UNCHANGED <<gifts, cumulative, advance, paid>>
    BY <1>6 DEF BeginBoundary, pipeVars
  <2>2. \A w \in Wallets : \/ balance'[w] = 0 /\ swept'[w] = swept[w] + balance[w]
                           \/ balance'[w] = balance[w] /\ swept'[w] = swept[w]
    BY <1>0, <1>6 DEF BeginBoundary
  <2>3. ASSUME NEW w \in Wallets PROVE B(w)'
    BY <1>0, <1>b, <1>p, <2>1, <2>2 DEF B
  <2> QED
    BY <1>k, <2>3
<1>7. CASE PayDue
  <2>1. /\ UNCHANGED <<gifts, cumulative, swept, advance>>
        /\ balance' = [balance EXCEPT ![at] = balance[at] - Value[NextDue.order]]
        /\ paid' = [paid EXCEPT ![at] = paid[at] \cup {NextDue}]
        /\ due \in Seq(Transfer) /\ due # <<>>
    BY <1>7 DEF PayDue, TakeDue, TypeInv, DonorVoiceTypeOK
  <2>2. NextDue \in Transfer /\ Len(due) \in DOMAIN due
    BY <2>1, PopBack DEF NextDue
  <2>3. Value[NextDue.order] \in Nat /\ Value[NextDue.order] <= balance[at]
    BY <1>7, <2>2 DEF PayDue, Affordable, Transfer
  <2>4. NextDue \notin paid[at]
    <3>1. Apart(proposals[at], scheduled[at], due, vetoed[at], paid[at])
      BY <1>0 DEF PlaceInv, DueOf
    <3> QED
      BY <2>2, <3>1 DEF Apart, NextDue
  <2>5. /\ PaidOut(paid[at] \cup {NextDue}) = PaidOut(paid[at]) + Value[NextDue.order]
        /\ IsFiniteSet(paid[at] \cup {NextDue})
    BY <1>0, <1>b, <2>2, <2>4, PaymentAdded, FS_AddElement DEF B
  <2>6. /\ balance'[at] = balance[at] - Value[NextDue.order]
        /\ paid'[at] = paid[at] \cup {NextDue}
        /\ \A v \in Wallets : v # at => Same(v)
    BY <1>0, <2>1
  <2>0. /\ balance[at] + swept[at] + advance[at].withdrawn + PaidOut(paid[at])
              = TotalGifts(gifts[at]) + advance[at].repaid
        /\ cumulative[at] = TotalGifts(gifts[at]) /\ IsFiniteSet(paid[at])
        /\ balance[at] \in Nat /\ swept[at] \in Nat /\ cumulative[at] \in Nat
        /\ advance[at].withdrawn \in Nat /\ advance[at].repaid \in Nat
        /\ PaidOut(paid[at]) \in Nat /\ TotalGifts(gifts[at]) \in Nat
    BY <1>0, <1>b, <1>p DEF B
  <2>7. /\ balance'[at] + swept'[at] + advance'[at].withdrawn + PaidOut(paid'[at])
              = TotalGifts(gifts'[at]) + advance'[at].repaid
        /\ cumulative'[at] = TotalGifts(gifts'[at]) /\ IsFiniteSet(paid'[at])
    <3>1. /\ balance'[at] = balance[at] - Value[NextDue.order] /\ swept'[at] = swept[at]
          /\ PaidOut(paid'[at]) = PaidOut(paid[at]) + Value[NextDue.order]
          /\ IsFiniteSet(paid'[at]) /\ advance'[at] = advance[at]
          /\ TotalGifts(gifts'[at]) = TotalGifts(gifts[at]) /\ cumulative'[at] = cumulative[at]
      BY <2>1, <2>5, <2>6
    <3> QED
      BY <2>0, <2>3, <3>1
  <2>8. at' = at
    BY <1>7 DEF PayDue
  <2>9. ASSUME NEW w \in Wallets PROVE B(w)'
    <3>1. CASE w = at
      BY <2>7, <3>1 DEF B
    <3>2. CASE w # at
      BY <1>s, <2>6, <3>2
    <3> QED
      BY <3>1, <3>2
  <2> QED
    BY <1>k, <2>9
<1>8. CASE RequeueDue \/ EndBoundary \/ \E w \in Wallets : FilterDue(w)
  BY <1>2, <1>8 DEF RequeueDue, EndBoundary, FilterDue, pipeVars
<1>9. ASSUME NEW d \in Donors, NEW w \in Wallets, DonorTx(d, w) PROVE BooksInv'
  <2>1. CASE \E i \in DOMAIN scheduled[w] : OpenVeto(d, w, i) \/ PassVeto(d, w, i)
    BY <1>2, <2>1 DEF OpenVeto, PassVeto, pipeVars
  <2>2. CASE ProposeLiquidation(d, w) \/ ProposeReauth(d, w)
    BY <1>2, <2>2 DEF ProposeLiquidation, ProposeReauth, pipeVars
  <2>3. CASE VoteLiquidation(d, w) \/ VoteReauth(d, w)
    BY <1>2, <2>3 DEF VoteLiquidation, VoteReauth, pipeVars
  <2> QED
    BY <1>3, <1>9, <2>1, <2>2, <2>3 DEF DonorTx
<1>10. ASSUME NEW a \in Authorities, NEW w \in Wallets, NEW o \in Orders,
              ApprovePayment(a, w, o) \/ SchedulePayment(a, w, o)
       PROVE  BooksInv'
  BY <1>2, <1>10 DEF ApprovePayment, SchedulePayment, pipeVars
<1>11. CASE OtherTx
  <2>1. CASE \E p \in Payees : BecomeSlow(p)
    BY <1>2, <2>1 DEF BecomeSlow, pipeVars
  <2>2. CASE \E w \in Wallets : MandateExpires(w) \/ GoInactive(w) \/ CloseReauth(w)
    BY <1>2, <2>2 DEF MandateExpires, GoInactive, CloseReauth, pipeVars
  <2> QED
    BY <1>4, <1>11, <2>1, <2>2 DEF OtherTx
<1>12. CASE UNCHANGED vars
  BY <1>2, <1>12 DEF vars, pipeVars
<1> QED
  BY <1>5, <1>6, <1>7, <1>8, <1>9, <1>10, <1>11, <1>12 DEF Next, Boundary, AuthorityTx

(* The coins of every wallet are accounted for, for any number of donors and *)
(* payments: what was given and repaid is what is left, was swept, advanced  *)
(* or paid.                                                                  *)
THEOREM BooksBalance == Spec => []WalletBooks
<1>1. Init => TypeInv /\ PlaceInv /\ BooksInv
  BY InitType, InitPlace, InitBooks
<1>2. (TypeInv /\ PlaceInv /\ BooksInv) /\ [Next]_vars => (TypeInv /\ PlaceInv /\ BooksInv)'
  BY NextType, NextPlace, NextBooks
<1>3. TypeInv /\ PlaceInv /\ BooksInv => WalletBooks
  BY DEF BooksInv
<1> QED
  BY <1>1, <1>2, <1>3, PTL DEF Spec

-----------------------------------------------------------------------------
(* The ballots of the donors                                                 *)

(* What stands behind the votes of a ballot: gifts of its voters, within an  *)
(* enrollment that is not empty, and the minimum turnout when it is passed.  *)
Sound(w, b) ==
  /\ b.max > 0 /\ b.max <= cumulative[w] /\ b.approve <= b.max
  /\ b.approve <= SumFunctionOnSet(gifts[w], b.voters)
  /\ b.completed => PCT_SCALE * b.approve >= MinTurnout * b.max

(* Numbers tell the ballots of a wallet apart.                               *)
Numbered(B) ==
  /\ \A b \in B : b.uid < Cardinality(B)
  /\ \A b, c \in B : b.uid = c.uid => b = c

(* no_pending_proposal: a wallet has one pending ballot on its liquidation,  *)
(* and one on its mandate.                                                   *)
OnePending(B) ==
  \A b, c \in B : b.kind = c.kind /\ b.kind # "veto" /\ b.list = "pending"
                    /\ c.list = "pending" => b = c

BallotInv ==
  \A w \in Wallets : /\ Numbered(ballots[w]) /\ OnePending(ballots[w])
                     /\ \A b \in ballots[w] : Sound(w, b)

(* The two ways in which a step changes the ballots of a wallet.             *)
Opens(w, n) ==
  /\ n \in Ballot /\ n.uid = Cardinality(ballots[w]) /\ Sound(w, n)
  /\ n.list = "pending" /\ n.kind # "veto" =>
       \A b \in ballots[w] : b.kind = n.kind => b.list # "pending"
  /\ ballots' = [ballots EXCEPT ![w] = ballots[w] \cup {n}]
  /\ UNCHANGED <<gifts, cumulative>>

Replaces(w, b, v) ==
  /\ b \in ballots[w] /\ b.list = "pending" /\ b.kind # "veto"
  /\ b.completed => b.kind = "reauth"
  /\ v \in Ballot /\ v.uid = b.uid /\ v.kind = b.kind /\ Sound(w, v)
  /\ ballots' = [ballots EXCEPT ![w] = (ballots[w] \ {b}) \cup {v}]
  /\ UNCHANGED <<gifts, cumulative>>

(* A quotient that is at least m comes from m times the divisor at least.    *)
LEMMA QuotientAtLeast ==
  ASSUME NEW x \in Nat, NEW d \in Nat \ {0}, NEW m \in Nat, x \div d >= m
  PROVE  x >= m * d
<1> DEFINE q == x \div d
<1>1. q \in Nat /\ x = d * q + (x % d) /\ x % d \in Nat
  OBVIOUS
<1> HIDE DEF q
<1>2. q >= m
  BY DEF q
<1>3. d * q >= d * m
  BY <1>1, <1>2
<1>4. d * q \in Nat /\ d * m \in Nat /\ d * m = m * d
  BY <1>1
<1> QED
  BY <1>1, <1>3, <1>4

(* The cut of fixed_point32 only lowers a participation, so that a ballot    *)
(* that passes has its turnout.                                              *)
LEMMA PassedHasTurnout ==
  ASSUME NEW a \in Nat, NEW m \in Nat \ {0}, Passes(a, 0, m, MinTurnout)
  PROVE  PCT_SCALE * a >= MinTurnout * m
<1> DEFINE x == PCT_SCALE * a
           q == x \div m
<1>1. Participation(a, 0, m) >= MinTurnout
  BY DEF Passes
<1>2. x \in Nat /\ a + 0 = a /\ MinTurnout \in Nat
  BY DonorVoiceAssumption DEF PCT_SCALE
<1>3. q \in Nat
  BY <1>2
<1>4. Participation(a, 0, m) = q \/ Participation(a, 0, m) = q - 1
  BY <1>2 DEF Participation, FixedMul
<1>5. q >= MinTurnout
  <2> HIDE DEF q
  <2> QED
    BY <1>1, <1>2, <1>3, <1>4
<1> HIDE DEF x
<1>6. x >= MinTurnout * m
  BY <1>2, <1>5, QuotientAtLeast
<1> QED
  BY <1>6 DEF x

(* The gifts of the donors in a set, with one more donor.                    *)
LEMMA VoterAdded ==
  ASSUME NEW g \in [Donors -> Nat], NEW V \in SUBSET Donors, NEW d \in Donors, d \notin V
  PROVE  /\ SumFunctionOnSet(g, V) \in Nat
         /\ SumFunctionOnSet(g, V \cup {d}) = SumFunctionOnSet(g, V) + g[d]
<1>1. IsFiniteSet(V)
  BY DonorVoiceAssumption, FS_Subset
<1>2. (\A e \in V \cup {d} : g[e] \in Int) /\ \A e \in V : g[e] \in Nat
  OBVIOUS
<1> QED
  BY <1>1, <1>2, SumAdd, SumNat

(* A vote that is allowed keeps a ballot sound.                              *)
LEMMA VotedSound ==
  ASSUME TypeInv, NEW d \in Donors, NEW w \in Wallets, NEW b \in Ballot, Sound(w, b),
         d \notin b.voters, b.approve + gifts[w][d] <= b.max
  PROVE  Sound(w, Voted(d, w, b))
<1> DEFINE v == Voted(d, w, b)
           a == b.approve + gifts[w][d]
<1>1. gifts[w] \in [Donors -> Nat] /\ gifts[w][d] \in Nat
  BY DEF TypeInv, DonorVoiceTypeOK
<1>2. /\ b.approve \in Nat /\ b.max \in Nat /\ b.voters \in SUBSET Donors
      /\ b.max > 0 /\ b.max <= cumulative[w]
      /\ b.approve <= SumFunctionOnSet(gifts[w], b.voters)
  BY DEF Ballot, Sound
<1>3. /\ v.max = b.max /\ v.approve = a /\ v.voters = b.voters \cup {d}
      /\ v.completed = Passes(a, 0, b.max, MinTurnout)
  BY DEF Voted, Ballot
<1>4. a \in Nat /\ a <= SumFunctionOnSet(gifts[w], b.voters \cup {d})
  BY <1>1, <1>2, VoterAdded
<1>5. Passes(a, 0, b.max, MinTurnout) => PCT_SCALE * a >= MinTurnout * b.max
  BY <1>2, <1>4, PassedHasTurnout
<1> HIDE DEF v, a
<1>6. a <= b.max
  BY DEF a
<1> QED
  BY <1>2, <1>3, <1>4, <1>5, <1>6 DEF Sound, v

(* A new ballot is sound: who may open one has given something.              *)
LEMMA NewBallotSound ==
  ASSUME TypeInv, BooksInv, NEW d \in Donors, NEW w \in Wallets, IsVoter(d, w),
         NEW kind \in Kinds, NEW tx \in Nat, NEW days \in Nat
  PROVE  /\ Sound(w, NewBallot(w, kind, tx, days))
         /\ NewBallot(w, kind, tx, days).approve + gifts[w][d]
              <= NewBallot(w, kind, tx, days).max
<1> DEFINE b == NewBallot(w, kind, tx, days)
<1>1. /\ gifts[w] \in [Donors -> Nat] /\ gifts[w][d] \in Nat /\ gifts[w][d] > 0
      /\ cumulative[w] \in Nat
  BY DEF TypeInv, DonorVoiceTypeOK, IsVoter
<1>2. gifts[w][d] <= cumulative[w]
  <2>1. \A e \in Donors : gifts[w][e] \in Nat
    BY <1>1
  <2> QED
    BY <2>1, SumMember, DonorVoiceAssumption DEF BooksInv, TotalGifts
<1>3. /\ b.max = cumulative[w] /\ b.approve = 0 /\ b.voters = {} /\ b.completed = FALSE
  BY DEF NewBallot
<1>4. SumFunctionOnSet(gifts[w], {}) = 0
  BY SumEmpty
<1> HIDE DEF b
<1> QED
  BY <1>1, <1>2, <1>3, <1>4 DEF Sound, b

(* More gifts leave a ballot sound.                                          *)
LEMMA SoundKept ==
  ASSUME NEW w \in Wallets, NEW b \in Ballot, Sound(w, b),
         gifts[w] \in [Donors -> Nat], gifts'[w] \in [Donors -> Nat],
         cumulative[w] \in Nat, cumulative'[w] \in Nat, cumulative[w] <= cumulative'[w],
         \A d \in Donors : gifts[w][d] <= gifts'[w][d]
  PROVE  Sound(w, b)'
<1>1. b.voters \in SUBSET Donors /\ b.approve \in Nat /\ b.max \in Nat
  BY DEF Ballot
<1>2. IsFiniteSet(b.voters)
  BY <1>1, DonorVoiceAssumption, FS_Subset
<1>3. \A d \in b.voters : /\ gifts[w][d] \in Nat /\ gifts'[w][d] \in Nat
                          /\ gifts[w][d] <= gifts'[w][d]
  BY <1>1
<1>4. SumFunctionOnSet(gifts[w], b.voters) <= SumFunctionOnSet(gifts'[w], b.voters)
  BY <1>2, <1>3, SumAtMost
<1>5. /\ SumFunctionOnSet(gifts[w], b.voters) \in Nat
      /\ SumFunctionOnSet(gifts'[w], b.voters) \in Nat
  BY <1>2, <1>3, SumNat
<1> QED
  BY <1>1, <1>4, <1>5 DEF Sound

(* Opening a ballot.                                                         *)
LEMMA OpensKeeps ==
  ASSUME TypeInv, BallotInv, NEW w \in Wallets, NEW n, Opens(w, n)
  PROVE  BallotInv'
<1> DEFINE B == ballots[w]
<1>1. IsFiniteSet(B) /\ Cardinality(B) \in Nat /\ B \subseteq Ballot
  BY FS_CardinalityType DEF TypeInv, DonorVoiceTypeOK
<1>2. /\ Numbered(B) /\ OnePending(B) /\ \A b \in B : Sound(w, b)
  BY DEF BallotInv
<1>3. \A b \in B : b.uid < Cardinality(B) /\ b.uid \in Nat
  BY <1>1, <1>2 DEF Numbered, Ballot
<1>4. n.uid = Cardinality(B) /\ n \notin B
  BY <1>1, <1>3 DEF Opens
<1>5. Cardinality(B \cup {n}) = Cardinality(B) + 1
  BY <1>1, <1>4, FS_AddElement
<1> HIDE DEF B
<1>6. Numbered(B \cup {n})
  BY <1>1, <1>2, <1>3, <1>4, <1>5 DEF Numbered
<1>7. OnePending(B \cup {n})
  <2>1. n.list = "pending" /\ n.kind # "veto" => \A b \in B : b.kind = n.kind => b.list # "pending"
    BY DEF Opens, B
  <2> QED
    BY <1>2, <2>1 DEF OnePending
<1>8. ballots'[w] = B \cup {n} /\ \A v \in Wallets : v # w => ballots'[v] = ballots[v]
  BY DEF Opens, B, TypeInv, DonorVoiceTypeOK
<1>9. \A v \in Wallets : \A b : Sound(v, b)' <=> Sound(v, b)
  BY DEF Opens, Sound
<1>10. Sound(w, n)
  BY DEF Opens
<1> QED
  BY <1>2, <1>6, <1>7, <1>8, <1>9, <1>10 DEF BallotInv

(* Putting a ballot in the place of another.                                 *)
LEMMA ReplacesKeeps ==
  ASSUME TypeInv, BallotInv, NEW w \in Wallets, NEW b, NEW v, Replaces(w, b, v)
  PROVE  BallotInv'
<1> DEFINE B == ballots[w]
           R == B \ {b}
<1>1. IsFiniteSet(B) /\ Cardinality(B) \in Nat /\ B \subseteq Ballot /\ b \in B
  BY FS_CardinalityType DEF TypeInv, DonorVoiceTypeOK, Replaces
<1>2. /\ Numbered(B) /\ OnePending(B) /\ \A c \in B : Sound(w, c)
  BY DEF BallotInv
<1>3. v.uid = b.uid /\ v.kind = b.kind /\ b.list = "pending" /\ b.kind # "veto"
  BY DEF Replaces
<1>4. \A c \in R : c.uid # v.uid
  BY <1>1, <1>2, <1>3 DEF Numbered
<1>5. v \notin R
  BY <1>4
<1>6. IsFiniteSet(R) /\ Cardinality(R) = Cardinality(B) - 1
  BY <1>1, FS_RemoveElement
<1>7. Cardinality(R \cup {v}) = Cardinality(B)
  <2>1. Cardinality(R \cup {v}) = Cardinality(R) + 1
    BY <1>5, <1>6, FS_AddElement
  <2> QED
    BY <1>1, <1>6, <2>1
<1>8. Numbered(R \cup {v})
  BY <1>1, <1>2, <1>3, <1>4, <1>7 DEF Numbered
<1>9. OnePending(R \cup {v})
  BY <1>1, <1>2, <1>3 DEF OnePending
<1>10. ballots'[w] = R \cup {v} /\ \A u \in Wallets : u # w => ballots'[u] = ballots[u]
  BY DEF Replaces, TypeInv, DonorVoiceTypeOK
<1>11. \A u \in Wallets : \A c : Sound(u, c)' <=> Sound(u, c)
  BY DEF Replaces, Sound
<1>12. Sound(w, v)
  BY DEF Replaces
<1> HIDE DEF B, R
<1>13. R \subseteq B
  BY DEF R
<1> QED
  BY <1>2, <1>8, <1>9, <1>10, <1>11, <1>12, <1>13 DEF BallotInv, B

(* The operations that open a ballot.                                        *)
LEMMA VetoOpens ==
  ASSUME TypeInv, BooksInv, NEW d \in Donors, NEW w \in Wallets, NEW i \in DOMAIN scheduled[w],
         MayProposeVeto(d, w, i)
  PROVE  LET n == VetoBallot(d, w, i)
         IN /\ n \in Ballot /\ n.uid = Cardinality(ballots[w]) /\ Sound(w, n)
            /\ n.kind = "veto" /\ n.tx = scheduled[w][i].id /\ n.list = "pending"
<1> DEFINE tx == scheduled[w][i].id
           b == NewBallot(w, "veto", tx, VetoDays)
           n == VetoBallot(d, w, i)
<1>1. tx \in Nat
  <2>1. scheduled[w] \in Seq(Transfer)
    BY DEF TypeInv, DonorVoiceTypeOK
  <2>2. scheduled[w][i] \in Transfer
    BY <2>1, LenProperties
  <2> QED
    BY <2>2 DEF Transfer
<1>2. IsVoter(d, w) /\ "veto" \in Kinds /\ VetoDays \in Nat
  BY DonorVoiceAssumption DEF MayProposeVeto, Kinds
<1>3. b \in Ballot
  BY <1>1, <1>2, NewBallotType
<1>4. Sound(w, b) /\ b.approve + gifts[w][d] <= b.max
  BY <1>1, <1>2, NewBallotSound
<1>5. /\ b.uid = Cardinality(ballots[w]) /\ b.kind = "veto" /\ b.tx = tx
      /\ b.list = "pending" /\ b.voters = {}
  BY DEF NewBallot
<1>6. n = Voted(d, w, b)
  BY DEF VetoBallot
<1> HIDE DEF b, tx, n
<1>7. n \in Ballot
  BY <1>3, <1>6, VotedType
<1>8. Sound(w, n)
  BY <1>3, <1>4, <1>5, <1>6, VotedSound
<1>9. /\ n.uid = b.uid /\ n.kind = b.kind /\ n.tx = b.tx /\ n.list = b.list
  BY <1>3, <1>6 DEF Voted, Ballot
<1> QED
  BY <1>5, <1>7, <1>8, <1>9 DEF tx, n

(* A vote on a pending ballot.                                               *)
LEMMA VoteReplaces ==
  ASSUME TypeInv, BallotInv, NEW d \in Donors, NEW w \in Wallets, NEW b \in ballots[w],
         CanVote(d, w, b)
  PROVE  LET v == Voted(d, w, b)
         IN /\ b \in Ballot /\ v \in Ballot /\ Sound(w, v) /\ v # b
            /\ v.uid = b.uid /\ v.kind = b.kind /\ v.list = b.list
            /\ v.completed => Quorum(v)
<1> DEFINE v == Voted(d, w, b)
<1>1. b \in Ballot
  BY DEF TypeInv, DonorVoiceTypeOK
<1>2. v \in Ballot
  BY <1>1, VotedType
<1>3. Sound(w, b) /\ d \notin b.voters /\ b.approve + gifts[w][d] <= b.max
  BY DEF BallotInv, CanVote
<1>4. Sound(w, v)
  BY <1>1, <1>3, VotedSound
<1>5. /\ v.uid = b.uid /\ v.kind = b.kind /\ v.list = b.list /\ v.voters = b.voters \cup {d}
  BY <1>1 DEF Voted, Ballot
<1>6. v # b
  BY <1>3, <1>5
<1> HIDE DEF v
<1>7. v.completed => Quorum(v)
  BY <1>4 DEF Sound, Quorum
<1> QED
  BY <1>1, <1>2, <1>4, <1>5, <1>6, <1>7 DEF v

(* What a move to another list keeps.                                        *)
LEMMA MovedSound ==
  ASSUME NEW w \in Wallets, NEW b \in Ballot, Sound(w, b),
         NEW list \in {"pending", "approved", "rejected"}
  PROVE  LET v == [b EXCEPT !.list = list]
         IN /\ v \in Ballot /\ Sound(w, v) /\ v.list = list
            /\ v.uid = b.uid /\ v.kind = b.kind /\ v.tx = b.tx /\ v.voters = b.voters
            /\ v.completed = b.completed /\ v.approve = b.approve /\ v.max = b.max
<1> DEFINE v == [b EXCEPT !.list = list]
<1>1. /\ v \in Ballot /\ v.list = list
      /\ v.uid = b.uid /\ v.kind = b.kind /\ v.tx = b.tx /\ v.voters = b.voters
      /\ v.completed = b.completed /\ v.approve = b.approve /\ v.max = b.max
  BY DEF Ballot
<1> HIDE DEF v
<1>2. Sound(w, v)
  BY <1>1 DEF Sound
<1> QED
  BY <1>1, <1>2 DEF v

(* Every step opens a ballot, replaces one, or leaves them as they are while *)
(* the gifts do not shrink.                                                  *)
LEMMA BallotStep ==
  ASSUME TypeInv, BooksInv, BallotInv, [Next]_vars
  PROVE  \/ \E w \in Wallets : \E n : Opens(w, n)
         \/ \E w \in Wallets : \E b, v : Replaces(w, b, v)
         \/ /\ ballots' = ballots
            /\ \A w \in Wallets : /\ cumulative[w] <= cumulative'[w]
                                  /\ \A d \in Donors : gifts[w][d] <= gifts'[w][d]
<1> USE DonorVoiceAssumption
<1>0. /\ cumulative \in [Wallets -> Nat] /\ gifts \in [Wallets -> [Donors -> Nat]]
      /\ ballots \in [Wallets -> SUBSET Ballot]
      /\ \A w \in Wallets : cumulative[w] \in Nat /\ \A d \in Donors : gifts[w][d] \in Nat
  BY DEF TypeInv, DonorVoiceTypeOK
<1> DEFINE Still == /\ ballots' = ballots
                    /\ \A w \in Wallets : /\ cumulative[w] <= cumulative'[w]
                                          /\ \A d \in Donors : gifts[w][d] <= gifts'[w][d]
           Opened == \E w \in Wallets : \E n : Opens(w, n)
           Replaced == \E w \in Wallets : \E b, v : Replaces(w, b, v)
<1>u. ASSUME UNCHANGED <<ballots, gifts, cumulative>> PROVE Still
  BY <1>0, <1>u
<1>1. ASSUME NEW d \in Donors, NEW w \in Wallets, NEW x \in Amounts, Donate(d, w, x)
      PROVE  Still
  <2>1. /\ ballots' = ballots /\ cumulative' = [cumulative EXCEPT ![w] = cumulative[w] + x]
        /\ gifts' = [gifts EXCEPT ![w] = [gifts[w] EXCEPT ![d] = gifts[w][d] + x]] /\ x \in Nat
    BY <1>1 DEF Donate
  <2>2. ASSUME NEW v \in Wallets
        PROVE  cumulative[v] <= cumulative'[v] /\ \A e \in Donors : gifts[v][e] <= gifts'[v][e]
    <3>1. CASE v = w
      BY <1>0, <2>1, <3>1
    <3>2. CASE v # w
      BY <1>0, <2>1, <3>2
    <3> QED
      BY <3>1, <3>2
  <2> QED
    BY <2>1, <2>2
<1>2. ASSUME NEW d \in Donors, NEW w \in Wallets, NEW i \in DOMAIN scheduled[w], OpenVeto(d, w, i)
      PROVE  Opened
  <2> DEFINE n == VetoBallot(d, w, i)
  <2>1. MayProposeVeto(d, w, i) /\ ballots' = [ballots EXCEPT ![w] = ballots[w] \cup {n}]
        /\ UNCHANGED <<gifts, cumulative>>
    BY <1>2 DEF OpenVeto, moneyVars
  <2>2. /\ n \in Ballot /\ n.uid = Cardinality(ballots[w]) /\ Sound(w, n) /\ n.kind = "veto"
    BY <2>1, VetoOpens
  <2> HIDE DEF n
  <2>3. Opens(w, n)
    BY <2>1, <2>2 DEF Opens
  <2> QED
    BY <2>3
<1>3. ASSUME NEW d \in Donors, NEW w \in Wallets, NEW i \in DOMAIN scheduled[w], PassVeto(d, w, i)
      PROVE  Opened
  <2> DEFINE m == VetoBallot(d, w, i)
             n == [m EXCEPT !.list = "approved"]
  <2>1. MayProposeVeto(d, w, i) /\ ballots' = [ballots EXCEPT ![w] = ballots[w] \cup {n}]
        /\ UNCHANGED <<gifts, cumulative>>
    BY <1>3 DEF PassVeto, moneyVars
  <2>2. /\ m \in Ballot /\ m.uid = Cardinality(ballots[w]) /\ Sound(w, m) /\ m.kind = "veto"
    BY <2>1, VetoOpens
  <2> HIDE DEF m
  <2>3. /\ n \in Ballot /\ n.uid = Cardinality(ballots[w]) /\ Sound(w, n) /\ n.kind = "veto"
    BY <2>2, MovedSound
  <2> HIDE DEF n
  <2>4. Opens(w, n)
    BY <2>1, <2>3 DEF Opens
  <2> QED
    BY <2>4
<1>4. ASSUME NEW d \in Donors, NEW w \in Wallets, NEW kind \in Kinds, NEW days \in Nat,
             IsVoter(d, w), kind # "veto", PendingBallots(w, kind) = {},
             ballots' = [ballots EXCEPT ![w] = ballots[w] \cup {NewBallot(w, kind, 0, days)}],
             UNCHANGED <<gifts, cumulative>>
      PROVE  Opened
  <2> DEFINE n == NewBallot(w, kind, 0, days)
  <2>1. n \in Ballot /\ Sound(w, n)
    BY <1>4, NewBallotType, NewBallotSound
  <2>2. n.uid = Cardinality(ballots[w]) /\ n.kind = kind /\ n.list = "pending"
    BY DEF NewBallot
  <2>3. \A b \in ballots[w] : b.kind = kind => b.list # "pending"
    BY <1>4 DEF PendingBallots
  <2> HIDE DEF n
  <2>4. Opens(w, n)
    BY <1>4, <2>1, <2>2, <2>3 DEF Opens, n
  <2> QED
    BY <2>4
<1>5. ASSUME NEW d \in Donors, NEW w \in Wallets, ProposeLiquidation(d, w) PROVE Opened
  BY <1>4, <1>5 DEF ProposeLiquidation, Kinds, moneyVars
<1>6. ASSUME NEW d \in Donors, NEW w \in Wallets, ProposeReauth(d, w) PROVE Opened
  BY <1>4, <1>6 DEF ProposeReauth, Kinds, moneyVars
<1>7. ASSUME NEW d \in Donors, NEW w \in Wallets, VoteLiquidation(d, w) PROVE Replaced
  <2>1. PICK b \in PendingBallots(w, "liquidate") :
          /\ CanVote(d, w, b)
          /\ ballots' = [ballots EXCEPT ![w] = (ballots[w] \ {b}) \cup {Voted(d, w, b)}]
    BY <1>7 DEF VoteLiquidation
  <2> DEFINE v == Voted(d, w, b)
  <2>2. b \in ballots[w] /\ b.list = "pending" /\ b.kind = "liquidate" /\ ~ b.completed
    BY <2>1 DEF PendingBallots, CanVote
  <2>3. v \in Ballot /\ v.uid = b.uid /\ v.kind = b.kind /\ Sound(w, v)
    BY <2>1, <2>2, VoteReplaces
  <2>4. UNCHANGED <<gifts, cumulative>>
    BY <1>7 DEF VoteLiquidation, moneyVars
  <2>5. Replaces(w, b, v)
    BY <2>1, <2>2, <2>3, <2>4 DEF Replaces
  <2> QED
    BY <2>5
<1>8. ASSUME NEW d \in Donors, NEW w \in Wallets, VoteReauth(d, w) PROVE Replaced
  <2>1. PICK b \in PendingBallots(w, "reauth") :
          /\ CanVote(d, w, b)
          /\ ballots' = [ballots EXCEPT ![w] = (ballots[w] \ {b}) \cup
               {IF Voted(d, w, b).completed THEN [Voted(d, w, b) EXCEPT !.list = "approved"]
                ELSE Voted(d, w, b)}]
    BY <1>8 DEF VoteReauth
  <2> DEFINE m == Voted(d, w, b)
             v == IF m.completed THEN [m EXCEPT !.list = "approved"] ELSE m
  <2>2. b \in ballots[w] /\ b.list = "pending" /\ b.kind = "reauth"
    BY <2>1 DEF PendingBallots
  <2>3. m \in Ballot /\ m.uid = b.uid /\ m.kind = b.kind /\ Sound(w, m)
    BY <2>1, <2>2, VoteReplaces
  <2>4. UNCHANGED <<gifts, cumulative>>
    BY <1>8 DEF VoteReauth, moneyVars
  <2>5. ballots' = [ballots EXCEPT ![w] = (ballots[w] \ {b}) \cup {v}]
    BY <2>1
  <2> HIDE DEF m
  <2>6. v \in Ballot /\ v.uid = b.uid /\ v.kind = b.kind /\ Sound(w, v)
    BY <2>3, MovedSound
  <2> HIDE DEF v
  <2>7. Replaces(w, b, v)
    BY <2>2, <2>4, <2>5, <2>6 DEF Replaces
  <2> QED
    BY <2>7
<1>9. ASSUME NEW w \in Wallets, CloseReauth(w) PROVE Replaced
  <2> DEFINE expired == {c \in PendingBallots(w, "reauth") : epoch > c.deadline}
  <2>1. /\ expired # {}
        /\ ballots' = [ballots EXCEPT ![w] =
             (ballots[w] \ expired) \cup {[c EXCEPT !.list = "rejected"] : c \in expired}]
        /\ UNCHANGED <<gifts, cumulative>>
    BY <1>9 DEF CloseReauth, moneyVars
  <2>2. PICK b : b \in expired
    BY <2>1
  <2>3. b \in ballots[w] /\ b.list = "pending" /\ b.kind = "reauth"
    BY <2>2 DEF PendingBallots
  <2>4. \A c \in expired : c = b
    BY <2>2, <2>3 DEF PendingBallots, BallotInv, OnePending
  <2>5. expired = {b}
    BY <2>2, <2>4
  <2> DEFINE v == [b EXCEPT !.list = "rejected"]
  <2> HIDE DEF expired
  <2>6. ballots' = [ballots EXCEPT ![w] = (ballots[w] \ {b}) \cup {v}]
    <3>1. {[c EXCEPT !.list = "rejected"] : c \in expired} = {v}
      BY <2>5
    <3> QED
      BY <2>1, <2>5, <3>1
  <2>7. b \in Ballot /\ Sound(w, b)
    BY <1>0, <2>3 DEF BallotInv
  <2>8. v \in Ballot /\ v.uid = b.uid /\ v.kind = b.kind /\ Sound(w, v)
    BY <2>7, MovedSound
  <2> HIDE DEF v
  <2>9. Replaces(w, b, v)
    BY <2>1, <2>3, <2>6, <2>8 DEF Replaces
  <2> QED
    BY <2>9
<1>10. ASSUME NEW a \in Authorities, NEW w \in Wallets, NEW o \in Orders, AuthorityTx(a, w, o)
       PROVE  Still
  BY <1>10, <1>u DEF AuthorityTx, ApprovePayment, SchedulePayment, AdvancePayment, moneyVars
<1>11. CASE Boundary \/ UNCHANGED vars
  BY <1>11, <1>u DEF Boundary, BeginBoundary, FilterDue, PayDue, RequeueDue, EndBoundary,
     moneyVars, vars
<1>12. ASSUME NEW w \in Wallets,
              MandateExpires(w) \/ GoInactive(w) \/ \E x \in Amounts : Repay(w, x)
       PROVE  Still
  BY <1>12, <1>u DEF MandateExpires, GoInactive, Repay, moneyVars
<1>13. CASE \E p \in Payees : BecomeSlow(p)
  BY <1>13, <1>u DEF BecomeSlow, moneyVars
<1> QED
  BY <1>1, <1>2, <1>3, <1>5, <1>6, <1>7, <1>8, <1>9, <1>10, <1>11, <1>12, <1>13
  DEF Next, DonorTx, OtherTx

(* Every step keeps the ballots sound.                                       *)
LEMMA NextBallots ==
  TypeInv /\ BooksInv /\ BallotInv /\ [Next]_vars => BallotInv'
<1> SUFFICES ASSUME TypeInv, BooksInv, BallotInv, [Next]_vars PROVE BallotInv'
  OBVIOUS
<1>1. CASE \E w \in Wallets : \E n : Opens(w, n)
  BY <1>1, OpensKeeps
<1>2. CASE \E w \in Wallets : \E b, v : Replaces(w, b, v)
  BY <1>2, ReplacesKeeps
<1>3. ASSUME ballots' = ballots,
             \A w \in Wallets : /\ cumulative[w] <= cumulative'[w]
                                /\ \A d \in Donors : gifts[w][d] <= gifts'[w][d]
      PROVE  BallotInv'
  <2>1. TypeInv'
    BY NextType
  <2>2. ASSUME NEW w \in Wallets, NEW b \in ballots[w] PROVE Sound(w, b)'
    <3>1. /\ b \in Ballot /\ gifts[w] \in [Donors -> Nat] /\ cumulative[w] \in Nat
          /\ gifts'[w] \in [Donors -> Nat] /\ cumulative'[w] \in Nat
      BY <2>1 DEF TypeInv, DonorVoiceTypeOK
    <3>2. Sound(w, b)
      BY DEF BallotInv
    <3> QED
      BY <1>3, <3>1, <3>2, SoundKept
  <2> QED
    BY <1>3, <2>2 DEF BallotInv
<1> QED
  BY <1>1, <1>2, <1>3, BallotStep

(* A ballot that has decided something is not touched again: a vote needs    *)
(* one that is not completed, and only the ballots on the mandate are moved. *)
LEMMA DecidedStays ==
  ASSUME TypeInv, BooksInv, BallotInv, [Next]_vars, NEW w \in Wallets, NEW b \in ballots[w],
         b.completed, b.kind # "reauth"
  PROVE  b \in ballots'[w]
<1>0. ballots \in [Wallets -> SUBSET Ballot]
  BY DEF TypeInv, DonorVoiceTypeOK
<1>1. CASE \E u \in Wallets : \E n : Opens(u, n)
  BY <1>0, <1>1 DEF Opens
<1>2. CASE \E u \in Wallets : \E c, v : Replaces(u, c, v)
  BY <1>0, <1>2 DEF Replaces
<1>3. CASE ballots' = ballots
  BY <1>3
<1> QED
  BY <1>1, <1>2, <1>3, BallotStep

BallotsInv == TypeInv /\ PlaceInv /\ BooksInv /\ BallotInv

(* The invariants that the outcomes of ballots rest on.                      *)
LEMMA BallotsInvariant == Spec => []BallotsInv
<1>1. Init => BallotsInv
  <2>1. Init => BallotInv
    BY DEF Init, BallotInv, Numbered, OnePending
  <2> QED
    BY <2>1, InitType, InitPlace, InitBooks DEF BallotsInv
<1>2. BallotsInv /\ [Next]_vars => BallotsInv'
  BY NextType, NextPlace, NextBooks, NextBallots DEF BallotsInv
<1> QED
  BY <1>1, <1>2, PTL DEF Spec

(* No ballot ever counts more than its voters have given, nor more than was  *)
(* enrolled, for any number of donors and votes and whatever is given while  *)
(* the ballot is open.                                                       *)
THEOREM VotesAreGifts == Spec => []BallotsBacked
<1>1. BallotsInv => BallotsBacked
  BY DEF BallotsInv, BallotInv, Sound, BallotsBacked
<1> QED
  BY <1>1, BallotsInvariant, PTL

-----------------------------------------------------------------------------
(* The outcomes of ballots                                                   *)

Queued == {queue[i] : i \in DOMAIN queue}

OutcomeInv ==
  /\ \A i, j \in DOMAIN queue : queue[i] = queue[j] => i = j
  /\ \A w \in Wallets :
       /\ \A t \in vetoed[w] :
            \E b \in ballots[w] : b.kind = "veto" /\ b.tx = t.id /\ Quorum(b)
       /\ w \in Queued =>
            \E b \in ballots[w] : b.kind = "liquidate" /\ b.list = "pending" /\ Quorum(b)
       /\ IsFiniteSet(vetoed[w]) /\ rejections[w] <= Cardinality(vetoed[w])
       /\ frozen[w] => Cardinality(vetoed[w]) >= 3 \/ w \in Queued

(* What a step does that decides nothing keeps the outcomes.                 *)
LEMMA OutcomesStay ==
  ASSUME BallotsInv, OutcomeInv, [Next]_vars, UNCHANGED <<vetoed, queue, frozen>>,
         \A w \in Wallets : rejections'[w] = rejections[w] \/ rejections'[w] = 0
  PROVE  OutcomeInv'
<1>1. TypeInv /\ BooksInv /\ BallotInv
  BY DEF BallotsInv
<1>2. Queued' = Queued
  BY DEF Queued
<1>3. ASSUME NEW w \in Wallets
      PROVE  /\ \A t \in vetoed[w] :
                  \E b \in ballots'[w] : b.kind = "veto" /\ b.tx = t.id /\ Quorum(b)
             /\ w \in Queued =>
                  \E b \in ballots'[w] : b.kind = "liquidate" /\ b.list = "pending" /\ Quorum(b)
             /\ rejections'[w] <= Cardinality(vetoed[w])
  <2>1. ASSUME NEW t \in vetoed[w]
        PROVE  \E b \in ballots'[w] : b.kind = "veto" /\ b.tx = t.id /\ Quorum(b)
    <3>1. PICK b \in ballots[w] : b.kind = "veto" /\ b.tx = t.id /\ Quorum(b)
      BY DEF OutcomeInv
    <3>2. b \in ballots'[w]
      BY <1>1, <3>1, DecidedStays DEF Quorum
    <3> QED
      BY <3>1, <3>2
  <2>2. ASSUME w \in Queued
        PROVE  \E b \in ballots'[w] : b.kind = "liquidate" /\ b.list = "pending" /\ Quorum(b)
    <3>1. PICK b \in ballots[w] : b.kind = "liquidate" /\ b.list = "pending" /\ Quorum(b)
      BY <2>2 DEF OutcomeInv
    <3>2. b \in ballots'[w]
      BY <1>1, <3>1, DecidedStays DEF Quorum
    <3> QED
      BY <3>1, <3>2
  <2>3. Cardinality(vetoed[w]) \in Nat
    BY FS_CardinalityType DEF OutcomeInv
  <2>4. rejections'[w] <= Cardinality(vetoed[w])
    BY <2>3 DEF OutcomeInv
  <2> QED
    BY <2>1, <2>2, <2>4
<1> QED
  BY <1>2, <1>3 DEF OutcomeInv

(* A veto that passes: one more vetoed payment, with its ballot.             *)
LEMMA VetoOutcome ==
  ASSUME BallotsInv, OutcomeInv, NEW d \in Donors, NEW w \in Wallets,
         NEW i \in DOMAIN scheduled[w], PassVeto(d, w, i)
  PROVE  OutcomeInv'
<1> DEFINE m == VetoBallot(d, w, i)
           n == [m EXCEPT !.list = "approved"]
           t == scheduled[w][i]
<1>0. /\ TypeInv /\ BooksInv /\ BallotInv
      /\ ballots \in [Wallets -> SUBSET Ballot] /\ vetoed \in [Wallets -> SUBSET Transfer]
      /\ rejections \in [Wallets -> Nat] /\ frozen \in [Wallets -> BOOLEAN]
  BY DEF BallotsInv, TypeInv, DonorVoiceTypeOK
<1>1. /\ MayProposeVeto(d, w, i) /\ m.completed
      /\ ballots' = [ballots EXCEPT ![w] = ballots[w] \cup {n}]
      /\ vetoed' = [vetoed EXCEPT ![w] = vetoed[w] \cup {t}]
      /\ rejections' = [rejections EXCEPT ![w] = rejections[w] + 1]
      /\ frozen' = IF rejections'[w] > 2 THEN [frozen EXCEPT ![w] = TRUE] ELSE frozen
      /\ queue' = queue
  <2>1. /\ MayProposeVeto(d, w, i) /\ m.completed
        /\ ballots' = [ballots EXCEPT ![w] = ballots[w] \cup {n}] /\ queue' = queue
    BY Zenon DEF PassVeto
  <2>2. /\ vetoed' = [vetoed EXCEPT ![w] = vetoed[w] \cup {t}]
        /\ rejections' = [rejections EXCEPT ![w] = rejections[w] + 1]
        /\ frozen' = IF rejections'[w] > 2 THEN [frozen EXCEPT ![w] = TRUE] ELSE frozen
    <3>1. Reject(w, i) /\ MaybeFreeze(w)
      BY DEF PassVeto
    <3> QED
      BY <3>1 DEF Reject, MaybeFreeze
  <2> QED
    BY <2>1, <2>2, Zenon
<1>2. /\ m \in Ballot /\ Sound(w, m) /\ m.kind = "veto" /\ m.tx = t.id
  BY <1>0, <1>1, VetoOpens
<1> HIDE DEF m
<1>3. /\ n.kind = "veto" /\ n.tx = t.id /\ n.completed /\ Sound(w, n)
  <2>1. n.kind = m.kind /\ n.tx = m.tx /\ n.completed = m.completed /\ Sound(w, n)
    BY <1>2, MovedSound
  <2> QED
    BY <1>1, <1>2, <2>1, Zenon
<1> HIDE DEF n
<1>4. Quorum(n)
  BY <1>3 DEF Sound, Quorum
<1>5. t \notin vetoed[w]
  <2>1. Apart(proposals[w], scheduled[w], DueOf(w), vetoed[w], paid[w])
    BY DEF BallotsInv, PlaceInv
  <2> QED
    BY <2>1 DEF Apart
<1> HIDE DEF t
<1>6. /\ IsFiniteSet(vetoed[w]) /\ Cardinality(vetoed[w]) \in Nat
      /\ rejections[w] <= Cardinality(vetoed[w]) /\ rejections[w] \in Nat
  BY <1>0, FS_CardinalityType DEF OutcomeInv
<1>7. /\ IsFiniteSet(vetoed[w] \cup {t})
      /\ Cardinality(vetoed[w] \cup {t}) = Cardinality(vetoed[w]) + 1
  BY <1>5, <1>6, FS_AddElement
<1>8. /\ ballots'[w] = ballots[w] \cup {n} /\ vetoed'[w] = vetoed[w] \cup {t}
      /\ rejections'[w] = rejections[w] + 1
      /\ frozen'[w] => frozen[w] \/ rejections[w] + 1 > 2
      /\ \A u \in Wallets : u # w => /\ ballots'[u] = ballots[u] /\ vetoed'[u] = vetoed[u]
                                     /\ rejections'[u] = rejections[u]
                                     /\ frozen'[u] = frozen[u]
  BY <1>0, <1>1
<1>9. Queued' = Queued
  BY <1>1 DEF Queued
<1> DEFINE O(u) == /\ \A x \in vetoed[u] :
                        \E b \in ballots[u] : b.kind = "veto" /\ b.tx = x.id /\ Quorum(b)
                   /\ u \in Queued =>
                        \E b \in ballots[u] : b.kind = "liquidate" /\ b.list = "pending" /\ Quorum(b)
                   /\ IsFiniteSet(vetoed[u]) /\ rejections[u] <= Cardinality(vetoed[u])
                   /\ frozen[u] => Cardinality(vetoed[u]) >= 3 \/ u \in Queued
<1>10. \A u \in Wallets : O(u)
  BY DEF OutcomeInv
<1>11. ASSUME NEW u \in Wallets PROVE O(u)'
  <2>1. CASE u # w
    BY <1>8, <1>9, <1>10, <2>1
  <2>2. CASE u = w
    <3>1. \A x \in vetoed'[w] :
            \E b \in ballots'[w] : b.kind = "veto" /\ b.tx = x.id /\ Quorum(b)
      BY <1>3, <1>4, <1>8, <1>10
    <3>2. w \in Queued =>
            \E b \in ballots'[w] : b.kind = "liquidate" /\ b.list = "pending" /\ Quorum(b)
      BY <1>8, <1>10
    <3>3. IsFiniteSet(vetoed'[w]) /\ rejections'[w] <= Cardinality(vetoed'[w])
      BY <1>6, <1>7, <1>8
    <3>4. frozen'[w] => Cardinality(vetoed'[w]) >= 3 \/ w \in Queued
      BY <1>6, <1>7, <1>8, <1>10
    <3> QED
      BY <1>9, <2>2, <3>1, <3>2, <3>3, <3>4
  <2> QED
    BY <2>1, <2>2
<1> HIDE DEF O
<1>12. \A j, k \in DOMAIN queue' : queue'[j] = queue'[k] => j = k
  BY <1>1 DEF OutcomeInv
<1> QED
  BY <1>11, <1>12 DEF OutcomeInv, O

(* A vote on the liquidation: the wallet is queued when it decides, and it   *)
(* was not queued before, for the ballot that decided then is still pending. *)
LEMMA LiquidationOutcome ==
  ASSUME BallotsInv, OutcomeInv, [Next]_vars, NEW d \in Donors, NEW w \in Wallets,
         VoteLiquidation(d, w)
  PROVE  OutcomeInv'
<1>0. /\ TypeInv /\ BooksInv /\ BallotInv /\ queue \in Seq(Wallets)
      /\ ballots \in [Wallets -> SUBSET Ballot] /\ frozen \in [Wallets -> BOOLEAN]
  BY DEF BallotsInv, TypeInv, DonorVoiceTypeOK
<1>1. PICK b \in PendingBallots(w, "liquidate") :
        /\ CanVote(d, w, b)
        /\ ballots' = [ballots EXCEPT ![w] = (ballots[w] \ {b}) \cup {Voted(d, w, b)}]
        /\ frozen' = [frozen EXCEPT ![w] = frozen[w] \/ Voted(d, w, b).completed]
        /\ queue' = IF Voted(d, w, b).completed THEN Append(queue, w) ELSE queue
  BY Zenon DEF VoteLiquidation
<1> DEFINE v == Voted(d, w, b)
<1>2. b \in ballots[w] /\ b.list = "pending" /\ b.kind = "liquidate" /\ ~ b.completed
  BY <1>1 DEF PendingBallots, CanVote
<1>3. v.list = "pending" /\ v.kind = "liquidate" /\ v.completed \in BOOLEAN
      /\ (v.completed => Quorum(v))
  BY <1>0, <1>1, <1>2, VoteReplaces DEF Ballot
<1>4. UNCHANGED <<vetoed, rejections>>
  BY DEF VoteLiquidation
<1>5. ballots'[w] = (ballots[w] \ {b}) \cup {v}
  BY <1>0, <1>1
<1>8. frozen' = [frozen EXCEPT ![w] = frozen[w] \/ v.completed]
      /\ queue' = IF v.completed THEN Append(queue, w) ELSE queue
  BY <1>1, Zenon
<1> HIDE DEF v
<1>6. CASE ~ v.completed
  <2>1. frozen' = frozen /\ queue' = queue
    BY <1>0, <1>3, <1>6, <1>8
  <2> QED
    BY <1>4, <2>1, OutcomesStay
<1>7. CASE v.completed
  <2>1. w \notin Queued
    <3>1. ASSUME w \in Queued PROVE FALSE
      <4>1. PICK c \in ballots[w] : c.kind = "liquidate" /\ c.list = "pending" /\ Quorum(c)
        BY <3>1 DEF OutcomeInv
      <4>2. c = b
        BY <1>0, <1>2, <4>1 DEF BallotInv, OnePending
      <4> QED
        BY <1>2, <4>1, <4>2 DEF Quorum
    <3> QED
      BY <3>1
  <2>2. queue' = Append(queue, w) /\ frozen' = [frozen EXCEPT ![w] = TRUE]
    BY <1>0, <1>7, <1>8
  <2>3. /\ DOMAIN queue' = 1..(Len(queue) + 1) /\ DOMAIN queue = 1..Len(queue) /\ Len(queue) \in Nat
        /\ \A j \in 1..(Len(queue) + 1) :
             queue'[j] = IF j = Len(queue) + 1 THEN w ELSE queue[j]
    BY <1>0, <2>2, PutBack
  <2>4. Queued' = Queued \cup {w}
    BY <2>3 DEF Queued
  <2>5. \A j, k \in DOMAIN queue' : queue'[j] = queue'[k] => j = k
    <3>1. \A j \in DOMAIN queue : queue[j] # w
      BY <2>1 DEF Queued
    <3> QED
      BY <2>3, <3>1 DEF OutcomeInv
  <2>6. ASSUME NEW u \in Wallets
        PROVE  /\ \A t \in vetoed'[u] :
                    \E c \in ballots'[u] : c.kind = "veto" /\ c.tx = t.id /\ Quorum(c)
               /\ u \in Queued' =>
                    \E c \in ballots'[u] : c.kind = "liquidate" /\ c.list = "pending" /\ Quorum(c)
               /\ IsFiniteSet(vetoed'[u]) /\ rejections'[u] <= Cardinality(vetoed'[u])
               /\ frozen'[u] => Cardinality(vetoed'[u]) >= 3 \/ u \in Queued'
    <3>1. ASSUME NEW t \in vetoed[u]
          PROVE  \E c \in ballots'[u] : c.kind = "veto" /\ c.tx = t.id /\ Quorum(c)
      <4>1. PICK c \in ballots[u] : c.kind = "veto" /\ c.tx = t.id /\ Quorum(c)
        BY DEF OutcomeInv
      <4>2. c \in ballots'[u]
        BY <1>0, <4>1, DecidedStays DEF Quorum
      <4> QED
        BY <4>1, <4>2
    <3>2. ASSUME u \in Queued'
          PROVE  \E c \in ballots'[u] : c.kind = "liquidate" /\ c.list = "pending" /\ Quorum(c)
      <4>1. CASE u = w
        BY <1>3, <1>5, <1>7, <4>1
      <4>2. CASE u # w
        <5>1. ballots'[u] = ballots[u] /\ u \in Queued
          BY <1>0, <1>1, <2>4, <3>2, <4>2
        <5> QED
          BY <5>1 DEF OutcomeInv
      <4> QED
        BY <4>1, <4>2
    <3>3. frozen'[u] => Cardinality(vetoed[u]) >= 3 \/ u \in Queued'
      <4>1. CASE u = w
        BY <2>4, <4>1
      <4>2. CASE u # w
        BY <1>0, <2>2, <2>4, <4>2 DEF OutcomeInv
      <4> QED
        BY <4>1, <4>2
    <3> QED
      BY <1>4, <3>1, <3>2, <3>3 DEF OutcomeInv
  <2> QED
    BY <2>5, <2>6 DEF OutcomeInv
<1> QED
  BY <1>3, <1>6, <1>7

(* Every step keeps the outcomes.                                            *)
LEMMA NextOutcome == BallotsInv /\ OutcomeInv /\ [Next]_vars => OutcomeInv'
<1> SUFFICES ASSUME BallotsInv, OutcomeInv, [Next]_vars PROVE OutcomeInv'
  OBVIOUS
<1>0. rejections \in [Wallets -> Nat] /\ at \in Wallets
  BY DEF BallotsInv, TypeInv, DonorVoiceTypeOK
<1>u. ASSUME UNCHANGED <<vetoed, queue, frozen, rejections>> PROVE OutcomeInv'
  BY <1>u, OutcomesStay
<1>1. CASE PayDue
  <2>1. /\ UNCHANGED <<vetoed, queue, frozen>>
        /\ rejections' = [rejections EXCEPT ![at] = 0]
    BY <1>1 DEF PayDue
  <2> QED
    BY <1>0, <2>1, OutcomesStay
<1>2. ASSUME NEW d \in Donors, NEW w \in Wallets, DonorTx(d, w) PROVE OutcomeInv'
  <2>1. CASE \E x \in Amounts : Donate(d, w, x)
    BY <1>u, <2>1 DEF Donate, pipeVars
  <2>2. CASE \E i \in DOMAIN scheduled[w] : OpenVeto(d, w, i)
    BY <1>u, <2>2 DEF OpenVeto, pipeVars
  <2>3. CASE \E i \in DOMAIN scheduled[w] : PassVeto(d, w, i)
    BY <2>3, VetoOutcome
  <2>4. CASE ProposeLiquidation(d, w) \/ ProposeReauth(d, w) \/ VoteReauth(d, w)
    BY <1>u, <2>4 DEF ProposeLiquidation, ProposeReauth, VoteReauth, pipeVars
  <2>5. CASE VoteLiquidation(d, w)
    BY <2>5, LiquidationOutcome
  <2> QED
    BY <1>2, <2>1, <2>2, <2>3, <2>4, <2>5 DEF DonorTx
<1>3. ASSUME NEW a \in Authorities, NEW w \in Wallets, NEW o \in Orders, AuthorityTx(a, w, o)
      PROVE  OutcomeInv'
  BY <1>u, <1>3 DEF AuthorityTx, ApprovePayment, SchedulePayment, AdvancePayment, pipeVars
<1>4. CASE OtherTx
  BY <1>u, <1>4
  DEF OtherTx, BecomeSlow, MandateExpires, GoInactive, CloseReauth, Repay, pipeVars
<1>5. CASE BeginBoundary \/ (\E w \in Wallets : FilterDue(w)) \/ RequeueDue \/ EndBoundary
  BY <1>u, <1>5 DEF BeginBoundary, FilterDue, RequeueDue, EndBoundary, pipeVars
<1>6. CASE UNCHANGED vars
  BY <1>u, <1>6 DEF vars, pipeVars
<1> QED
  BY <1>1, <1>2, <1>3, <1>4, <1>5, <1>6 DEF Next, Boundary

(* The outcomes hold in every state.                                         *)
LEMMA OutcomeInvariant == Spec => []OutcomeInv
<1>1. Init => OutcomeInv
  <2> SUFFICES ASSUME Init PROVE OutcomeInv
    OBVIOUS
  <2>1. DOMAIN queue = {}
    BY DEF Init
  <2>2. Queued = {}
    BY <2>1 DEF Queued
  <2>3. \A w \in Wallets : /\ vetoed[w] = {} /\ rejections[w] = 0 /\ frozen[w] = FALSE
                           /\ IsFiniteSet(vetoed[w]) /\ Cardinality(vetoed[w]) = 0
    BY FS_EmptySet DEF Init
  <2> QED
    BY <2>1, <2>2, <2>3 DEF OutcomeInv
<1>2. BallotsInv /\ OutcomeInv /\ [Next]_vars => OutcomeInv'
  BY NextOutcome
<1> QED
  BY <1>1, <1>2, BallotsInvariant, PTL DEF Spec

(* Every veto and every liquidation has a ballot behind it that reached the  *)
(* minimum turnout of what was enrolled.  It needs the cut of fixed_point32  *)
(* to round down and a decided ballot to be left alone (turnout_tally,       *)
(* veto_handler, liquidation_handler).                                       *)
THEOREM OutcomesHaveQuorum == Spec => []QuorumBehindOutcome
<1>1. OutcomeInv => QuorumBehindOutcome
  BY DEF OutcomeInv, QuorumBehindOutcome, Queued
<1> QED
  BY <1>1, OutcomeInvariant, PTL

(* A wallet freezes for three vetoes or for its liquidation only, and is     *)
(* queued for liquidation once: the ballot that decided it stays pending and *)
(* keeps another from being opened (maybe_freeze, no_pending_proposal).      *)
THEOREM FreezesHaveCause == Spec => []FrozenHasCause
<1>1. OutcomeInv => FrozenHasCause
  BY DEF OutcomeInv, FrozenHasCause, Queued
<1> QED
  BY <1>1, OutcomeInvariant, PTL

-----------------------------------------------------------------------------
(* The mandate and the signatures                                            *)

(* A lapsed mandate comes back only in the transaction of the vote that      *)
(* passes a ballot on it, whatever ballots the wallet has had before.        *)
THEOREM MandateIsVoted == Spec => MandateFromDonors
<1> DEFINE Renewed(w) == \E b \in ballots'[w] \ ballots[w] : b.kind = "reauth" /\ Quorum(b)
           M == \A w \in Wallets : ~ mandate[w] /\ mandate'[w] => Renewed(w)
<1>1. BallotsInv /\ [Next]_vars => M
  <2> SUFFICES ASSUME BallotsInv, [Next]_vars, NEW u \in Wallets, ~ mandate[u], mandate'[u]
               PROVE  Renewed(u)
    OBVIOUS
  <2>0. /\ mandate \in [Wallets -> BOOLEAN] /\ ballots \in [Wallets -> SUBSET Ballot]
        /\ TypeInv /\ BallotInv
    BY DEF BallotsInv, TypeInv, DonorVoiceTypeOK
  <2>1. ASSUME NEW d \in Donors, NEW w \in Wallets, VoteReauth(d, w) PROVE Renewed(u)
    <3>1. PICK b \in PendingBallots(w, "reauth") :
            /\ CanVote(d, w, b)
            /\ mandate' = [mandate EXCEPT ![w] = mandate[w] \/ Voted(d, w, b).completed]
            /\ ballots' = [ballots EXCEPT ![w] = (ballots[w] \ {b}) \cup
                 {IF Voted(d, w, b).completed THEN [Voted(d, w, b) EXCEPT !.list = "approved"]
                  ELSE Voted(d, w, b)}]
      BY <2>1, Zenon DEF VoteReauth
    <3> DEFINE m == Voted(d, w, b)
               v == [m EXCEPT !.list = "approved"]
    <3>2. b \in ballots[w] /\ b.kind = "reauth" /\ b.list = "pending"
      BY <3>1 DEF PendingBallots
    <3>3. /\ m \in Ballot /\ Sound(w, m) /\ m.uid = b.uid /\ m.kind = b.kind
          /\ m.completed => Quorum(m)
      BY <2>0, <3>1, <3>2, VoteReplaces
    <3>4. /\ mandate' = [mandate EXCEPT ![w] = mandate[w] \/ m.completed]
          /\ m.completed => ballots' = [ballots EXCEPT ![w] = (ballots[w] \ {b}) \cup {v}]
      BY <3>1, Zenon
    <3> HIDE DEF m
    <3>5. u = w /\ m.completed
      BY <2>0, <3>4
    <3>6. /\ v.list = "approved" /\ v.uid = m.uid /\ v.kind = m.kind
          /\ v.completed = m.completed /\ v.approve = m.approve /\ v.max = m.max
      BY <3>3, MovedSound
    <3>7. ballots' = [ballots EXCEPT ![w] = (ballots[w] \ {b}) \cup {v}]
      BY <3>4, <3>5, Zenon
    <3> HIDE DEF v
    <3>8. v \in ballots'[w]
      BY <2>0, <3>7
    <3>9. v \notin ballots[w]
      <4>1. v.uid = b.uid /\ v # b
        BY <3>2, <3>3, <3>6
      <4> QED
        BY <2>0, <3>2, <4>1 DEF BallotInv, Numbered
    <3>10. Quorum(v)
      BY <3>3, <3>5, <3>6 DEF Quorum
    <3> QED
      BY <3>2, <3>3, <3>5, <3>6, <3>8, <3>9, <3>10
  <2>2. ASSUME NEW w \in Wallets, MandateExpires(w) PROVE FALSE
    BY <2>0, <2>2 DEF MandateExpires
  <2>3. ASSUME mandate' = mandate PROVE FALSE
    BY <2>3
  <2>4. ASSUME NEW d \in Donors, NEW w \in Wallets, DonorTx(d, w) PROVE Renewed(u)
    <3>1. CASE \E x \in Amounts : Donate(d, w, x)
      BY <2>3, <3>1 DEF Donate, authVars
    <3>2. CASE \E i \in DOMAIN scheduled[w] : OpenVeto(d, w, i) \/ PassVeto(d, w, i)
      BY <2>3, <3>2 DEF OpenVeto, PassVeto, authVars
    <3>3. CASE ProposeLiquidation(d, w) \/ ProposeReauth(d, w) \/ VoteLiquidation(d, w)
      BY <2>3, <3>3 DEF ProposeLiquidation, ProposeReauth, VoteLiquidation, authVars
    <3> QED
      BY <2>1, <2>4, <3>1, <3>2, <3>3 DEF DonorTx
  <2>5. ASSUME NEW a \in Authorities, NEW w \in Wallets, NEW o \in Orders, AuthorityTx(a, w, o)
        PROVE  FALSE
    BY <2>3, <2>5 DEF AuthorityTx, ApprovePayment, SchedulePayment, AdvancePayment, authVars
  <2>6. CASE OtherTx
    BY <2>2, <2>3, <2>6 DEF OtherTx, BecomeSlow, GoInactive, CloseReauth, Repay, authVars
  <2>7. CASE Boundary
    BY <2>3, <2>7 DEF Boundary, BeginBoundary, FilterDue, PayDue, RequeueDue, EndBoundary,
       authVars
  <2>8. CASE UNCHANGED vars
    BY <2>3, <2>8 DEF vars, authVars
  <2> QED
    BY <2>4, <2>5, <2>6, <2>7, <2>8 DEF Next
<1> QED
  BY <1>1, BallotsInvariant, PTL DEF Spec, MandateFromDonors

(* The deciding signature on a payment joins the others on a proposal that   *)
(* is still live, or is the only one needed (vote_impl, lazy_cleanup).       *)
LEMMA OthersSigned ==
  ASSUME TypeInv, NEW a \in Authorities, NEW w \in Wallets, NEW o \in Orders, NumSigs > 1,
         NEW p \in CandidateProposals(w, o), VoteOnPayment(a, w, o, p),
         Cardinality(p.votes \cup {a}) >= NumSigs
  PROVE  p \in proposals[w] /\ Cardinality(p.votes) >= NumSigs - 1 /\ epoch <= p.expires
<1>1. p \in Proposal /\ a \notin p.votes /\ NumSigs \in Nat
  BY ProposalsType, DonorVoiceAssumption DEF VoteOnPayment
<1>2. IsFiniteSet(p.votes)
  BY <1>1, DonorVoiceAssumption, FS_Subset DEF Proposal
<1>3. /\ Cardinality(p.votes) \in Nat
      /\ Cardinality(p.votes \cup {a}) = Cardinality(p.votes) + 1
  BY <1>1, <1>2, FS_AddElement, FS_CardinalityType
<1>4. p # NewProposal(w, o)
  <2>1. Cardinality(p.votes) # 0
    BY <1>1, <1>3
  <2>2. NewProposal(w, o).votes = {}
    BY DEF NewProposal
  <2> QED
    BY <2>1, <2>2, FS_EmptySet
<1>5. p \in LiveProposals(w)
  BY <1>4 DEF CandidateProposals, SameOrder
<1> QED
  BY <1>1, <1>3, <1>5 DEF LiveProposals

(* Whatever enters the schedule between boundaries has the signatures that   *)
(* the multisig requires, on a proposal that had not expired, and the wallet *)
(* its mandate (propose_payment, schedule).                                  *)
THEOREM ScheduledIsSigned == Spec => SignedWhileValid
<1> DEFINE Signed(w) ==
      /\ IsAuthorized(w)
      /\ NumSigs > 1 =>
           \E p \in proposals[w] : /\ p.id = scheduled'[w][Len(scheduled'[w])].id
                                   /\ Cardinality(p.votes) >= NumSigs - 1
                                   /\ epoch <= p.expires
           S == \A w \in Wallets :
                  Len(scheduled'[w]) > Len(scheduled[w]) /\ stage = "open" => Signed(w)
<1>1. BallotsInv /\ [Next]_vars => S
  <2> SUFFICES ASSUME BallotsInv, [Next]_vars, NEW u \in Wallets, stage = "open",
                      Len(scheduled'[u]) > Len(scheduled[u])
               PROVE  Signed(u)
    OBVIOUS
  <2>0. /\ TypeInv /\ scheduled \in [Wallets -> Seq(Transfer)]
        /\ scheduled[u] \in Seq(Transfer) /\ Len(scheduled[u]) \in Nat
    BY LenProperties DEF BallotsInv, TypeInv, DonorVoiceTypeOK
  <2>3. ASSUME scheduled' = scheduled PROVE FALSE
    BY <2>0, <2>3
  <2>1. ASSUME NEW a \in Authorities, NEW w \in Wallets, NEW o \in Orders, SchedulePayment(a, w, o)
        PROVE  Signed(u)
    <3>1. PICK p \in CandidateProposals(w, o) :
            /\ VoteOnPayment(a, w, o, p) /\ Cardinality(p.votes \cup {a}) >= NumSigs
            /\ scheduled' = [scheduled EXCEPT ![w] = Append(scheduled[w],
                 [id |-> p.id, order |-> o, deadline |-> epoch + PaymentDays])]
      BY <2>1 DEF SchedulePayment
    <3> DEFINE t == [id |-> p.id, order |-> o, deadline |-> epoch + PaymentDays]
    <3>2. u = w
      BY <2>0, <3>1
    <3>3. t \in Transfer /\ t.id = p.id
      <4>1. p \in Proposal
        BY <2>0, ProposalsType
      <4> QED
        BY <2>0, <4>1, DonorVoiceAssumption DEF Transfer, Proposal, TypeInv, DonorVoiceTypeOK
    <3>4. scheduled'[w] = Append(scheduled[w], t)
      BY <2>0, <3>1
    <3> HIDE DEF t
    <3>5. scheduled'[w][Len(scheduled'[w])].id = p.id
      BY <2>0, <3>2, <3>3, <3>4, PutBack
    <3>6. IsAuthorized(w)
      BY <3>1 DEF VoteOnPayment
    <3>7. NumSigs > 1 => /\ p \in proposals[w] /\ Cardinality(p.votes) >= NumSigs - 1
                         /\ epoch <= p.expires
      BY <2>0, <3>1, OthersSigned
    <3> QED
      BY <3>2, <3>5, <3>6, <3>7
  <2>2. ASSUME NEW d \in Donors, NEW w \in Wallets, NEW i \in DOMAIN scheduled[w], PassVeto(d, w, i)
        PROVE  FALSE
    <3>1. /\ i = Len(scheduled[w])
          /\ scheduled' = [scheduled EXCEPT ![w] = [j \in 1..(i - 1) |-> scheduled[w][j]]]
      <4>1. Reject(w, i)
        BY <2>2 DEF PassVeto
      <4> QED
        BY <4>1 DEF Reject
    <3>2. u = w
      BY <2>0, <3>1
    <3>3. i \in Nat /\ i - 1 \in 0..Len(scheduled[w])
      BY <2>0, <3>1, <3>2, LenProperties
    <3>4. Len([j \in 1..(i - 1) |-> scheduled[w][j]]) = i - 1
      BY <2>0, <3>2, <3>3, CutOff
    <3> QED
      BY <2>0, <3>1, <3>2, <3>3, <3>4
  <2>4. ASSUME NEW d \in Donors, NEW w \in Wallets, DonorTx(d, w) PROVE FALSE
    <3>1. CASE \E x \in Amounts : Donate(d, w, x)
      BY <2>3, <3>1 DEF Donate, pipeVars
    <3>2. CASE \E i \in DOMAIN scheduled[w] : OpenVeto(d, w, i)
      BY <2>3, <3>2 DEF OpenVeto, pipeVars
    <3>3. CASE ProposeLiquidation(d, w) \/ ProposeReauth(d, w)
      BY <2>3, <3>3 DEF ProposeLiquidation, ProposeReauth, pipeVars
    <3>4. CASE VoteLiquidation(d, w) \/ VoteReauth(d, w)
      BY <2>3, <3>4 DEF VoteLiquidation, VoteReauth, pipeVars
    <3> QED
      BY <2>2, <2>4, <3>1, <3>2, <3>3, <3>4 DEF DonorTx
  <2>5. ASSUME NEW a \in Authorities, NEW w \in Wallets, NEW o \in Orders,
               ApprovePayment(a, w, o) \/ AdvancePayment(a, w, o)
        PROVE  FALSE
    BY <2>3, <2>5 DEF ApprovePayment, AdvancePayment, pipeVars
  <2>6. CASE OtherTx
    BY <2>3, <2>6
    DEF OtherTx, BecomeSlow, MandateExpires, GoInactive, CloseReauth, Repay, pipeVars
  <2>7. CASE Boundary
    BY <2>3, <2>7 DEF Boundary, BeginBoundary, FilterDue, PayDue, RequeueDue, TakeDue,
       EndBoundary, pipeVars
  <2>8. CASE UNCHANGED vars
    BY <2>3, <2>8 DEF vars, pipeVars
  <2> QED
    BY <2>1, <2>4, <2>5, <2>6, <2>7, <2>8 DEF Next, AuthorityTx
<1> QED
  BY <1>1, BallotsInvariant, PTL DEF Spec, SignedWhileValid

-----------------------------------------------------------------------------
(* One poll (TurnoutTally) *)

(* Products of nonnegative numbers grow with their factors.                  *)
LEMMA ProductsGrow ==
  ASSUME NEW a \in Nat, NEW b \in Nat, NEW c \in Nat, a <= b
  PROVE  a * c <= b * c /\ a * c \in Nat /\ b * c \in Nat
OBVIOUS

(* multiply_u64 on a ratio of fixed_point32 is never above the exact product,*)
(* and at most one below its integer part.                                   *)
LEMMA FixedMulBounds ==
  ASSUME NEW x \in Nat, NEW n \in Nat, NEW d \in Nat \ {0}
  PROVE  /\ FixedMul(x, n, d) \in Nat
         /\ FixedMul(x, n, d) * d <= x * n
<1> DEFINE p == x * n
           q == p \div d
<1>1. p \in Nat
  OBVIOUS
<1>2. FixedMul(x, n, d) = IF p % d = 0 /\ p > 0 /\ ~ Exact(n, d) THEN q - 1 ELSE q
  BY DEF FixedMul
<1> HIDE DEF p
<1>3. q \in Nat /\ p = d * q + (p % d) /\ p % d \in Nat
  BY <1>1
<1> HIDE DEF q
<1>4. d * q \in Nat /\ q * d = d * q /\ (q - 1) * d = d * q - d
  BY <1>3
<1>5. p % d = 0 /\ p > 0 => q > 0
  BY <1>3, <1>1
<1>6. q * d <= p /\ (q - 1) * d <= p
  BY <1>1, <1>3, <1>4
<1>7. CASE p % d = 0 /\ p > 0 /\ ~ Exact(n, d)
  BY <1>2, <1>3, <1>5, <1>6, <1>7 DEF p
<1>8. CASE ~ (p % d = 0 /\ p > 0 /\ ~ Exact(n, d))
  BY <1>2, <1>3, <1>6, <1>8 DEF p
<1> QED
  BY <1>7, <1>8

(* What is subtracted at a turnout of x is never more than 49/75 of x.       *)
LEMMA SlopeBound ==
  ASSUME NEW x \in Nat
  PROVE  Slope(x) \in Nat /\ Slope(x) * 7500 <= x * 4900
<1> DEFINE n == 10000 - 5100
           d == 8750 - 1250
<1>0. n = 4900 /\ d = 7500
  OBVIOUS
<1>1. n \in Nat /\ d \in Nat \ {0}
  OBVIOUS
<1>2. Slope(x) = FixedMul(x, n, d)
  BY DEF Slope, LOW_TURNOUT_X1, HIGH_TURNOUT_X2,
         THRESH_AT_LOW_TURNOUT_Y1, THRESH_AT_HIGH_TURNOUT_Y2
<1> HIDE DEF n, d
<1>3. FixedMul(x, n, d) \in Nat /\ FixedMul(x, n, d) * d <= x * n
  BY <1>1, FixedMulBounds, Zenon
<1> QED
  BY <1>0, <1>2, <1>3

(* The line of get_threshold_from_turnout: the cuts of its numbers only lift *)
(* it, but for the one at its beginning.                                     *)
LEMMA ThresholdLine ==
  ASSUME NEW x \in Nat, x \in 1250..8750
  PROVE  /\ ThresholdAt(x) \in Int
         /\ ThresholdAt(x) >= 5100
         /\ 75 * ThresholdAt(x) >= 75 * 10816 - 49 * x
         /\ x = 1250 => ThresholdAt(x) = 10000
<1> USE DEF LOW_TURNOUT_X1, HIGH_TURNOUT_X2, THRESH_AT_LOW_TURNOUT_Y1,
            THRESH_AT_HIGH_TURNOUT_Y2
<1>1. Slope(x) \in Nat /\ Slope(x) * 7500 <= x * 4900
  BY SlopeBound
<1>2. Slope(1250) = 816
  BY DEF Slope, FixedMul
<1>3. ThresholdAt(x) = (10000 + 816) - Slope(x)
  BY <1>2 DEF ThresholdAt
<1> QED
  BY <1>1, <1>2, <1>3

(* No turnout lets a poll pass with less than 51% of the votes.              *)
LEMMA ThresholdFloor ==
  ASSUME NEW x \in Nat
  PROVE  ThresholdAt(x) \in Nat /\ ThresholdAt(x) >= 5100
<1> USE DEF LOW_TURNOUT_X1, HIGH_TURNOUT_X2, THRESH_AT_LOW_TURNOUT_Y1,
            THRESH_AT_HIGH_TURNOUT_Y2
<1>1. CASE x < 1250
  BY <1>1 DEF ThresholdAt
<1>2. CASE x > 8750
  BY <1>2 DEF ThresholdAt
<1>3. CASE x \in 1250..8750
  <2>1. ThresholdAt(x) \in Int /\ ThresholdAt(x) >= 5100
    BY <1>3, ThresholdLine
  <2> QED
    BY <2>1
<1> QED
  BY <1>1, <1>2, <1>3

(* The line falls slowly enough: the approval that it requires of a turnout  *)
(* above the minimum is, of all the enrolled votes, no less than the minimum.*)
LEMMA ThresholdArea ==
  ASSUME NEW m \in 1..LOW_TURNOUT_X1, NEW x \in Nat, x >= m,
         NEW t, t = ThresholdAt(x)
  PROVE  t * x >= PCT_SCALE * m
<1> USE DEF LOW_TURNOUT_X1, HIGH_TURNOUT_X2, THRESH_AT_LOW_TURNOUT_Y1,
            THRESH_AT_HIGH_TURNOUT_Y2, PCT_SCALE
<1>1. CASE x < 1250
  BY <1>1 DEF ThresholdAt
<1>2. CASE x > 8750
  BY <1>2 DEF ThresholdAt
<1>3. CASE x = 1250
  BY <1>3, ThresholdLine
<1>4. CASE x \in 1251..8750
  <2>1. t \in Int /\ 75 * t >= 75 * 10816 - 49 * x
    BY <1>4, ThresholdLine
  <2>2. (75 * t) * x >= (75 * 10816 - 49 * x) * x
    BY <2>1
  <2>3. (x - 1251) * (8750 - x) >= 0
    <3> DEFINE y == x - 1251
               z == 8750 - x
    <3>1. y \in Nat /\ z \in Nat
      BY <1>4
    <3> HIDE DEF y, z
    <3>2. y * z >= 0
      BY <3>1
    <3> QED
      BY <3>2 DEF y, z
  <2>4. (75 * 10816 - 49 * x) * x >= 75 * 12500000
    <3>1. (x - 1251) * (8750 - x) = 10001 * x - x * x - 1251 * 8750
      OBVIOUS
    <3>2. (75 * 10816 - 49 * x) * x = 811200 * x - 49 * (x * x)
      OBVIOUS
    <3>3. x * x \in Nat
      OBVIOUS
    <3> QED
      BY <1>4, <2>3, <3>1, <3>2, <3>3
  <2>5. (75 * t) * x = 75 * (t * x) /\ t * x \in Int
    BY <2>1
  <2>6. t * x >= 12500000
    BY <2>2, <2>4, <2>5, <2>1
  <2>7. 10000 * m <= 12500000
    OBVIOUS
  <2> QED
    BY <2>5, <2>6, <2>7
<1> QED
  BY <1>1, <1>2, <1>3, <1>4

(* What it takes to pass: the support of PassHasSupport.                     *)
LEMMA PassesHasSupport ==
  ASSUME NEW a \in Nat, NEW r \in Nat, NEW M \in Nat \ {0}, NEW m \in 1..LOW_TURNOUT_X1,
         Passes(a, r, M, m)
  PROVE  10000 * a >= m * M /\ 10000 * a >= 5100 * (a + r)
<1> DEFINE x == FixedMul(10000, a + r, M)
           t == ThresholdAt(x)
           p == Approval(a, r)
<1>1. a + r \in Nat /\ m \in Nat
  BY DEF LOW_TURNOUT_X1
<1>2. x \in Nat /\ x * M <= 10000 * (a + r)
  <2> DEFINE c == a + r
             k == 10000
  <2>1. c \in Nat /\ k \in Nat
    BY <1>1
  <2> HIDE DEF c, k
  <2>2. FixedMul(k, c, M) \in Nat /\ FixedMul(k, c, M) * M <= k * c
    BY <2>1, FixedMulBounds, Zenon
  <2> QED
    BY <2>2 DEF c, k
<1>2a. x \in Nat
  BY <1>2
<1>3. x >= m /\ p >= t
  <2>1. /\ Participation(a, r, M) = x
        /\ ThresholdFromTurnout(a + r, M) = t
    BY SMT DEF Participation, ThresholdFromTurnout, PCT_SCALE
  <2>2. x >= m /\ p >= ThresholdRequired(a, r, M, m)
    BY <2>1, SMT DEF Passes
  <2> HIDE DEF x, t, p
  <2>3. ~ (Participation(a, r, M) < m)
    BY <1>2, <2>1, <2>2, SMT
  <2>4. ThresholdRequired(a, r, M, m) = t
    BY <2>1, <2>3, SMT DEF ThresholdRequired
  <2> QED
    BY <2>2, <2>4, SMT
<1> HIDE DEF x
<1>4. t \in Nat /\ t >= 5100 /\ t * x >= 10000 * m
  <2>1. t \in Nat /\ t >= 5100
    BY <1>2, ThresholdFloor
  <2>2. t * x >= 10000 * m
    <3>1. t = ThresholdAt(x)
      OBVIOUS
    <3> HIDE DEF t, p
    <3>2. t * x >= PCT_SCALE * m
      BY <1>2a, <1>3, <3>1, ThresholdArea, Zenon
    <3> QED
      BY <3>2 DEF PCT_SCALE
  <2> QED
    BY <2>1, <2>2
<1> HIDE DEF t
<1>5. a + r # 0
  BY <1>3, <1>4 DEF Approval
<1>6. p \in Nat /\ p * (a + r) <= 10000 * a
  <2> DEFINE c == a + r
             k == 10000
  <2>1. c \in Nat \ {0} /\ k \in Nat
    BY <1>1, <1>5
  <2>2. p = FixedMul(k, a, c)
    BY <2>1 DEF Approval, PCT_SCALE
  <2> HIDE DEF c, k
  <2>3. FixedMul(k, a, c) \in Nat /\ FixedMul(k, a, c) * c <= k * a
    BY <2>1, FixedMulBounds, Zenon
  <2> HIDE DEF p
  <2>4. p \in Nat /\ p * c <= k * a
    BY <2>2, <2>3
  <2> QED
    BY <2>4 DEF c, k
<1> HIDE DEF p
<1>7. t * (a + r) <= 10000 * a /\ 5100 * (a + r) <= t * (a + r)
  <2>1. t * (a + r) <= p * (a + r) /\ t * (a + r) \in Nat /\ p * (a + r) \in Nat
    BY <1>1, <1>3, <1>4, <1>6, ProductsGrow
  <2>2. 5100 * (a + r) <= t * (a + r)
    BY <1>1, <1>4, ProductsGrow
  <2> QED
    BY <2>1, <2>2, <1>6
<1>8. t * (x * M) <= t * (10000 * (a + r))
  <2> DEFINE y == x * M
             z == 10000 * (a + r)
  <2>1. y \in Nat /\ z \in Nat /\ y <= z
    BY <1>1, <1>2
  <2> HIDE DEF y, z
  <2>2. y * t <= z * t
    BY <2>1, <1>4, ProductsGrow
  <2>3. y * t = t * y /\ z * t = t * z
    BY <2>1, <1>4
  <2>4. t * y <= t * z
    BY <2>2, <2>3
  <2> QED
    BY <2>4 DEF y, z
<1>9. (10000 * m) * M <= (t * x) * M
  BY <1>2, <1>4, ProductsGrow
<1>10. /\ t * (x * M) = (t * x) * M
       /\ t * (10000 * (a + r)) = 10000 * (t * (a + r))
       /\ (10000 * m) * M = 10000 * (m * M)
       /\ m * M \in Nat /\ t * (a + r) \in Nat /\ (t * x) * M \in Nat
  BY <1>1, <1>2, <1>4
<1>11. 10000 * (m * M) <= 10000 * (t * (a + r))
  <2> DEFINE y == m * M
             z == t * (a + r)
             k == (t * x) * M
  <2>1. 10000 * y <= k /\ k <= 10000 * z /\ y \in Nat /\ z \in Nat /\ k \in Nat
    BY <1>8, <1>9, <1>10
  <2> HIDE DEF y, z, k
  <2>2. 10000 * y <= 10000 * z
    BY <2>1
  <2> QED
    BY <2>2 DEF y, z
<1>12. m * M <= t * (a + r)
  <2> DEFINE y == m * M
             z == t * (a + r)
  <2>1. 10000 * y <= 10000 * z /\ y \in Nat /\ z \in Nat
    BY <1>10, <1>11
  <2> HIDE DEF y, z
  <2>2. y <= z
    BY <2>1
  <2> QED
    BY <2>2 DEF y, z
<1>13. m * M <= 10000 * a
  <2> DEFINE y == m * M
             z == t * (a + r)
             b == 10000 * a
  <2>1. y <= z /\ z <= b /\ y \in Nat /\ z \in Nat /\ b \in Nat
    BY <1>7, <1>10, <1>12
  <2> HIDE DEF y, z, b
  <2>2. y <= b
    BY <2>1
  <2> QED
    BY <2>2 DEF y, b
<1>14. 5100 * (a + r) <= 10000 * a
  <2> DEFINE z == t * (a + r)
  <2>1. 5100 * (a + r) <= z /\ z <= 10000 * a /\ z \in Nat
    BY <1>7, <1>10
  <2> HIDE DEF z
  <2> QED
    BY <2>1
<1> QED
  BY <1>13, <1>14

Receipt == [side : {"none", "approve", "reject"}, weight : Nat]

PollRecord == [max : Nat, approve : Nat, reject : Nat, completed : BOOLEAN, pass : BOOLEAN]

(* The weights are positive and so is the enrollment, the totals are the     *)
(* receipts, and a poll that passed is closed.                               *)
PollInv ==
  /\ age \in Nat
  /\ weight \in [Voters -> Nat \ {0}]
  /\ receipts \in [Voters -> Receipt]
  /\ \A v \in Voters : receipts[v].side = "none" => receipts[v] = NotVoted
  /\ poll \in PollRecord
  /\ Voters # {} => poll.max > 0
  /\ TotalsAreReceipts
  /\ PassHasSupport
  /\ poll.pass => poll.completed

(* new_tally_struct: an enrollment of positive weights, and no votes.        *)
LEMMA PollInitInv ==
  ASSUME PollInit
  PROVE  PollInv
<1>1. IsFiniteSet(Voters) /\ InitWeights \subseteq Nat \ {0}
  BY PollAssumption
<1>2. weight \in [Voters -> Nat \ {0}]
  <2>1. weight \in [Voters -> InitWeights]
    BY DEF PollInit
  <2> QED
    BY <1>1, <2>1
<1> DEFINE M == SumFunctionOnSet(weight, Voters)
<1>3. M \in Nat /\ \A v \in Voters : weight[v] <= M
  BY <1>1, <1>2, SumNat, SumMember
<1>4. poll = [max |-> M, approve |-> 0, reject |-> 0, completed |-> FALSE, pass |-> FALSE]
  BY DEF PollInit
<1> HIDE DEF M
<1>5. receipts = [v \in Voters |-> [side |-> "none", weight |-> 0]]
  BY DEF PollInit, NotVoted
<1>6. \A s \in {"approve", "reject"} : CastFor(s) = 0
  <2> TAKE s \in {"approve", "reject"}
  <2>1. {v \in Voters : receipts[v].side = s} = {}
    BY <1>5
  <2> QED
    BY <2>1, SumEmpty DEF CastFor
<1>7. Voters # {} => M > 0
  BY <1>2, <1>3
<1> QED
  BY <1>2, <1>3, <1>4, <1>5, <1>6, <1>7
  DEF PollInit, PollInv, Receipt, PollRecord, NotVoted, TotalsAreReceipts, PassHasSupport

(* What a receipt adds to the total of a side.                               *)
LEMMA ReceiptAdded ==
  ASSUME receipts \in [Voters -> Receipt], NEW v \in Voters,
         receipts[v].side = "none", NEW s \in {"approve", "reject"}, NEW n \in Nat,
         receipts' = [receipts EXCEPT ![v] = [side |-> s, weight |-> n]]
  PROVE  /\ CastFor(s)' = CastFor(s) + n
         /\ \A o \in {"approve", "reject"} : o # s => CastFor(o)' = CastFor(o)
<1> DEFINE f == [u \in Voters |-> receipts[u].weight]
           g == [u \in Voters |-> receipts'[u].weight]
           For(o) == {u \in Voters : receipts[u].side = o}
<1>1. IsFiniteSet(Voters)
  BY PollAssumption
<1>2. \A u \in Voters : f[u] \in Nat /\ g[u] \in Nat /\ (u # v => g[u] = f[u])
  BY DEF Receipt
<1>3. g[v] = n
  BY DEF Receipt
<1>4. /\ {u \in Voters : receipts'[u].side = s} = For(s) \cup {v}
      /\ v \notin For(s)
      /\ \A o \in {"approve", "reject"} :
             o # s => {u \in Voters : receipts'[u].side = o} = For(o) /\ v \notin For(o)
  BY DEF Receipt
<1>5. \A o : IsFiniteSet(For(o)) /\ For(o) \subseteq Voters
  BY <1>1, FS_Subset
<1>6. /\ \A o : CastFor(o) = SumFunctionOnSet(f, For(o))
      /\ CastFor(s)' = SumFunctionOnSet(g, For(s) \cup {v})
      /\ \A o \in {"approve", "reject"} :
             o # s => CastFor(o)' = SumFunctionOnSet(g, For(o))
  BY <1>4 DEF CastFor
<1> HIDE DEF f, g, For
<1>7. \A o \in {"approve", "reject"} :
          SumFunctionOnSet(g, For(o)) = SumFunctionOnSet(f, For(o))
  <2> TAKE o \in {"approve", "reject"}
  <2>1. v \notin For(o)
    BY <1>4
  <2>2. \A u \in For(o) : f[u] \in Int /\ g[u] = f[u]
    BY <1>2, <1>5, <2>1
  <2> QED
    BY <1>5, <2>2, SumSame
<1>8. SumFunctionOnSet(g, For(s) \cup {v}) = SumFunctionOnSet(g, For(s)) + n
  <2>1. \A u \in For(s) \cup {v} : g[u] \in Int
    BY <1>2, <1>5
  <2> QED
    BY <1>3, <1>4, <1>5, <2>1, SumAdd
<1> QED
  BY <1>6, <1>7, <1>8

(* What save_tally makes of the new totals: a poll that passes has support.  *)
LEMMA SaveTallySound ==
  ASSUME age \in Nat, NEW p \in PollRecord, p.max > 0, ~ p.pass
  PROVE  LET q == SaveTally(p)
         IN  /\ q \in PollRecord
             /\ q.max = p.max /\ q.approve = p.approve /\ q.reject = p.reject
             /\ q.pass => /\ q.completed
                          /\ PCT_SCALE * q.approve >= CfgMinTurnout * q.max
                          /\ PCT_SCALE * q.approve
                                 >= THRESH_AT_HIGH_TURNOUT_Y2 * (q.approve + q.reject)
<1> DEFINE q == SaveTally(p)
<1>1. CASE Passes(p.approve, p.reject, p.max, CfgMinTurnout)
  <2>1. q = [p EXCEPT !.completed = TRUE, !.pass = TRUE]
    BY <1>1 DEF SaveTally
  <2>2. /\ q \in PollRecord /\ q.max = p.max /\ q.approve = p.approve /\ q.reject = p.reject
        /\ q.completed
    BY <2>1 DEF PollRecord
  <2>3. /\ p.approve \in Nat /\ p.reject \in Nat /\ p.max \in Nat \ {0}
        /\ CfgMinTurnout \in 1..LOW_TURNOUT_X1
    BY PollAssumption DEF PollRecord
  <2>4. /\ 10000 * p.approve >= CfgMinTurnout * p.max
        /\ 10000 * p.approve >= 5100 * (p.approve + p.reject)
    BY <1>1, <2>3, PassesHasSupport
  <2> HIDE DEF q
  <2>5. /\ 10000 * q.approve >= CfgMinTurnout * q.max
        /\ 10000 * q.approve >= 5100 * (q.approve + q.reject)
    BY <2>2, <2>4
  <2>6. PCT_SCALE = 10000 /\ THRESH_AT_HIGH_TURNOUT_Y2 = 5100
    BY DEF PCT_SCALE, THRESH_AT_HIGH_TURNOUT_Y2
  <2>7. /\ PCT_SCALE * q.approve >= CfgMinTurnout * q.max
        /\ PCT_SCALE * q.approve
                >= THRESH_AT_HIGH_TURNOUT_Y2 * (q.approve + q.reject)
    BY <2>5, <2>6
  <2> QED
    BY <2>2, <2>7 DEF q
<1>2. CASE ~ Passes(p.approve, p.reject, p.max, CfgMinTurnout)
  <2>1. q = [p EXCEPT !.completed = age > Deadline]
    BY <1>2 DEF SaveTally
  <2> HIDE DEF q
  <2>2. PICK b \in BOOLEAN : q = [p EXCEPT !.completed = b]
    <3>1. (age > Deadline) \in BOOLEAN
      BY PollAssumption
    <3> QED
      BY <2>1, <3>1
  <2>3. /\ q \in PollRecord /\ q.max = p.max /\ q.approve = p.approve /\ q.reject = p.reject
        /\ ~ q.pass
    BY <2>2 DEF PollRecord
  <2> QED
    BY <2>3 DEF q
<1> QED
  BY <1>1, <1>2

(* vote keeps the invariant, also when it is called again.                   *)
LEMMA VoteKeeps ==
  ASSUME PollInv, NEW v \in Voters, NEW s \in Sides,
         Vote(v, s)
  PROVE  PollInv'
<1> DEFINE p == Counted(v, s)
<1>1. /\ poll' = SaveTally(p) /\ ~ poll.completed /\ weight' = weight
      /\ receipts' = IF receipts[v] # NotVoted THEN receipts
                     ELSE [receipts EXCEPT ![v] = [side |-> s, weight |-> weight[v]]]
  BY DEF Vote, IsPollClosed
<1>2. s \in {"approve", "reject"} /\ poll \in PollRecord /\ ~ poll.pass /\ poll.max > 0
  BY <1>1 DEF PollInv, Sides
<1>3. weight[v] \in Nat \ {0} /\ receipts[v] \in Receipt /\ receipts \in [Voters -> Receipt]
  BY DEF PollInv
<1>4. /\ p \in PollRecord /\ p.max = poll.max /\ ~ p.pass
      /\ receipts'  \in [Voters -> Receipt]
      /\ \A u \in Voters : receipts'[u].side = "none" => receipts'[u] = NotVoted
      /\ p.approve = CastFor("approve")' /\ p.reject = CastFor("reject")'
  <2>1. CASE receipts[v] # NotVoted
    <3>1. p = poll /\ receipts' = receipts
      BY <1>1, <2>1 DEF Counted
    <3>2. CastFor("approve")' = CastFor("approve")
          /\ CastFor("reject")' = CastFor("reject")
      BY <3>1 DEF CastFor
    <3> QED
      BY <3>1, <3>2, <1>2 DEF PollInv, TotalsAreReceipts
  <2>2. CASE receipts[v] = NotVoted
    <3>1. receipts' = [receipts EXCEPT ![v] = [side |-> s, weight |-> weight[v]]]
      BY <1>1, <2>2
    <3>2. receipts[v].side = "none"
      BY <2>2 DEF NotVoted
    <3>3. /\ CastFor(s)' = CastFor(s) + weight[v]
          /\ \A o \in {"approve", "reject"} : o # s => CastFor(o)' = CastFor(o)
      BY <1>2, <1>3, <3>1, <3>2, ReceiptAdded
    <3>4. /\ receipts' \in [Voters -> Receipt]
          /\ \A u \in Voters : receipts'[u].side = "none" => receipts'[u] = NotVoted
      BY <1>2, <1>3, <3>1 DEF PollInv, Receipt
    <3>5. CASE s = "approve"
      <4>1. p = [poll EXCEPT !.approve = @ + weight[v]]
        BY <2>2, <3>5 DEF Counted
      <4>2. p \in PollRecord /\ p.max = poll.max /\ ~ p.pass
            /\ p.approve = poll.approve + weight[v] /\ p.reject = poll.reject
        BY <4>1, <1>2, <1>3 DEF PollRecord
      <4> QED
        BY <3>3, <3>4, <3>5, <4>2 DEF PollInv, TotalsAreReceipts
    <3>6. CASE s = "reject"
      <4>1. p = [poll EXCEPT !.reject = @ + weight[v]]
        BY <2>2, <3>6 DEF Counted
      <4>2. p \in PollRecord /\ p.max = poll.max /\ ~ p.pass
            /\ p.reject = poll.reject + weight[v] /\ p.approve = poll.approve
        BY <4>1, <1>2, <1>3 DEF PollRecord
      <4> QED
        BY <3>3, <3>4, <3>6, <4>2 DEF PollInv, TotalsAreReceipts
    <3> QED
      BY <1>2, <3>5, <3>6
  <2> QED
    BY <2>1, <2>2
<1> HIDE DEF p
<1>5. /\ poll' \in PollRecord
      /\ poll'.max = p.max /\ poll'.approve = p.approve /\ poll'.reject = p.reject
      /\ poll'.pass => /\ poll'.completed
                       /\ PCT_SCALE * poll'.approve >= CfgMinTurnout * poll'.max
                       /\ PCT_SCALE * poll'.approve
                              >= THRESH_AT_HIGH_TURNOUT_Y2 * (poll'.approve + poll'.reject)
  BY <1>1, <1>2, <1>4, SaveTallySound DEF PollInv
<1>6. TotalsAreReceipts'
  BY <1>4, <1>5 DEF TotalsAreReceipts
<1>7. PassHasSupport'
  BY <1>5 DEF PassHasSupport
<1> QED
  BY <1>1, <1>2, <1>4, <1>5, <1>6, <1>7 DEF PollInv, Vote

(* Every step keeps the invariant.                                           *)
LEMMA PollStep ==
  ASSUME PollInv, [PollNext]_pollVars
  PROVE  PollInv'
<1>1. ASSUME UNCHANGED <<receipts, poll>>, weight' \in [Voters -> Nat \ {0}], age' \in Nat
      PROVE  PollInv'
  <2>1. /\ CastFor("approve")' = CastFor("approve")
        /\ CastFor("reject")' = CastFor("reject")
    BY <1>1 DEF CastFor
  <2>2. TotalsAreReceipts'
    BY <1>1, <2>1 DEF PollInv, TotalsAreReceipts
  <2>3. PassHasSupport'
    BY <1>1 DEF PollInv, PassHasSupport
  <2> QED
    BY <1>1, <2>2, <2>3 DEF PollInv
<1>2. ASSUME NEW v \in Voters, NEW x \in Growth, Deposit(v, x)
      PROVE  PollInv'
  <2>1. x \in Nat /\ weight \in [Voters -> Nat \ {0}]
    BY PollAssumption DEF PollInv
  <2>2. weight' \in [Voters -> Nat \ {0}]
    BY <1>2, <2>1 DEF Deposit
  <2> QED
    BY <1>1, <1>2, <2>2 DEF Deposit, PollInv
<1>3. CASE NextEpoch \/ UNCHANGED pollVars
  BY <1>1, <1>3 DEF NextEpoch, pollVars, PollInv
<1> QED
  BY <1>2, <1>3, VoteKeeps DEF PollNext

(* The invariant of a poll.                                                  *)
LEMMA PollInvariant ==
  PollSpec => []PollInv
<1>1. PollInit => PollInv
  BY PollInitInv
<1>2. PollInv /\ [PollNext]_pollVars => PollInv'
  BY PollStep
<1> QED
  BY <1>1, <1>2, PTL DEF PollSpec

(* TotalsAreReceipts for any voters and weights: whatever the voters call    *)
(* again, and however they donate in between, vote counts each of them once. *)
THEOREM VotersCountOnce ==
  PollSpec => []TotalsAreReceipts
<1>1. PollInv => TotalsAreReceipts
  BY DEF PollInv
<1> QED
  BY <1>1, PollInvariant, PTL

(* PassHasSupport for any voters and weights, and any minimum turnout up to  *)
(* the mainnet's: the cuts of fixed_point32 never let save_tally complete a  *)
(* poll as passed without that share of the enrolled votes in favour.        *)
THEOREM PassedPollsHaveSupport ==
  PollSpec => []PassHasSupport
<1>1. PollInv => PassHasSupport
  BY DEF PollInv
<1> QED
  BY <1>1, PollInvariant, PTL
=============================================================================
