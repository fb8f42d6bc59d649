------------------------- MODULE ValidatorSetProofs -------------------------
(***************************************************************************)
(* Proofs about ValidatorSet, for every set of validators and every value  *)
(* of the thresholds, in particular the minimum of 4 and the healthy       *)
(* threshold of 9 of the code, which TLC checks scaled down.               *)
(***************************************************************************)
EXTENDS ValidatorSet, FiniteSetTheorems, TLAPS

-----------------------------------------------------------------------------
(***************************************************************************)
(* Lemmas about the operators of the boundary                              *)
(***************************************************************************)

JailType == [Validators -> [jailed : BOOLEAN, lifetime : Nat, vouchees : Nat,
                            consecutive : Nat]]

PerfType == [Validators -> [ok : Nat, failed : Nat]]

\* Sets of validators are finite and their sizes are naturals.
LEMMA CardNat ==
  ASSUME NEW s \in SUBSET Validators
  PROVE  IsFiniteSet(s) /\ Cardinality(s) \in Nat
<1>1. IsFiniteSet(Validators)
  BY ValidatorSetAssumption
<1>2. IsFiniteSet(s)
  BY <1>1, FS_Subset
<1> QED
  BY <1>2, FS_CardinalityType

\* So are the lists that governance proposes, and what they seat is no longer
\* than they are.
LEMMA ListFinite ==
  ASSUME NEW list \in SUBSET (Validators \cup Strangers)
  PROVE  /\ Cardinality(list) \in Nat
         /\ Cardinality(list \ Strangers) <= Cardinality(list)
<1>1. IsFiniteSet(Validators \cup Strangers)
  BY ValidatorSetAssumption, FS_Union
<1>2. IsFiniteSet(list)
  BY <1>1, FS_Subset
<1>3. list \ Strangers \subseteq list
  OBVIOUS
<1> QED
  BY <1>2, <1>3, FS_Subset, FS_CardinalityType

\* The counters of validators without proposals are well typed.
LEMMA NoProposalsType == [v \in Validators |-> NoProposals] \in PerfType
  BY DEF NoProposals, PerfType

\* Blocks keep the performance counters natural.
LEMMA GradedType ==
  ASSUME TypeOK, NEW p, NEW f
  PROVE  Graded(p, f) \in PerfType
  BY DEF TypeOK, Graded, PerfType

\* jail::jail keeps the jail records well typed.
LEMMA JailAllType ==
  ASSUME TypeOK, NEW bad \in SUBSET Validators
  PROVE  JailAll(bad) \in JailType
<1>1. \A v \in Validators : Cardinality({b \in bad : v \in vouchers[b]}) \in Nat
  <2> TAKE v \in Validators
  <2> QED
    BY CardNat
<1> QED
  BY <1>1 DEF TypeOK, JailAll, JailType

\* musical chairs returns a natural number of seats.
LEMMA SeatsToOfferNat ==
  ASSUME TypeOK, NEW c \in Nat
  PROVE  SeatsToOffer(c) \in Nat
<1>1. active \in SUBSET Validators /\ CompliantVals(c) \in SUBSET Validators
  BY DEF TypeOK, CompliantVals
<1>2. Cardinality(CompliantVals(c)) \in Nat
  BY <1>1, CardNat
<1>3. seats \in Nat /\ MinSeats \in Nat
  BY ValidatorSetAssumption DEF TypeOK
<1> QED
  BY <1>2, <1>3 DEF SeatsToOffer, Max2

\* Quotients of naturals are naturals.
LEMMA DivNat == \A n \in Nat, d \in Nat \ {0} : n \div d \in Nat
  OBVIOUS

\* The bid that counts is a natural.
LEMMA CurrentBidNat ==
  ASSUME TypeOK, NEW v \in Validators
  PROVE  CurrentBid(v) \in Nat
<1>1. bid[v] \in [pct : 0..1100, expire : Nat]
  BY DEF TypeOK
<1>2. bid[v].pct \in Nat
  BY <1>1
<1> QED
  BY <1>2 DEF CurrentBid

\* The entry fee a bid stands for is a natural.
LEMMA BidFeeNat ==
  ASSUME TypeOK, NEW v \in Validators
  PROVE  BidFee(v) \in Nat
<1>1. CurrentBid(v) \in Nat
  BY CurrentBidNat
<1>2. NominalReward \in Nat
  BY ValidatorSetAssumption
<1>3. NominalReward * CurrentBid(v) \in Nat
  BY <1>1, <1>2
<1> QED
  BY <1>3, DivNat DEF BidFee

\* The clearing fee of an auction is a natural.
LEMMA ClearingFeeNat ==
  ASSUME TypeOK, NEW w \in SUBSET Validators, NEW x \in ClearingFees(w)
  PROVE  x \in Nat
  BY BidFeeNat DEF TypeOK, ClearingFees

\* The failover rules seat nobody but winners and current validators.
LEMMA FailoverSubset ==
  ASSUME NEW p, NEW o, NEW set \in FailoverOutcomes(p, o)
  PROVE  set \subseteq p \cup active
  BY DEF FailoverOutcomes, TopProposers, TopRanked

\* The failover target is a natural, not below the minimum.
LEMMA TargetBounds ==
  ASSUME NEW o \in Nat
  PROVE  /\ FailoverTarget(o) \in Nat
         /\ FailoverTarget(o) >= MinSeats
         /\ FailoverTarget(o) <= Max2(o, MinSeats)
  BY ValidatorSetAssumption DEF FailoverTarget, Min2, Max2

\* What the failover rules return is viable or unchanged.
LEMMA FailoverViable ==
  ASSUME TypeOK, NEW p \in SUBSET Validators, NEW o \in Nat,
         NEW set \in FailoverOutcomes(p, o)
  PROVE  set = active \/ Cardinality(set) >= MinSeats
<1>1. Cardinality(p) \in Nat
  BY CardNat
<1>2. MinSeats \in Nat /\ HealthyThreshold \in Nat /\ MinSeats <= HealthyThreshold
  BY ValidatorSetAssumption
<1>3. CASE Cardinality(p) > HealthyThreshold \/ Cardinality(p) >= FailoverTarget(o)
  <2>1. set = p
    BY <1>3 DEF FailoverOutcomes
  <2> QED
    BY <1>1, <1>2, <1>3, <2>1, TargetBounds
<1>4. CASE ~(Cardinality(p) > HealthyThreshold \/ Cardinality(p) >= FailoverTarget(o))
  BY <1>4 DEF FailoverOutcomes
<1> QED
  BY <1>3, <1>4

-----------------------------------------------------------------------------
(***************************************************************************)
(* Type correctness                                                        *)
(***************************************************************************)

\* A set of bids is monotone in the percentages and the expiries.
LEMMA BidsMonotone ==
  ASSUME NEW P, NEW E, NEW Q, NEW F, P \subseteq Q, E \subseteq F,
         NEW b \in [pct : P, expire : E]
  PROVE  b \in [pct : Q, expire : F]
  BY SMT

\* The first state is well typed.
LEMMA InitTypeOK == Init => TypeOK
<1> SUFFICES ASSUME Init PROVE TypeOK
  OBVIOUS
<1>1. Genesis \in SUBSET Validators
  BY ValidatorSetAssumption
<1>2. Cardinality(Genesis) \in Nat
  BY <1>1, CardNat
<1>3. bid \in [Validators -> [pct : 0..1100, expire : Nat]]
  <2>1. NoBid \in [pct : 0..1100, expire : Nat]
    BY DEF NoBid
  <2>2. BidLevels \subseteq 0..1100 /\ Expiries \subseteq Nat
    BY ValidatorSetAssumption
  <2>3. bid \in [Validators -> [pct : BidLevels, expire : Expiries] \cup {NoBid}]
    BY DEF Init
  <2>4. ASSUME NEW v \in Validators
        PROVE  bid[v] \in [pct : 0..1100, expire : Nat]
    <3>1. CASE bid[v] = NoBid
      BY <2>1, <3>1
    <3>2. CASE bid[v] \in [pct : BidLevels, expire : Expiries]
      <4> DEFINE Q == 0..1100
      <4>1. BidLevels \subseteq Q /\ Expiries \subseteq Nat
        BY <2>2
      <4> HIDE DEF Q
      <4>2. bid[v] \in [pct : Q, expire : Nat]
        BY <3>2, <4>1, BidsMonotone
      <4> QED
        BY <4>2 DEF Q
    <3>3. bid[v] \in [pct : BidLevels, expire : Expiries] \cup {NoBid}
      BY <2>3
    <3> QED
      BY <3>1, <3>2, <3>3
  <2> QED
    BY <2>3, <2>4
<1>4. jail \in JailType
  BY DEF Init, NeverJailed, JailType
<1> QED
  BY <1>2, <1>3, <1>4, NoProposalsType, ValidatorSetAssumption
  DEF Init, TypeOK, JailType, PerfType

\* A run of blocks preserves the types.
LEMMA BlocksTypeOK ==
  ASSUME TypeOK, NEW p, NEW f, NewBlocks(p, f)
  PROVE  TypeOK'
<1>1. perf' \in PerfType
  BY GradedType DEF NewBlocks
<1>2. since' \in Nat /\ sinceEnd' \in Nat
  BY ValidatorSetAssumption DEF TypeOK, NewBlocks, Min2
<1>3. bit' \in [ready : BOOLEAN, closing : Nat]
  BY DEF TypeOK, NewBlocks
<1> QED
  BY <1>1, <1>2, <1>3 DEF TypeOK, NewBlocks, bidVars, PerfType

\* What a boundary that seats set, after winners won the auction, did.
BoundaryFacts(fees, winners, set) ==
    LET compliant == CompliantVals(bit.closing)
        offered   == SeatsToOffer(bit.closing)
    IN  /\ set \in FailoverOutcomes(winners, offered)
        /\ Reconfigured(set)
        /\ seats' = SeatsAfter(winners, set)
        /\ jail' = (IF fees THEN JailAll(active \ compliant) ELSE jail)
        /\ entryFee' \in ClearingFees(winners)
        /\ status' = winners
        /\ \A v \in winners :
            /\ ~jail'[v].jailed
            /\ CurrentBid(v) # 0
            /\ Cardinality(vouchers[v] \cap active) >= MinVouchesRequired
        /\ \E n \in Nat :
            /\ Cardinality(winners) <= CompetitiveSetSize(n, offered)
            /\ Cardinality(winners \ compliant) <= CompetitiveSetSize(n, offered) \div 3

\* TriggerEpoch has such winners and such a set.
LEMMA BoundaryWitness ==
  ASSUME TypeOK, TriggerEpoch
  PROVE  \E fees \in BOOLEAN, winners \in SUBSET Validators, set \in SUBSET registered :
            BoundaryFacts(fees, winners, set)
<1>1. PICK fees \in BOOLEAN, unlocked \in [Validators -> Funds] :
        LET compliant == CompliantVals(bit.closing)
            offered   == SeatsToOffer(bit.closing)
            jailed    == IF fees THEN JailAll(active \ compliant) ELSE jail
            qualified == {v \in Validators : AuditQualification(v, jailed, unlocked)}
            size      == CompetitiveSetSize(Cardinality(qualified), offered)
        IN  \E winners \in AuctionOutcomes(qualified, compliant, size) :
            \E set \in FailoverOutcomes(winners, offered) :
                /\ Reconfigured(set)
                /\ seats' = SeatsAfter(winners, set)
                /\ jail' = jailed
                /\ entryFee' \in ClearingFees(winners)
                /\ status' = winners
  BY DEF TriggerEpoch
<1> DEFINE compliant == CompliantVals(bit.closing)
           offered   == SeatsToOffer(bit.closing)
           jailed    == IF fees THEN JailAll(active \ compliant) ELSE jail
           qualified == {v \in Validators : AuditQualification(v, jailed, unlocked)}
           size      == CompetitiveSetSize(Cardinality(qualified), offered)
<1>2. PICK winners \in AuctionOutcomes(qualified, compliant, size) :
            \E set \in FailoverOutcomes(winners, offered) :
                /\ Reconfigured(set)
                /\ seats' = SeatsAfter(winners, set)
                /\ jail' = jailed
                /\ entryFee' \in ClearingFees(winners)
                /\ status' = winners
  BY <1>1
<1>3. PICK set \in FailoverOutcomes(winners, offered) :
                /\ Reconfigured(set)
                /\ seats' = SeatsAfter(winners, set)
                /\ jail' = jailed
                /\ entryFee' \in ClearingFees(winners)
                /\ status' = winners
  BY <1>2
<1>4. /\ winners \in SUBSET qualified
      /\ Cardinality(winners) <= size
      /\ Cardinality(winners \ compliant) <= size \div 3
  BY DEF AuctionOutcomes, Winners
<1>5. winners \in SUBSET Validators /\ qualified \in SUBSET Validators
  BY <1>4
<1>6. Cardinality(qualified) \in Nat
  BY <1>5, CardNat
<1>7. \A v \in winners : /\ ~jail'[v].jailed
                         /\ CurrentBid(v) # 0
                         /\ Cardinality(vouchers[v] \cap active) >= MinVouchesRequired
  BY <1>3, <1>4 DEF AuditQualification
<1>8. set \in SUBSET registered
  BY <1>3 DEF Reconfigured
<1>9. BoundaryFacts(fees, winners, set)
  BY <1>3, <1>4, <1>6, <1>7 DEF BoundaryFacts
<1> QED
  BY <1>5, <1>8, <1>9

\* The boundary preserves the types; the set it seats is registered, because
\* maybe_reconfigure aborts otherwise.
LEMMA TriggerTypeOK ==
  ASSUME TypeOK, TriggerEpoch
  PROVE  TypeOK'
<1>1. PICK fees \in BOOLEAN, winners \in SUBSET Validators, set \in SUBSET registered :
        BoundaryFacts(fees, winners, set)
  BY BoundaryWitness
<1>2. active \ CompliantVals(bit.closing) \in SUBSET Validators
  BY DEF TypeOK
<1>3. jail' \in JailType
  BY <1>1, <1>2, JailAllType DEF BoundaryFacts, TypeOK, JailType
<1>4. entryFee' \in Nat
  BY <1>1, ClearingFeeNat DEF BoundaryFacts
<1>5. set \in SUBSET Validators
  BY DEF TypeOK
<1>6. active' \subseteq registered /\ perf' \in PerfType /\ seats' \in Nat
  BY <1>1, <1>5, CardNat, NoProposalsType DEF BoundaryFacts, Reconfigured, SeatsAfter
<1>7. status' \subseteq Validators
  BY <1>1 DEF BoundaryFacts
<1>8. bit' \in [ready : BOOLEAN, closing : Nat]
  BY DEF TypeOK, TriggerEpoch, Disarmed
<1>9. /\ epoch' \in Nat /\ since' \in Nat /\ sinceEnd' \in Nat
      /\ boundaries' \in Nat
  BY DEF TypeOK, TriggerEpoch
<1>10. /\ registered' = registered /\ bid' = bid
       /\ vouchers' = vouchers /\ txs' = txs
  BY DEF TriggerEpoch
<1> QED
  BY <1>3, <1>4, <1>6, <1>7, <1>8, <1>9, <1>10 DEF TypeOK, JailType, PerfType

\* Transactions of validators and vouchers preserve the types.
LEMMA ValidatorTxTypeOK ==
  ASSUME TypeOK, ValidatorTx
  PROVE  TypeOK'
<1>1. txs' \in Nat
  BY DEF TypeOK, ValidatorTx, CountTx, RegisterValidator, UpdateBid, RetractBid,
         UnjailByVoucher, ChangeVouch
<1>2. PICK v \in Validators :
        \/ RegisterValidator(v)
        \/ \E pct \in BidLevels, expire \in Expiries : UpdateBid(v, pct, expire)
        \/ RetractBid(v)
        \/ \E u \in Validators : UnjailByVoucher(u, v) \/ ChangeVouch(u, v)
  BY DEF ValidatorTx
<1>3. CASE RegisterValidator(v)
  BY <1>1, <1>3 DEF TypeOK, RegisterValidator, bidVars, clockVars
<1>4. CASE \E pct \in BidLevels, expire \in Expiries : UpdateBid(v, pct, expire)
  <2>1. PICK pct \in BidLevels, expire \in Expiries : UpdateBid(v, pct, expire)
    BY <1>4
  <2>2. pct \in 0..1100 /\ expire \in Nat
    BY ValidatorSetAssumption
  <2>3. bid' \in [Validators -> [pct : 0..1100, expire : Nat]]
    BY <2>1, <2>2 DEF TypeOK, UpdateBid
  <2> QED
    BY <1>1, <2>1, <2>3 DEF TypeOK, UpdateBid, setVars, clockVars
<1>5. CASE RetractBid(v)
  <2>1. bid' \in [Validators -> [pct : 0..1100, expire : Nat]]
    BY <1>5 DEF TypeOK, RetractBid, NoBid
  <2> QED
    BY <1>1, <1>5, <2>1 DEF TypeOK, RetractBid, setVars, clockVars
<1>6. CASE \E u \in Validators : UnjailByVoucher(u, v)
  <2>1. jail' = [jail EXCEPT ![v] = [jail[v] EXCEPT !.jailed = FALSE]]
    BY <1>6 DEF UnjailByVoucher
  <2>2. jail[v] \in
            [jailed : BOOLEAN, lifetime : Nat, vouchees : Nat, consecutive : Nat]
    BY DEF TypeOK
  <2>3. [jail[v] EXCEPT !.jailed = FALSE] \in
            [jailed : BOOLEAN, lifetime : Nat, vouchees : Nat, consecutive : Nat]
    BY <2>2
  <2>4. jail' \in JailType
    BY <2>1, <2>3 DEF TypeOK, JailType
  <2> QED
    BY <1>1, <1>6, <2>4 DEF TypeOK, UnjailByVoucher, JailType, bidVars, clockVars
<1>7. CASE \E u \in Validators : ChangeVouch(u, v)
  <2>1. PICK u \in Validators : ChangeVouch(u, v)
    BY <1>7
  <2>2. vouchers' \in [Validators -> SUBSET Validators]
    BY <2>1 DEF TypeOK, ChangeVouch
  <2> QED
    BY <1>1, <2>1, <2>2 DEF TypeOK, ChangeVouch, setVars, clockVars
<1> QED
  BY <1>2, <1>3, <1>4, <1>5, <1>6, <1>7

\* Governance preserves the types.
LEMMA GovernanceTxTypeOK ==
  ASSUME TypeOK, GovernanceTx
  PROVE  TypeOK'
<1>1. txs' \in Nat
  <2>1. CountTx
    BY DEF GovernanceTx, BumpEpoch, SetValidators, RemoveValidators
  <2> QED
    BY <2>1 DEF CountTx, TypeOK
<1>2. CASE BumpEpoch
  BY <1>1, <1>2 DEF TypeOK, BumpEpoch, setVars, bidVars
<1>3. CASE \E list \in SUBSET (Validators \cup Strangers) : SetValidators(list)
  <2>1. PICK list \in SUBSET (Validators \cup Strangers) : SetValidators(list)
    BY <1>3
  <2>2. active' \subseteq registered /\ perf' \in PerfType
    BY <2>1, NoProposalsType DEF SetValidators, Reconfigured
  <2>3. seats' \in Nat
    BY <2>1, ListFinite DEF SetValidators
  <2> QED
    BY <1>1, <2>1, <2>2, <2>3 DEF TypeOK, SetValidators, PerfType, bidVars, clockVars
<1>4. CASE \E dead \in SUBSET Validators : RemoveValidators(dead)
  <2>1. PICK dead \in SUBSET Validators : RemoveValidators(dead)
    BY <1>4
  <2>2. active' \subseteq registered /\ perf' \in PerfType
    BY <2>1, NoProposalsType DEF RemoveValidators, Reconfigured
  <2> QED
    BY <1>1, <2>1, <2>2 DEF TypeOK, RemoveValidators, PerfType, bidVars, clockVars
<1> QED
  BY <1>2, <1>3, <1>4 DEF GovernanceTx

\* Every step preserves the types.
LEMMA StepTypeOK == TypeOK /\ [Next]_vars => TypeOK'
<1> SUFFICES ASSUME TypeOK, [Next]_vars PROVE TypeOK'
  OBVIOUS
<1>1. CASE AnyBlocks
  BY <1>1, BlocksTypeOK DEF AnyBlocks
<1>2. CASE UNCHANGED vars
  BY <1>2 DEF TypeOK, vars, setVars, bidVars, clockVars
<1> QED
  BY <1>1, <1>2, TriggerTypeOK, ValidatorTxTypeOK, GovernanceTxTypeOK DEF Next

\* Every reachable state is well typed: in particular the active validators
\* are registered, so the index loop of maybe_reconfigure and the lookups of
\* grade.move find a config for each of them.
THEOREM ValidatorSetType == Spec => []TypeOK
<1>1. Init => TypeOK
  BY InitTypeOK
<1>2. TypeOK /\ [Next]_vars => TypeOK'
  BY StepTypeOK
<1> QED
  BY <1>1, <1>2, PTL DEF Spec
-----------------------------------------------------------------------------
(***************************************************************************)
(* The seats                                                               *)
(***************************************************************************)

\* Every step preserves SeatsCoverSet.
LEMMA StepSeats == TypeOK /\ SeatsCoverSet /\ [Next]_vars => SeatsCoverSet'
<1> SUFFICES ASSUME TypeOK, SeatsCoverSet, [Next]_vars PROVE SeatsCoverSet'
  OBVIOUS
<1>1. CASE AnyBlocks
  BY <1>1 DEF AnyBlocks, NewBlocks, SeatsCoverSet
<1>2. CASE TriggerEpoch
  <2>1. PICK fees \in BOOLEAN, winners \in SUBSET Validators, set \in SUBSET registered :
            BoundaryFacts(fees, winners, set)
    BY <1>2, BoundaryWitness
  <2>2. active' = set /\ seats' = Cardinality(set)
    BY <2>1 DEF BoundaryFacts, Reconfigured, SeatsAfter
  <2>3. set \in SUBSET Validators
    BY DEF TypeOK
  <2>4. Cardinality(set) \in Nat
    BY <2>3, CardNat
  <2> QED
    BY <2>2, <2>4 DEF SeatsCoverSet
<1>3. CASE ValidatorTx
  BY <1>3 DEF ValidatorTx, RegisterValidator, UpdateBid, RetractBid, UnjailByVoucher,
              ChangeVouch, SeatsCoverSet, setVars
<1>4. CASE BumpEpoch
  BY <1>4 DEF BumpEpoch, SeatsCoverSet, setVars
<1>5. CASE \E list \in SUBSET (Validators \cup Strangers) : SetValidators(list)
  BY <1>5, ListFinite DEF SetValidators, Reconfigured, SeatsCoverSet
<1>6. CASE \E dead \in SUBSET Validators : RemoveValidators(dead)
  <2>1. PICK dead \in SUBSET Validators : RemoveValidators(dead)
    BY <1>6
  <2>2. active' = active \ dead /\ seats' = seats
    BY <2>1 DEF RemoveValidators, Reconfigured
  <2>3. active \in SUBSET Validators /\ active \ dead \in SUBSET Validators
    BY DEF TypeOK
  <2>4. /\ IsFiniteSet(active)
        /\ Cardinality(active) \in Nat
        /\ Cardinality(active \ dead) \in Nat
    BY <2>3, CardNat
  <2>5. active \ dead \subseteq active
    OBVIOUS
  <2>6. Cardinality(active \ dead) <= Cardinality(active)
    BY <2>4, <2>5, FS_Subset
  <2> QED
    BY <2>2, <2>4, <2>6 DEF SeatsCoverSet, TypeOK
<1>7. CASE UNCHANGED vars
  BY <1>7 DEF vars, setVars, SeatsCoverSet
<1> QED
  BY <1>1, <1>2, <1>3, <1>4, <1>5, <1>6, <1>7 DEF Next, GovernanceTx

\* No epoch has more validators than musical chairs has seats, whatever list
\* governance proposes and whomever it removes: stop_the_music never takes its
\* early return.
THEOREM SeatsCoverTheSet == Spec => []SeatsCoverSet
<1>1. Init => SeatsCoverSet
  <2>1. Genesis \in SUBSET Validators
    BY ValidatorSetAssumption
  <2>2. Cardinality(Genesis) \in Nat
    BY <2>1, CardNat
  <2> QED
    BY <2>2 DEF Init, SeatsCoverSet
<1>2. TypeOK /\ SeatsCoverSet /\ [Next]_vars => SeatsCoverSet'
  BY StepSeats
<1> QED
  BY <1>1, <1>2, ValidatorSetType, PTL DEF Spec

-----------------------------------------------------------------------------
(***************************************************************************)
(* What a boundary does to the set                                         *)
(***************************************************************************)

\* Only the trigger closes an epoch with a boundary.
LEMMA OnlyTrigger ==
  ASSUME [Next]_vars, BoundaryStep
  PROVE  TriggerEpoch
  BY DEF BoundaryStep, Next, AnyBlocks, NewBlocks, ValidatorTx, RegisterValidator,
         UpdateBid, RetractBid, UnjailByVoucher, ChangeVouch, GovernanceTx, BumpEpoch,
         SetValidators, RemoveValidators, vars, clockVars

\* The seats offered lie between the minimum and one more than there were.
LEMMA SeatsOfferedBounds ==
  ASSUME TypeOK, SeatsCoverSet, NEW c \in Nat
  PROVE  /\ SeatsToOffer(c) \in Nat
         /\ SeatsToOffer(c) >= MinSeats
         /\ SeatsToOffer(c) <= Max2(seats + 1, MinSeats)
<1>1. active \in SUBSET Validators /\ CompliantVals(c) \in SUBSET active
  BY DEF TypeOK, CompliantVals
<1>2. IsFiniteSet(active) /\ Cardinality(active) \in Nat
  BY <1>1, CardNat
<1>3. CompliantVals(c) \in SUBSET Validators
  BY <1>1
<1>4. Cardinality(CompliantVals(c)) \in Nat
  BY <1>3, CardNat
<1>5. Cardinality(CompliantVals(c)) <= Cardinality(active)
  BY <1>1, <1>2, FS_Subset
<1>6. MinSeats \in Nat /\ seats \in Nat
  BY ValidatorSetAssumption DEF TypeOK
<1> QED
  BY <1>2, <1>4, <1>5, <1>6 DEF SeatsCoverSet, SeatsToOffer, Max2

\* The auction fills no more seats than are offered.
LEMMA AuctionSizeBound ==
  ASSUME NEW n \in Nat, NEW o \in Nat, o >= MinSeats
  PROVE  CompetitiveSetSize(n, o) \in Int /\ CompetitiveSetSize(n, o) <= o
<1>1. CompetitivePct \in Nat /\ MinSeats \in Nat
  BY ValidatorSetAssumption
<1>2. n * CompetitivePct \in Nat
  BY <1>1
<1>3. (n * CompetitivePct) \div 100 \in Nat
  BY <1>2, DivNat
<1> QED
  BY <1>1, <1>3 DEF CompetitiveSetSize, Min2

\* The failover rules return the winners, the current set, or winners and
\* proposers up to the target.
LEMMA FailoverShape ==
  ASSUME TypeOK, NEW p \in SUBSET Validators, NEW o \in Nat,
         NEW set \in FailoverOutcomes(p, o)
  PROVE  set = p \/ set = active \/ Cardinality(set) <= FailoverTarget(o)
<1>1. IsFiniteSet(p) /\ Cardinality(p) \in Nat
  BY CardNat
<1>2. FailoverTarget(o) \in Nat
  BY TargetBounds
<1>3. CASE Cardinality(p) > HealthyThreshold \/ Cardinality(p) >= FailoverTarget(o)
  BY <1>3 DEF FailoverOutcomes
<1>4. CASE ~(Cardinality(p) > HealthyThreshold \/ Cardinality(p) >= FailoverTarget(o))
  <2>1. PICK t \in TopProposers(FailoverTarget(o) - Cardinality(p)) :
            set = IF Cardinality(p \cup t) >= MinSeats THEN p \cup t ELSE active
    BY <1>4 DEF FailoverOutcomes
  <2>2. t \in SUBSET Validators /\ active \in SUBSET Validators
    BY DEF TopProposers, TopRanked, TypeOK
  <2>3. Cardinality(t) <= FailoverTarget(o) - Cardinality(p)
    <3>1. Cardinality(active) \in Nat
      BY <2>2, CardNat
    <3> QED
      BY <1>1, <1>2, <3>1 DEF TopProposers, TopRanked
  <2>4. IsFiniteSet(t) /\ Cardinality(t) \in Nat
    BY <2>2, CardNat
  <2>5. p \cap t \in SUBSET Validators
    OBVIOUS
  <2>6. Cardinality(p \cap t) \in Nat
    BY <2>5, CardNat
  <2>7. Cardinality(p \cup t) = Cardinality(p) + Cardinality(t) - Cardinality(p \cap t)
    BY <1>1, <2>4, FS_Union
  <2>8. Cardinality(p \cup t) <= FailoverTarget(o)
    BY <1>1, <1>2, <2>3, <2>4, <2>6, <2>7
  <2> QED
    BY <2>1, <2>8
<1> QED
  BY <1>3, <1>4

\* No boundary shrinks the validator set below the minimum: for every grading,
\* every auction and every seat count the failover rules either reach the
\* minimum or leave the set alone.
THEOREM BoundaryLeavesViableSet == Spec => ViableSet
<1>1. TypeOK /\ [Next]_vars =>
        (BoundaryStep => active' = active \/ Cardinality(active') >= MinSeats)
  <2> SUFFICES ASSUME TypeOK, [Next]_vars, BoundaryStep
               PROVE  active' = active \/ Cardinality(active') >= MinSeats
    OBVIOUS
  <2>1. TriggerEpoch
    BY OnlyTrigger
  <2>2. PICK fees \in BOOLEAN, winners \in SUBSET Validators, set \in SUBSET registered :
            BoundaryFacts(fees, winners, set)
    BY <2>1, BoundaryWitness
  <2>3. active' = set /\ set \in FailoverOutcomes(winners, SeatsToOffer(bit.closing))
    BY <2>2 DEF BoundaryFacts, Reconfigured
  <2>4. SeatsToOffer(bit.closing) \in Nat
    BY SeatsToOfferNat DEF TypeOK
  <2> QED
    BY <2>3, <2>4, FailoverViable
<1> QED
  BY <1>1, ValidatorSetType, PTL DEF Spec, ViableSet

\* A boundary seats at most one validator more than there were seats, or the
\* minimum, and counts the seats anew.  The bound needs SeatsCoverSet: musical
\* chairs adds one to the seats of the closing epoch, and the failover rules
\* may keep the whole set of it.
THEOREM BoundaryGrowsByOne == Spec => SeatsGrowByOne
<1>1. TypeOK /\ SeatsCoverSet /\ [Next]_vars =>
        (BoundaryStep => /\ Cardinality(active') <= Max2(seats + 1, MinSeats)
                         /\ seats' = Cardinality(active'))
  <2> SUFFICES ASSUME TypeOK, SeatsCoverSet, [Next]_vars, BoundaryStep
               PROVE  /\ Cardinality(active') <= Max2(seats + 1, MinSeats)
                      /\ seats' = Cardinality(active')
    OBVIOUS
  <2> DEFINE offered == SeatsToOffer(bit.closing)
  <2>1. TriggerEpoch
    BY OnlyTrigger
  <2>2. PICK fees \in BOOLEAN, winners \in SUBSET Validators, set \in SUBSET registered :
            BoundaryFacts(fees, winners, set)
    BY <2>1, BoundaryWitness
  <2>3. /\ active' = set /\ set \in FailoverOutcomes(winners, offered)
        /\ seats' = Cardinality(set)
    BY <2>2 DEF BoundaryFacts, Reconfigured, SeatsAfter
  <2>4. /\ offered \in Nat
        /\ offered >= MinSeats
        /\ offered <= Max2(seats + 1, MinSeats)
    BY SeatsOfferedBounds DEF TypeOK
  <2>5. PICK n \in Nat : Cardinality(winners) <= CompetitiveSetSize(n, offered)
    BY <2>2 DEF BoundaryFacts
  <2>6. CompetitiveSetSize(n, offered) \in Int /\ CompetitiveSetSize(n, offered) <= offered
    BY <2>4, AuctionSizeBound
  <2>7. /\ MinSeats \in Nat /\ seats \in Nat
        /\ Cardinality(winners) \in Nat /\ Cardinality(active) \in Nat
        /\ Cardinality(active) <= seats
    BY CardNat, ValidatorSetAssumption DEF TypeOK, SeatsCoverSet
  <2>8. FailoverTarget(offered) \in Nat /\ FailoverTarget(offered) <= offered
    BY <2>4, <2>7, TargetBounds DEF Max2
  <2>9. set \in SUBSET Validators
    BY DEF TypeOK
  <2>10. Cardinality(set) \in Nat
    BY <2>9, CardNat
  <2>11. set = winners \/ set = active \/ Cardinality(set) <= FailoverTarget(offered)
    BY <2>3, <2>4, FailoverShape
  <2> HIDE DEF offered
  <2>12. CASE set = winners
    BY <2>3, <2>4, <2>5, <2>6, <2>7, <2>12 DEF Max2
  <2>13. CASE set = active
    BY <2>3, <2>7, <2>13 DEF Max2
  <2>14. CASE Cardinality(set) <= FailoverTarget(offered)
    BY <2>3, <2>4, <2>7, <2>8, <2>10, <2>14 DEF Max2
  <2> QED
    BY <2>11, <2>12, <2>13, <2>14
<1> QED
  BY <1>1, ValidatorSetType, SeatsCoverTheSet, PTL DEF Spec, SeatsGrowByOne

(***************************************************************************)
(* A jailed validator is seated only when the failover rules fall back on  *)
(* the set of the closing epoch: the audit keeps it out of the auction,    *)
(* and a set the rules fill up is never larger than the healthy threshold. *)
(***************************************************************************)
THEOREM JailedSeatedOnlyInFailover == Spec => JailedOnlyInFailover
<1>1. TypeOK /\ [Next]_vars =>
        (BoundaryStep =>
          \A v \in active' : jail'[v].jailed =>
            /\ v \in active
            /\ active' = active \/ Cardinality(active') <= HealthyThreshold)
  <2> SUFFICES ASSUME TypeOK, [Next]_vars, BoundaryStep,
                      NEW v \in active', jail'[v].jailed
               PROVE  /\ v \in active
                      /\ active' = active \/ Cardinality(active') <= HealthyThreshold
    OBVIOUS
  <2> DEFINE offered == SeatsToOffer(bit.closing)
  <2>1. PICK fees \in BOOLEAN, winners \in SUBSET Validators, set \in SUBSET registered :
            BoundaryFacts(fees, winners, set)
    BY OnlyTrigger, BoundaryWitness
  <2>2. /\ active' = set
        /\ set \in FailoverOutcomes(winners, offered)
        /\ v \notin winners
    BY <2>1 DEF BoundaryFacts, Reconfigured
  <2>3. offered \in Nat
    BY SeatsToOfferNat DEF TypeOK
  <2>4. set \subseteq winners \cup active
    BY <2>2, <2>3, FailoverSubset
  <2>5. set = winners \/ set = active \/ Cardinality(set) <= FailoverTarget(offered)
    BY <2>2, <2>3, FailoverShape
  <2>6. /\ FailoverTarget(offered) \in Nat
        /\ HealthyThreshold \in Nat
        /\ FailoverTarget(offered) <= HealthyThreshold
    BY <2>3, TargetBounds, ValidatorSetAssumption DEF FailoverTarget, Min2, Max2
  <2>7. Cardinality(set) \in Nat
    <3>1. set \in SUBSET Validators
      BY DEF TypeOK
    <3> QED
      BY <3>1, CardNat
  <2> HIDE DEF offered
  <2>8. active' = active \/ Cardinality(set) <= HealthyThreshold
    BY <2>2, <2>5, <2>6, <2>7
  <2> QED
    BY <2>2, <2>4, <2>8
<1> QED
  BY <1>1, ValidatorSetType, PTL DEF Spec, JailedOnlyInFailover

(***************************************************************************)
(* Newcomers come from the auction: they bid, they are vouched for by the  *)
(* closing set, and they take at most a third of the seats offered.        *)
(***************************************************************************)
THEOREM NewcomersComeFromAuction == Spec => NewcomersQualified
<1>1. TypeOK /\ SeatsCoverSet /\ [Next]_vars =>
        (BoundaryStep =>
          /\ 3 * Cardinality((active' \ active) \cup (status' \ CompliantVals(bit.closing)))
                  <= SeatsToOffer(bit.closing)
          /\ \A v \in active' \ active :
              /\ CurrentBid(v) > 0
              /\ Cardinality(vouchers[v] \cap active) >= MinVouchesRequired)
  <2> SUFFICES ASSUME TypeOK, SeatsCoverSet, [Next]_vars, BoundaryStep
               PROVE  /\ 3 * Cardinality((active' \ active) \cup (status' \ CompliantVals(bit.closing)))
                  <= SeatsToOffer(bit.closing)
                      /\ \A v \in active' \ active :
                          /\ CurrentBid(v) > 0
                          /\ Cardinality(vouchers[v] \cap active) >= MinVouchesRequired
    OBVIOUS
  <2> DEFINE offered   == SeatsToOffer(bit.closing)
             newcomers == active' \ active
             unproven(w) == w \ CompliantVals(bit.closing)
  <2>1. PICK fees \in BOOLEAN, winners \in SUBSET Validators, set \in SUBSET registered :
            BoundaryFacts(fees, winners, set)
    BY OnlyTrigger, BoundaryWitness
  <2>2. active' = set /\ set \in FailoverOutcomes(winners, offered)
    BY <2>1 DEF BoundaryFacts, Reconfigured
  <2>3. offered \in Nat /\ offered >= MinSeats
    BY SeatsOfferedBounds DEF TypeOK
  <2>4. set \subseteq winners \cup active
    BY <2>2, <2>3, FailoverSubset
  <2>5. newcomers \subseteq winners
    BY <2>2, <2>4
  <2>6. newcomers \subseteq unproven(winners)
    BY <2>5 DEF CompliantVals
  <2>7. \A v \in newcomers : /\ CurrentBid(v) > 0
                             /\ Cardinality(vouchers[v] \cap active) >= MinVouchesRequired
    <3> TAKE v \in newcomers
    <3>1. /\ CurrentBid(v) # 0
          /\ Cardinality(vouchers[v] \cap active) >= MinVouchesRequired
      BY <2>1, <2>5 DEF BoundaryFacts
    <3>2. v \in Validators
      BY <2>5
    <3>3. CurrentBid(v) \in Nat
      BY <3>2, CurrentBidNat
    <3> QED
      BY <3>1, <3>3
  <2>8. PICK n \in Nat :
            Cardinality(unproven(winners)) <= CompetitiveSetSize(n, offered) \div 3
    BY <2>1 DEF BoundaryFacts
  <2>9. CompetitiveSetSize(n, offered) \in Int /\ CompetitiveSetSize(n, offered) <= offered
    BY <2>3, AuctionSizeBound
  <2>10. newcomers \cup unproven(status') = unproven(winners)
    BY <2>1, <2>6 DEF BoundaryFacts
  <2>11. Cardinality(unproven(winners)) \in Nat
    <3>1. unproven(winners) \in SUBSET Validators
      OBVIOUS
    <3> QED
      BY <3>1, CardNat
  <2> HIDE DEF offered, newcomers, unproven
  <2>12. 3 * Cardinality(unproven(winners)) <= offered
    <3> DEFINE size == CompetitiveSetSize(n, offered)
    <3>1. size \in Int /\ size <= offered /\ Cardinality(unproven(winners)) <= size \div 3
      BY <2>8, <2>9
    <3> HIDE DEF size
    <3> QED
      BY <2>3, <2>11, <3>1
  <2> QED
    BY <2>7, <2>10, <2>12 DEF offered, newcomers, unproven
<1> QED
  BY <1>1, ValidatorSetType, SeatsCoverTheSet, PTL DEF Spec, NewcomersQualified

-----------------------------------------------------------------------------
(***************************************************************************)
(* The epoch trigger                                                       *)
(***************************************************************************)

(***************************************************************************)
(* FullIntervalBetweenBoundaries speaks of the blocks since the last       *)
(* boundary, the VM counts since the last reconfiguration.  The strengthe- *)
(* ning relates them: the VM's count runs behind, also after a governance  *)
(* bump, and the trigger is armed only after a full interval.              *)
(***************************************************************************)
IntervalInv ==
    /\ sinceEnd <= EpochInterval
    /\ since <= sinceEnd \/ sinceEnd = EpochInterval
    /\ bit.ready => sinceEnd = EpochInterval

\* Every step preserves IntervalInv.
LEMMA StepInterval ==
  ASSUME TypeOK, IntervalInv, [Next]_vars
  PROVE  IntervalInv'
<1>1. EpochInterval \in Nat \ {0}
  BY ValidatorSetAssumption
<1>2. CASE AnyBlocks
  BY <1>1, <1>2 DEF AnyBlocks, NewBlocks, IntervalInv, TypeOK, Min2
<1>3. CASE TriggerEpoch
  BY <1>1, <1>3 DEF TriggerEpoch, IntervalInv, TypeOK, Disarmed
<1>4. CASE ValidatorTx \/ UNCHANGED vars
  BY <1>4 DEF ValidatorTx, RegisterValidator, UpdateBid, RetractBid, UnjailByVoucher,
              ChangeVouch, IntervalInv, vars, clockVars
<1>5. CASE BumpEpoch
  BY <1>1, <1>5 DEF BumpEpoch, IntervalInv, TypeOK
<1>6. CASE GovernanceTx /\ ~BumpEpoch
  <2>1. UNCHANGED clockVars
    BY <1>6 DEF GovernanceTx, SetValidators, RemoveValidators
  <2> QED
    BY <2>1 DEF clockVars, IntervalInv
<1> QED
  BY <1>2, <1>3, <1>4, <1>5, <1>6 DEF Next

\* Nobody can end an epoch twice in one interval, whatever governance does.
THEOREM BoundariesAnIntervalApart == Spec => FullIntervalBetweenBoundaries
<1>1. Init => IntervalInv
  BY ValidatorSetAssumption DEF Init, IntervalInv
<1>2. IntervalInv /\ [Next]_vars => (BoundaryStep => sinceEnd >= EpochInterval)
  <2> SUFFICES ASSUME IntervalInv, [Next]_vars, BoundaryStep
               PROVE  sinceEnd >= EpochInterval
    OBVIOUS
  <2>1. TriggerEpoch
    BY OnlyTrigger
  <2> QED
    BY <2>1, ValidatorSetAssumption DEF TriggerEpoch, CanTrigger, IntervalInv
<1> QED
  BY <1>1, <1>2, ValidatorSetType, StepInterval, PTL
  DEF Spec, FullIntervalBetweenBoundaries

-----------------------------------------------------------------------------
(***************************************************************************)
(* The boundary implements the clock of the epochs                         *)
(***************************************************************************)

\* A run of blocks is a block of the clock: the VM's count, cut off at the
\* interval, and the history of the last boundary both advance by a tick.
LEMMA BlocksTick ==
  ASSUME TypeOK, IntervalInv, AnyBlocks
  PROVE  Clock!Block
<1>1. EpochInterval \in Nat \ {0}
  BY ValidatorSetAssumption
<1>2. PICK proposers, failed \in SUBSET active : NewBlocks(proposers, failed)
  BY DEF AnyBlocks
<1>3. since \in Nat /\ sinceEnd \in Nat /\ sinceEnd <= EpochInterval
  BY DEF TypeOK, IntervalInv
<1>4. Min2(since, EpochInterval)' = Clock!Tick(Min2(since, EpochInterval))
  BY <1>1, <1>2, <1>3 DEF NewBlocks, Min2, Clock!Tick
<1>5. sinceEnd' = Clock!Tick(sinceEnd)
  BY <1>1, <1>2, <1>3 DEF NewBlocks, Min2, Clock!Tick
<1>6. bit.ready' = (bit.ready \/ Min2(since, EpochInterval)' = EpochInterval)
  <2>1. bit.ready \in BOOLEAN
    BY DEF TypeOK
  <2>2. CASE since' >= EpochInterval
    <3>1. bit'.ready = TRUE
      BY <1>2, <2>2 DEF NewBlocks
    <3>2. Min2(since', EpochInterval) = EpochInterval
      BY <1>1, <1>2, <1>3, <2>2 DEF NewBlocks, Min2
    <3> QED
      BY <3>1, <3>2 DEF Min2
  <2>3. CASE ~(since' >= EpochInterval)
    <3>1. bit' = bit
      BY <1>2, <2>3 DEF NewBlocks
    <3>2. Min2(since', EpochInterval) # EpochInterval
      BY <1>1, <1>2, <1>3, <2>3 DEF NewBlocks, Min2
    <3> QED
      BY <2>1, <3>1, <3>2 DEF Min2
  <2> QED
    BY <2>2, <2>3
<1>7. UNCHANGED epoch
  BY <1>2 DEF NewBlocks
<1> QED
  BY <1>4, <1>5, <1>6, <1>7 DEF Clock!Block

\* A whole boundary is one pull of the trigger.
LEMMA TriggerPulls ==
  ASSUME TypeOK, TriggerEpoch
  PROVE  Clock!Pull
<1>1. EpochInterval \in Nat \ {0} /\ since \in Nat
  BY ValidatorSetAssumption DEF TypeOK
<1>2. bit.ready /\ since > 0 /\ epoch < MaxEpoch /\ epoch' = epoch + 1
  BY DEF TriggerEpoch, CanTrigger
<1>3. bit'.ready = FALSE
  BY DEF TriggerEpoch, Disarmed, TypeOK
<1>4. since' = 0 /\ sinceEnd' = 0
  BY DEF TriggerEpoch
<1>5. Min2(since, EpochInterval) > 0 /\ Min2(since', EpochInterval) = 0
  BY <1>1, <1>2, <1>4 DEF Min2
<1> QED
  BY <1>2, <1>3, <1>4, <1>5 DEF Clock!Pull, Min2

\* Every step of the validator set is a step of the clock or leaves it alone.
LEMMA StepClock ==
  ASSUME TypeOK, IntervalInv, [Next]_vars
  PROVE  [Clock!ClockNext]_(Clock!clock)
<1>1. EpochInterval \in Nat \ {0} /\ since \in Nat
  BY ValidatorSetAssumption DEF TypeOK
<1>2. CASE AnyBlocks
  BY <1>2, BlocksTick DEF Clock!ClockNext
<1>3. CASE TriggerEpoch
  BY <1>3, TriggerPulls DEF Clock!ClockNext
<1>4. CASE BumpEpoch
  <2>1. since > 0 /\ since' = 0 /\ epoch < MaxEpoch /\ epoch' = epoch + 1
    BY <1>4 DEF BumpEpoch
  <2>2. Min2(since, EpochInterval) > 0 /\ Min2(since', EpochInterval) = 0
    BY <1>1, <2>1 DEF Min2
  <2> QED
    BY <1>4, <2>1, <2>2 DEF BumpEpoch, Clock!Bump, Clock!ClockNext, Min2
<1>5. CASE \/ ValidatorTx \/ UNCHANGED vars
          \/ \E list \in SUBSET (Validators \cup Strangers) : SetValidators(list)
          \/ \E dead \in SUBSET Validators : RemoveValidators(dead)
  <2>1. UNCHANGED clockVars
    BY <1>5 DEF ValidatorTx, RegisterValidator, UpdateBid, RetractBid, UnjailByVoucher,
                ChangeVouch, SetValidators, RemoveValidators, vars
  <2> QED
    BY <2>1 DEF clockVars, Clock!clock, Min2
<1> QED
  BY <1>2, <1>3, <1>4, <1>5 DEF Next, GovernanceTx

\* The boundary with all that it does, under every transaction of validators
\* and of governance, implements the abstract clock of the epochs: the safety
\* part of ImplementsClock, for every set of validators.
THEOREM ValidatorSetImplementsClock == Spec => Clock!ClockSpec
<1>1. Init => IntervalInv
  BY ValidatorSetAssumption DEF Init, IntervalInv
<1>2. Init => Clock!ClockInit
  BY ValidatorSetAssumption DEF Init, Clock!ClockInit, Min2
<1> QED
  BY <1>1, <1>2, ValidatorSetType, StepInterval, StepClock, PTL
  DEF Spec, Clock!ClockSpec
=============================================================================
