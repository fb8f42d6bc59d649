----------------------------- MODULE MultiAction -----------------------------
(***************************************************************************)
(* Who signs for a community wallet: the sponsor offers seats, the offered *)
(* claim them, the sponsor cages the account, and from then on the         *)
(* authorities vote members in and out (multi_action, and the entry        *)
(* functions of community_wallet_init that lead to it).                    *)
(*                                                                         *)
(* Every candidate has an account and is not the wallet.  The account's    *)
(* own multisig transactions (multisig_account) are not part of the model, *)
(* nor are scripts that call multi_action around the entry functions.      *)
(***************************************************************************)
EXTENDS Turnout, Sequences, FiniteSets

CONSTANTS
  Candidates,
  Family,         \* pairs that ancestry finds to be related
  SigChoices,     \* thresholds that a caller asks for
  VoteDays,       \* durations that a proposer asks for
  OfferDays,      \* DEFAULT_EPOCHS_OFFER_EXPIRE
  MINIMUM_SIGS, MINIMUM_AUTH,
  MIN_OFFER_CLAIMS_TO_CAGE, MAX_OFFER_ADDRESSES,
  MaxEpoch,       \* bound: the epoch counter stops here
  MaxProposals    \* bound: proposals that are pending or have passed

ASSUME MultiActionAssumption ==
  /\ IsFiniteSet(Candidates)
  /\ Family \subseteq SUBSET Candidates
  /\ SigChoices \subseteq Nat /\ VoteDays \subseteq Nat /\ OfferDays \in Nat \ {0}
  /\ MINIMUM_SIGS \in Nat \ {0} /\ MINIMUM_AUTH \in Nat
  /\ MIN_OFFER_CLAIMS_TO_CAGE \in Nat /\ MAX_OFFER_ADDRESSES \in Nat
  /\ MaxEpoch \in Nat /\ MaxProposals \in Nat

VARIABLES
  epoch,
  caged,       \* the account is a multisig
  owners,      \* MultisigAccount.owners
  sigs,        \* MultisigAccount.num_signatures_required
  offered,     \* Offer.proposed and expiration_epoch: at is the order of the list
  claimed,     \* Offer.claimed: how often each address stands in the list
  nOfM,        \* Offer.proposed_n_of_m, 0 for none
  proposals,   \* Action<PropGovSigners>: the pending list
  founders,    \* history: the owners at the cage
  foundingSigs,\* history: the threshold at the cage
  passed,      \* history: what was decided
  decided      \* history: how many proposals have passed

offerVars == <<offered, claimed, nOfM>>
seatVars == <<caged, owners, sigs>>
history == <<founders, foundingSigs, passed, decided>>
vars == <<epoch, seatVars, offerVars, proposals, history>>

PropGovSigners == [addr : Candidates, add : BOOLEAN, n : SigChoices]
Entry == [at : Nat, addr : Candidates, expires : Nat]
Proposal == [data : PropGovSigners, votes : SUBSET Candidates, expires : Nat]

\* ancestry::any_family_in_list
AnyFamily(set) == \E f \in Family : f \subseteq set

\* init_gov, before the sponsor makes an offer
Init ==
  /\ epoch = 0
  /\ caged = FALSE /\ owners = {} /\ sigs = 0
  /\ offered = {} /\ claimed = [x \in Candidates |-> 0] /\ nOfM = 0
  /\ proposals = {}
  /\ founders = {} /\ foundingSigs = 0 /\ passed = {} /\ decided = 0

NextEpoch ==
  /\ epoch' = IF epoch < MaxEpoch THEN epoch + 1 ELSE epoch
  /\ UNCHANGED <<seatVars, offerVars, proposals, history>>

-----------------------------------------------------------------------------
(* Before the cage: the sponsor's offer *)

\* the lists of distinct addresses that check_proposed_auths and
\* ensure_valid_propose_offer_params let through
Lists ==
  {p \in UNION {[1..k -> Candidates] : k \in MINIMUM_AUTH..MAX_OFFER_ADDRESSES} :
     /\ \A i, j \in DOMAIN p : p[i] = p[j] => i = j
     /\ ~ AnyFamily({p[i] : i \in DOMAIN p})}

(***************************************************************************)
(* remove_new_proposed_addresses_already_claimed.  The loop counts up      *)
(* after a removal too, so that the address after a removed one is never   *)
(* looked at and stays.                                                    *)
(***************************************************************************)
StillOffered(p, c) ==
  LET removed[i \in DOMAIN p] ==
        c[p[i]] > 0 /\ (IF i = 1 THEN TRUE ELSE ~ removed[i - 1])
  IN {p[i] : i \in {j \in DOMAIN p : ~ removed[j]}}

\* update_offer: claims of those left out are dropped, and the offer is what
\* remains of the list, with a new expiry
ProposeOffer(p) ==
  LET kept == [x \in Candidates |-> IF \E i \in DOMAIN p : p[i] = x THEN claimed[x] ELSE 0]
  IN /\ ~ caged
     /\ claimed' = kept
     /\ offered' = {[at |-> 0, addr |-> x, expires |-> epoch + OfferDays] :
                       x \in StillOffered(p, kept)}
     /\ UNCHANGED <<epoch, seatVars, nOfM, proposals, history>>

\* validate_claim_offer: e is the first entry of x in the list
Claimable(x, e) ==
  /\ e \in offered /\ e.addr = x
  /\ \A f \in offered : f.addr = x => e.at <= f.at
  /\ epoch < e.expires
  /\ claimed[x] = 0

\* claim_offer, b) initiated account
ClaimOffer(x) ==
  \E e \in offered :
    /\ ~ caged
    /\ Claimable(x, e)
    /\ offered' = offered \ {e}
    /\ claimed' = [claimed EXCEPT ![x] = @ + 1]
    /\ UNCHANGED <<epoch, seatVars, nOfM, proposals, history>>

\* multisig_thresh
MultisigThresh(n, m) ==
  /\ n >= MINIMUM_SIGS /\ m >= MINIMUM_AUTH
  /\ FixedMul(100, n, m) >= FixedMul(100, MINIMUM_SIGS, MINIMUM_AUTH)

Claimers == {x \in Candidates : claimed[x] > 0}

\* has_enough_offer_claimed, migrate_with_owners, and the checks that
\* community_wallet_init makes after it
CanCage(n) ==
  /\ ~ caged
  /\ \A x \in Candidates : claimed[x] <= 1
  /\ Cardinality(Claimers) >= MIN_OFFER_CLAIMS_TO_CAGE
  /\ n > 0 /\ n <= Cardinality(Claimers)
  /\ MultisigThresh(n, Cardinality(Claimers))
  /\ ~ AnyFamily(Claimers)

\* Mutant: the offer is not cleaned
FinalizeAndCageKeepsOffer(n) ==
  /\ CanCage(n)
  /\ caged' = TRUE /\ owners' = Claimers /\ sigs' = n
  /\ claimed' = [x \in Candidates |-> 0]
  /\ founders' = Claimers /\ foundingSigs' = n
  /\ UNCHANGED <<epoch, offered, nOfM, proposals, passed, decided>>

FinalizeAndCage(n) ==
  /\ CanCage(n)
  /\ caged' = TRUE /\ owners' = Claimers /\ sigs' = n
  /\ offered' = {} /\ claimed' = [x \in Candidates |-> 0] /\ nOfM' = 0
  /\ founders' = Claimers /\ foundingSigs' = n
  /\ UNCHANGED <<epoch, proposals, passed, decided>>

-----------------------------------------------------------------------------
(* After the cage: change_signer_community_multisig, proposal and vote      *)

\* Mutant: members are counted when the change is made, not before
CanChangeUncounted(a, d) ==
  /\ caged /\ a \in owners
  /\ d.n >= MINIMUM_SIGS
  /\ d.add => d.addr \notin owners /\ \A o \in owners : {o, d.addr} \notin Family
  /\ ~ d.add => d.addr \in owners

\* the checks of the entry function, made again at every vote, and those of
\* assert_authorized and validate_owners
CanChange(a, d) ==
  /\ caged /\ a \in owners
  /\ d.n >= MINIMUM_SIGS
  /\ d.add => d.addr \notin owners /\ \A o \in owners : {o, d.addr} \notin Family
  /\ ~ d.add => d.addr \in owners /\ Cardinality(owners) - 1 >= MINIMUM_AUTH

\* lazy_cleanup_expired
Live == {p \in proposals : epoch <= p.expires}

\* propose_new: the pending proposal with the same data, or a new one
SameData(d) == {p \in Live : p.data = d}

NewProposal(d, days) == [data |-> d, votes |-> {}, expires |-> epoch + days]

VoteOn(a, d, days, p) ==
  /\ CanChange(a, d)
  /\ \/ p \in SameData(d)
     \/ SameData(d) = {} /\ p = NewProposal(d, days) /\ decided + Cardinality(Live) < MaxProposals
  /\ a \notin p.votes

CandidateProposals(d, days) == SameData(d) \cup {NewProposal(d, days)}

\* vote_impl and tally: not enough votes yet
Approve(a, d, days) ==
  \E p \in CandidateProposals(d, days) :
    /\ VoteOn(a, d, days, p)
    /\ Cardinality(p.votes \cup {a}) < sigs
    /\ proposals' = (Live \ {p}) \cup {[p EXCEPT !.votes = @ \cup {a}]}
    /\ UNCHANGED <<epoch, seatVars, offerVars, history>>

\* the deciding vote
Decide(a, d, days) ==
  \E p \in CandidateProposals(d, days) :
    /\ VoteOn(a, d, days, p)
    /\ Cardinality(p.votes \cup {a}) >= sigs
    /\ proposals' = Live \ {p}
    /\ passed' = passed \cup {d}
    /\ decided' = decided + 1

\* propose_voted_offer and maybe_update_threshold_after_claim
PassAddition(a, d, days) ==
  /\ d.add
  /\ Decide(a, d, days)
  /\ offered' = offered \cup
       {[at |-> decided + 1, addr |-> d.addr, expires |-> epoch + OfferDays]}
  /\ nOfM' = IF d.n # sigs THEN d.n ELSE nOfM
  /\ UNCHANGED <<epoch, seatVars, claimed, founders, foundingSigs>>

\* multi_auth_helper_update_signatures_required
AllowedSigs(n, set) == n = sigs \/ (n > 0 /\ n <= Cardinality(set))

\* multi_auth_helper_add_remove and maybe_update_threshold
PassRemoval(a, d, days) ==
  /\ ~ d.add
  /\ Decide(a, d, days)
  /\ owners' = owners \ {d.addr}
  /\ Cardinality(owners') >= sigs
  /\ AllowedSigs(d.n, owners')
  /\ sigs' = d.n
  /\ nOfM' = 0
  /\ UNCHANGED <<epoch, caged, offered, claimed, founders, foundingSigs>>

\* claim_offer, a) finalized account, while other offers are open
ClaimSeat(x) ==
  \E e \in offered :
    /\ caged
    /\ Claimable(x, e)
    /\ x \notin owners
    /\ offered # {e}
    /\ owners' = owners \cup {x}
    /\ offered' = offered \ {e}
    /\ UNCHANGED <<epoch, caged, sigs, claimed, nOfM, proposals, history>>

\* the last open offer: the voted threshold, then clean_offer
ClaimLastSeat(x) ==
  \E e \in offered :
    /\ caged
    /\ Claimable(x, e)
    /\ x \notin owners
    /\ offered = {e}
    /\ owners' = owners \cup {x}
    /\ nOfM # 0 => AllowedSigs(nOfM, owners')
    /\ sigs' = IF nOfM # 0 THEN nOfM ELSE sigs
    /\ offered' = {} /\ claimed' = [y \in Candidates |-> 0] /\ nOfM' = 0
    /\ UNCHANGED <<epoch, caged, proposals, history>>

-----------------------------------------------------------------------------
SponsorTx == (\E p \in Lists : ProposeOffer(p)) \/ (\E n \in SigChoices : FinalizeAndCage(n))

ClaimTx(x) == ClaimOffer(x) \/ ClaimSeat(x) \/ ClaimLastSeat(x)

AuthorityTx(a, d, days) ==
  Approve(a, d, days) \/ PassAddition(a, d, days) \/ PassRemoval(a, d, days)

Next ==
  \/ NextEpoch
  \/ SponsorTx
  \/ \E x \in Candidates : ClaimTx(x)
  \/ \E a \in Candidates, d \in PropGovSigners, days \in VoteDays : AuthorityTx(a, d, days)

Spec == Init /\ [][Next]_vars

-----------------------------------------------------------------------------
(* Properties *)

(* Every variable has the type of the Move resource it stands for.           *)
MultiActionTypeOK ==
  /\ epoch \in 0..MaxEpoch
  /\ caged \in BOOLEAN /\ owners \subseteq Candidates /\ sigs \in Nat
  /\ offered \subseteq Entry /\ claimed \in [Candidates -> Nat] /\ nOfM \in Nat
  /\ proposals \subseteq Proposal
  /\ founders \subseteq Candidates /\ foundingSigs \in Nat
  /\ passed \subseteq PropGovSigners /\ decided \in Nat

(* A caged wallet keeps enough authorities and can always reach its           *)
(* threshold, whatever removals, additions and thresholds are pending at     *)
(* the same time (change_signer_community_multisig, claim_offer,             *)
(* maybe_update_threshold): otherwise its coins are out of reach for good.   *)
ThresholdReachable ==
  caged => /\ Cardinality(owners) >= MINIMUM_AUTH
           /\ MINIMUM_SIGS <= sigs /\ sigs <= Cardinality(owners)

Elected == {d.addr : d \in {c \in passed : c.add}}

(* After the cage every change is voted on: authorities, and all whose vote  *)
(* is counted, are founders or elected, only the elected hold an offer, and  *)
(* the threshold, also the one that waits for claims, was voted.  Nothing    *)
(* that the sponsor left open survives the cage (finalize_and_cage).         *)
AuthoritiesElected ==
  caged => /\ owners \subseteq founders \cup Elected
           /\ \A p \in proposals : p.votes \subseteq founders \cup Elected
           /\ \A e \in offered : e.addr \in Elected
           /\ \A n \in {sigs, nOfM} \ {foundingSigs, 0} : \E d \in passed : d.n = n
=============================================================================
