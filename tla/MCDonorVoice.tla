---------------------------- MODULE MCDonorVoice ----------------------------
(* Instances of DonorVoice with one or two wallets and two donors.         *)
EXTENDS DonorVoice, TLC

CONSTANTS w1, w2, d1, d2, a1, a2, p1, p2, o1, o2

MCPayee == [o \in Orders |-> IF o = o1 THEN p1 ELSE p2]
\* the gifts cover either payment, not both
MCValue == [o \in Orders |-> IF o = o1 THEN 4 ELSE 8]

\* the first cannot be paid twice, the second is within the credit line
MCValueMixed == [o \in Orders |-> IF o = o1 THEN 900 ELSE 5]

\* one donor has a quorum alone, the other has not
MCGifts == [w \in Wallets |-> (d1 :> 9) @@ (d2 :> 1)]
\* so much that the credit line allows an advance
MCGiftsLarge == [w \in Wallets |-> (d1 :> 1500) @@ (d2 :> 100)]

Only(veto, liquidate, reauth) ==
  [k \in Kinds |-> CASE k = "veto" -> veto [] k = "liquidate" -> liquidate [] OTHER -> reauth]
MCVetoes == Only(3, 0, 0)
MCSettlement == Only(1, 1, 0)
MCLiquidations == Only(0, 1, 0)
MCGovernance == Only(0, 1, 1)
=============================================================================
