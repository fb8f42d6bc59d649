------------------------- MODULE TickleServiceProofs -------------------------
(***************************************************************************)
(* Proofs about EpochClock and TickleService, for every interval, every    *)
(* length of the queue and any number of faults.                           *)
(***************************************************************************)
EXTENDS TickleService, TLAPS

-----------------------------------------------------------------------------
(***************************************************************************)
(* The clock of the epochs                                                 *)
(***************************************************************************)

(***************************************************************************)
(* PullsApart speaks of the blocks since the last boundary, the trigger is *)
(* armed by the blocks since the epoch began.  A bump only sets the latter *)
(* back, so the trigger is never armed too early.                          *)
(***************************************************************************)
ClockInv ==
    /\ ready \in BOOLEAN
    /\ age \in 0 .. Interval
    /\ apart \in age .. Interval
    /\ ready => apart = Interval

\* Every step of the clock preserves ClockInv.
LEMMA StepClockInv ==
  ASSUME ClockInv, [ClockNext]_clock
  PROVE  ClockInv'
<1>1. Interval \in Nat \ {0}
  BY EpochClockAssumption
<1>2. CASE Block
  BY <1>1, <1>2 DEF Block, Tick, ClockInv
<1>3. CASE Pull
  <2>1. ready' \in BOOLEAN /\ ~ready'
    BY <1>3, Zenon DEF Pull
  <2>2. age' \in 0 .. Interval /\ apart' \in age' .. Interval
    BY <1>1, <1>3 DEF Pull
  <2> QED
    BY <2>1, <2>2 DEF ClockInv
<1>4. CASE Bump
  BY <1>1, <1>4 DEF Bump, ClockInv
<1>5. CASE UNCHANGED clock
  BY <1>5 DEF clock, ClockInv
<1> QED
  BY <1>2, <1>3, <1>4, <1>5 DEF ClockNext

\* The trigger of block.move is pulled an interval of blocks after the last
\* boundary at the earliest, in whatever implements the clock.
THEOREM ClockPullsApart == ClockSpec => PullsApart
<1>1. ClockInit => ClockInv
  <2> SUFFICES ASSUME ClockInit PROVE ClockInv
    OBVIOUS
  <2>1. ready \in BOOLEAN /\ ~ready
    BY Zenon DEF ClockInit
  <2>2. age \in 0 .. Interval /\ apart \in age .. Interval
    BY EpochClockAssumption DEF ClockInit
  <2> QED
    BY <2>1, <2>2 DEF ClockInv
<1>2. ClockInv /\ [ClockNext]_clock => (ready /\ ~ready' => apart = Interval)
  BY DEF ClockInv
<1> QED
  BY <1>1, <1>2, StepClockInv, PTL DEF ClockSpec, PullsApart

-----------------------------------------------------------------------------
(***************************************************************************)
(* The service                                                             *)
(***************************************************************************)

\* Every step of the service, the chain and other users is a step of the
\* clock or leaves it alone.
LEMMA StepServes ==
  ASSUME [Next]_vars
  PROVE  [ClockNext]_clock
<1>1. CASE Commit
  BY <1>1 DEF Commit, ClockNext
<1>2. CASE ChainBlock \/ OtherPull \/ OtherBump
  BY <1>2 DEF ChainBlock, OtherPull, OtherBump, ClockNext
<1>3. CASE Start \/ Crash \/ Poll \/ Send \/ Receive
  BY <1>3 DEF Start, Crash, Poll, Send, Receive
<1>4. CASE Submit \/ Answered \/ NoAnswer \/ Expire \/ ForeignTx
  BY <1>4 DEF Submit, Answered, NoAnswer, Expire, ForeignTx
<1>5. CASE UNCHANGED vars
  BY <1>5 DEF vars
<1> QED
  BY <1>1, <1>2, <1>3, <1>4, <1>5 DEF Next

\* Polling, lost answers, restarts and stale calls included, the service
\* implements the clock: the safety part of ServesClock.
THEOREM TickleImplementsClock == Spec => ClockSpec
<1>1. Init => ClockInit
  BY DEF Init
<1> QED
  BY <1>1, StepServes, PTL DEF Spec, ClockSpec

\* However often the service sends its call, and whoever else sends one, the
\* epoch is not closed twice within an interval.
THEOREM TicklePullsApart == Spec => PullsApart
  BY TickleImplementsClock, ClockPullsApart, PTL

(***************************************************************************)
(* NeverAhead is not inductive: what the listener does after an answer     *)
(* depends on the account's number when it was committed.  The             *)
(* strengthening follows the number through signing and waiting.           *)
(***************************************************************************)
LeadInv ==
    /\ lead \in Int
    /\ listener \in {"recv", "signed", "waiting", "gone"}
    /\ answer \in {"none", "ok", "failed"}
    /\ listener # "waiting" => answer = "none"
    /\ listener = "recv" => lead <= 0
    /\ listener \in {"signed", "waiting"} => lead <= 1
    /\ answer = "ok" => lead <= 0

\* Every step preserves LeadInv: an error, after which the number is ahead of
\* the chain, ends the listener until the account is read again.
LEMMA StepLead ==
  ASSUME LeadInv, [Next]_vars
  PROVE  LeadInv'
<1>1. CASE Start
  BY <1>1 DEF Start, NewSender, NewStream, LeadInv
<1>2. CASE Crash \/ Poll \/ Send
  BY <1>2 DEF Crash, Poll, Send, LeadInv
<1>3. CASE Receive
  BY <1>3 DEF Receive, SignPayload, LeadInv
<1>4. CASE Submit
  BY <1>4 DEF Submit, GiveUp, LeadInv
<1>5. CASE Answered
  BY <1>5 DEF Answered, GiveUp, LeadInv
<1>6. CASE NoAnswer
  BY <1>6 DEF NoAnswer, GiveUp, LeadInv
<1>7. CASE Commit
  BY <1>7 DEF Commit, LeadInv
<1>8. CASE Expire \/ ForeignTx
  BY <1>8 DEF Expire, ForeignTx, LeadInv
<1>9. CASE ChainBlock \/ OtherPull \/ OtherBump \/ UNCHANGED vars
  BY <1>9 DEF ChainBlock, OtherPull, OtherBump, vars, service, LeadInv
<1> QED
  BY <1>1, <1>2, <1>3, <1>4, <1>5, <1>6, <1>7, <1>8, <1>9 DEF Next

\* A listener that goes on after a transaction never signs with a number that
\* the chain does not expect yet, whatever was lost, refused or sent by others.
THEOREM TickleNeverAhead == Spec => []NeverAhead
<1>1. Init => LeadInv
  BY DEF Init, LeadInv
<1>2. LeadInv => NeverAhead
  BY DEF LeadInv, NeverAhead
<1> QED
  BY <1>1, <1>2, StepLead, PTL DEF Spec
=============================================================================
