------------------------------ MODULE EpochClock ------------------------------
(***************************************************************************)
(* What the network promises about its epochs: blocks arm the trigger once *)
(* an interval has passed, an armed trigger is pulled once and closes the  *)
(* epoch, and governance may start a new epoch at any time without closing *)
(* the old one.                                                            *)
(*                                                                         *)
(* Two detailed specifications implement it: ValidatorSet, where the whole *)
(* boundary has to succeed before the trigger counts as pulled, and        *)
(* TickleService, where a client program is the one who pulls it.          *)
(***************************************************************************)
EXTENDS Naturals

CONSTANTS
    Interval,     \* runs of blocks before the VM arms the trigger
    StartEpoch,   \* the epoch at the start
    LastEpoch     \* bound: the last epoch

ASSUME EpochClockAssumption ==
    Interval \in Nat \ {0} /\ StartEpoch \in Nat /\ LastEpoch \in Nat

VARIABLES
    ready,        \* BoundaryBit.ready
    epoch,        \* Configuration.epoch
    age,          \* blocks since the epoch began, up to the interval
    apart         \* blocks since the last boundary, up to the interval

clock == <<ready, epoch, age, apart>>

\* One more block, counted up to the interval.
Tick(n) == IF n < Interval THEN n + 1 ELSE n

ClockInit ==
    /\ ready = FALSE
    /\ epoch = StartEpoch
    /\ age = 0
    /\ apart = 0

\* block_prologue with maybe_advance_epoch: from the interval on every block
\* arms the trigger
Block ==
    /\ age' = Tick(age)
    /\ apart' = Tick(apart)
    /\ ready' = (ready \/ age' = Interval)
    /\ UNCHANGED epoch

\* A user's trigger_epoch that does not abort.
Pull ==
    /\ ready
    /\ age > 0
    /\ epoch < LastEpoch
    /\ ready' = FALSE
    /\ epoch' = epoch + 1
    /\ age' = 0
    /\ apart' = 0

\* reconfigure by governance: a new epoch without a boundary
Bump ==
    /\ age > 0
    /\ epoch < LastEpoch
    /\ epoch' = epoch + 1
    /\ age' = 0
    /\ UNCHANGED <<ready, apart>>

ClockNext == Block \/ Pull \/ Bump

ClockSpec == ClockInit /\ [][ClockNext]_clock

\* Blocks keep coming and an armed trigger is pulled.
FairClock == ClockSpec /\ WF_clock(Block) /\ WF_clock(Pull)

-----------------------------------------------------------------------------

\* Two boundaries are an interval of blocks apart, also when governance bumps
\* the epoch between them.
PullsApart == [][ready /\ ~ready' => apart = Interval]_clock
=============================================================================
