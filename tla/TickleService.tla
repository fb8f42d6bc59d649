----------------------------- MODULE TickleService -----------------------------
(***************************************************************************)
(* The epoch tickle service of the transaction tool: a poller thread asks  *)
(* a node whether the epoch can be closed and, if so, puts the call of     *)
(* trigger_epoch into a channel; a listener thread takes calls from the    *)
(* channel and signs, submits and awaits one transaction at a time.        *)
(*                                                                         *)
(* Nobody else has to pull the trigger here, but others may.  The listener *)
(* gives up silently on the first error and the service only notices when  *)
(* the poller next has something to send: then the whole process goes      *)
(* down, to be started again by its operator, with a fresh Sender.         *)
(*                                                                         *)
(* Sequence numbers are kept relative to the one on chain: lead is the     *)
(* number that the local account would sign with next, minus the number    *)
(* that the chain accepts next.                                            *)
(***************************************************************************)
EXTENDS EpochClock, Integers

CONSTANTS
    MaxQueue,    \* bound: calls in the channel, which has no limit
    MaxFaults    \* bound: crashes, lost answers, bumps, foreign transactions

ASSUME TickleAssumption == MaxQueue \in Nat \ {0} /\ MaxFaults \in Nat

VARIABLES
    up,          \* the process is running
    poller,      \* "poll", or "send" once it saw that the epoch can be closed
    queue,       \* calls in the mpsc channel
    listener,    \* "recv", "signed", "waiting", or "gone" after its break
    lead,        \* sequence number of the LocalAccount, relative to the chain
    pending,     \* a transaction of the account is in the mempool
    answer,      \* what wait_for_transaction_bcs finds: "none", "ok", "failed"
    faults       \* faults so far, bounded by MaxFaults

service == <<up, poller, queue, listener, lead, answer>>
vars == <<clock, service, pending, faults>>

Init ==
    /\ ClockInit
    /\ up = FALSE
    /\ poller = "poll"
    /\ queue = 0
    /\ listener = "gone"
    /\ lead = 0
    /\ pending = FALSE
    /\ answer = "none"
    /\ faults = 0

Fault == faults < MaxFaults /\ faults' = faults + 1

-----------------------------------------------------------------------------
(***************************************************************************)
(* The process: txs_cli.rs, txs_cli_stream.rs                              *)
(***************************************************************************)

\* Sender::new reads the sequence number of the committed state, whatever is
\* in the mempool.
NewSender == lead' = 0

\* StreamTxs::start: both threads on a new channel.
NewStream == poller' = "poll" /\ queue' = 0 /\ listener' = "recv" /\ answer' = "none"

\* TxsCli::run of the stream command.
Start ==
    /\ ~up
    /\ up' = TRUE
    /\ NewSender
    /\ NewStream
    /\ UNCHANGED <<clock, pending, faults>>

\* The process dies at any point.
Crash ==
    /\ Fault
    /\ up
    /\ up' = FALSE
    /\ UNCHANGED <<clock, poller, queue, listener, lead, pending, answer>>

-----------------------------------------------------------------------------
(***************************************************************************)
(* The poller thread: epoch_tickle_poll.rs                                 *)
(***************************************************************************)

\* epoch_over_can_trigger: the view of the chain, as old as its answer.
EpochOverCanTrigger == ready

\* The answer is yes.  A node that does not answer is a poll that has not
\* happened yet.
Poll ==
    /\ up
    /\ poller = "poll"
    /\ EpochOverCanTrigger
    /\ queue < MaxQueue
    /\ poller' = "send"
    /\ UNCHANGED <<clock, up, queue, listener, lead, pending, answer, faults>>

\* Faulty variant: a closed channel is ignored.
SendIgnored ==
    /\ up
    /\ poller = "send"
    /\ poller' = "poll"
    /\ queue' = IF listener = "gone" THEN queue ELSE queue + 1
    /\ UNCHANGED <<clock, up, listener, lead, pending, answer, faults>>

\* send(..).unwrap(): when the listener has dropped its end the thread
\* panics, the join in epoch_tickle_poll panics with it and the process ends.
Send ==
    /\ up
    /\ poller = "send"
    /\ poller' = "poll"
    /\ IF listener = "gone"
       THEN up' = FALSE /\ UNCHANGED queue
       ELSE queue' = queue + 1 /\ UNCHANGED up
    /\ UNCHANGED <<clock, listener, lead, pending, answer, faults>>

-----------------------------------------------------------------------------
(***************************************************************************)
(* The listener thread: txs_cli_stream.rs, submit_transaction.rs           *)
(***************************************************************************)

\* sign_payload: signing takes the next sequence number.
SignPayload == lead' = lead + 1

\* rx.recv, and the call is signed under the lock of the Sender.
Receive ==
    /\ up
    /\ listener = "recv"
    /\ queue > 0
    /\ queue' = queue - 1
    /\ SignPayload
    /\ listener' = "signed"
    /\ UNCHANGED <<clock, up, poller, pending, answer, faults>>

\* Faulty variant: the listener logs an error and goes on.
GiveUpContinues == listener' = "recv" /\ UNCHANGED queue

\* After an error the loop breaks: the listener's end of the channel is
\* dropped, and the calls in it are lost.
GiveUp == listener' = "gone" /\ queue' = 0

\* client.submit of the transaction with number lead - 1: the node takes it
\* unless that number is used, in the mempool or on chain, and an error ends
\* the listener.
Submit ==
    /\ up
    /\ listener = "signed"
    /\ IF lead > 0 /\ ~pending
       THEN listener' = "waiting" /\ pending' = TRUE /\ UNCHANGED queue
       ELSE GiveUp /\ UNCHANGED pending
    /\ UNCHANGED <<clock, up, poller, lead, answer, faults>>

\* wait_for_transaction_bcs returns what was committed; a transaction that
\* was committed and failed is an error.
Answered ==
    /\ up
    /\ listener = "waiting"
    /\ answer # "none"
    /\ IF answer = "ok"
       THEN listener' = "recv" /\ UNCHANGED queue
       ELSE GiveUp
    /\ answer' = "none"
    /\ UNCHANGED <<clock, up, poller, lead, pending, faults>>

\* The node refuses the transaction or its answer is lost, before or after it
\* took it; or the wait times out with the transaction still in the mempool.
NoAnswer ==
    /\ Fault
    /\ up
    /\ listener \in {"signed", "waiting"}
    /\ GiveUp
    /\ pending' \in {pending, pending \/ (listener = "signed" /\ lead = 1)}
    /\ answer' = "none"
    /\ UNCHANGED <<clock, up, poller, lead>>

-----------------------------------------------------------------------------
(***************************************************************************)
(* The chain: consensus, the mempool and the other users of both           *)
(***************************************************************************)

\* The account's next transaction is executed and its number is used up,
\* whether it pulls the trigger or aborts because somebody else did.  One
\* signed ahead of the chain's number has to wait.
Commit ==
    /\ pending
    /\ lead <= 1
    /\ pending' = FALSE
    /\ lead' = lead - 1
    /\ IF ready /\ age > 0 /\ epoch < LastEpoch
       THEN Pull ELSE ~ready /\ UNCHANGED clock
    /\ answer' = IF listener # "waiting" THEN answer
                 ELSE IF ready THEN "ok" ELSE "failed"
    /\ UNCHANGED <<up, poller, queue, listener, faults>>

\* A transaction in the mempool expires.
Expire ==
    /\ Fault
    /\ pending
    /\ pending' = FALSE
    /\ answer' = IF listener = "waiting" THEN "failed" ELSE answer
    /\ UNCHANGED <<clock, up, poller, queue, listener, lead>>

\* The operator uses the same account from another process.
ForeignTx ==
    /\ Fault
    /\ ~pending
    /\ lead' = lead - 1
    /\ UNCHANGED <<clock, up, poller, queue, listener, pending, answer>>

ChainBlock == Block /\ UNCHANGED <<service, pending, faults>>

OtherPull == Pull /\ Fault /\ UNCHANGED <<service, pending>>

OtherBump == Bump /\ Fault /\ UNCHANGED <<service, pending>>

Next ==
    \/ Start \/ Crash \/ Poll \/ Send \/ Receive \/ Submit \/ Answered \/ NoAnswer
    \/ Commit \/ Expire \/ ForeignTx \/ ChainBlock \/ OtherPull \/ OtherBump

Spec == Init /\ [][Next]_vars

\* Both threads run while the process is up, the chain makes blocks and
\* commits what is in the mempool, and a process that has ended is started
\* again.  Nobody else is asked to pull the trigger.
FairSpec ==
    /\ Spec
    /\ WF_vars(Start) /\ WF_vars(Poll) /\ WF_vars(Send) /\ WF_vars(Receive)
    /\ WF_vars(Submit) /\ WF_vars(Answered)
    /\ WF_vars(Commit) /\ WF_vars(ChainBlock)

-----------------------------------------------------------------------------
(***************************************************************************)
(* Properties                                                              *)
(***************************************************************************)

\* One polling service is enough to keep the epochs of the network moving:
\* it implements the clock with its fairness, although its listener dies
\* without a word on every stale call, lost answer or foreign transaction.
ServesClock == FairClock

\* A listener that can take a call never signs ahead of the chain: after a
\* failed submission, whose sequence number is lost to the local account,
\* the account is read again before the next one.  A transaction ahead of the
\* chain would stay in the mempool until it expires.
NeverAhead == up /\ listener = "recv" => lead <= 0
=============================================================================
