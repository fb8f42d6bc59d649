--------------------------------- MODULE Batch ---------------------------------
(***************************************************************************)
(* Authorities of a community wallet that pay from the same batch file:    *)
(* every one of them runs `txs community batch` on a copy of the file, as  *)
(* often as needed, and each instruction becomes a proposal of theirs, or  *)
(* a vote for the proposal that somebody else made.                        *)
(*                                                                         *)
(* A run reads the account's sequence number, then the ballots, and then   *)
(* works through the list with that picture of the chain, one transaction  *)
(* at a time.  Transactions may be refused, lost, expire, land after the   *)
(* wait for them has ended, or wait for one whose number was used up by a  *)
(* refused one; a run may die and leave its file unwritten.                *)
(*                                                                         *)
(* Sequence numbers are relative to the number that the chain expects      *)
(* next.  All copies of the file hold the same instructions.               *)
(***************************************************************************)
EXTENDS Integers, SequencesExt

CONSTANTS
    Authorities,   \* the owners of the multisig
    Payees,
    Slow,          \* payees that are slow wallets
    Batches,       \* batch files: the instructions, a sequence of [payee, amount],
                   \* and the authorities who take part
    Threshold,     \* signatures required
    MaxFaults      \* bound: crashes, lost and expired transactions, expired ballots

ASSUME BatchAssumption ==
    /\ IsFiniteSet(Authorities)
    /\ Slow \subseteq Payees
    /\ \A b \in Batches :
           b.list \in Seq([payee : Payees, amount : Nat]) /\ b.by \subseteq Authorities
    /\ Threshold \in Nat \ {0}
    /\ MaxFaults \in Nat

VARIABLES
    batch,      \* the batch that is paid
    pending,    \* Action<Payment>: ballots_pending, [no, pay, votes, old]; no is
                \* the order of the list
    approved,   \* ballots_approved, in the order of approval
    file,       \* the batch file of each authority: ProposePay.voters
    list,       \* the same of the list in memory during a run
    pc,         \* where the run is: "idle", "opened", "next", "signed", "wait"
    at,         \* the instruction that the run has come to
    picture,    \* pending_or_approved: what the run knows of each payee
    lead,       \* local sequence number, relative to the chain's
    mempool,    \* transactions waiting: [off, inst]
    faults,     \* faults so far, bounded by MaxFaults
    lapsed,     \* history: a ballot has expired
    late        \* history: authorities of whom a run has ended or gone on with its
                \* transaction in a mempool

chainVars == <<pending, approved, mempool>>
runVars == <<list, pc, at, picture, lead>>
hindsight == <<lapsed, late>>
batchVars == <<batch, chainVars, file, runVars, faults, hindsight>>

List == batch.list

Insts == DOMAIN List

\* The voters field of every instruction, as the file has it at first.
Fresh == [i \in Insts |-> {}]

\* No payee has a ballot.
NoPicture == [p \in Payees |-> {}]

BatchInit ==
    /\ batch \in Batches
    /\ pending = {} /\ approved = <<>>
    /\ file = [a \in Authorities |-> Fresh]
    /\ list = [a \in Authorities |-> Fresh]
    /\ pc = [a \in Authorities |-> "idle"]
    /\ at = [a \in Authorities |-> 1]
    /\ picture = [a \in Authorities |-> NoPicture]
    /\ lead = [a \in Authorities |-> 0]
    /\ mempool = [a \in Authorities |-> {}]
    /\ faults = 0
    /\ lapsed = FALSE /\ late = {}

Fault == faults < MaxFaults /\ faults' = faults + 1

-----------------------------------------------------------------------------
(***************************************************************************)
(* The chain: propose_payment_tx of donor_voice_txs.move, multi_action     *)
(***************************************************************************)

Ballot(no, pay, votes, old) == [no |-> no, pay |-> pay, votes |-> votes, old |-> old]

\* lazy_cleanup_expired
LiveBallots == {b \in pending : ~b.old}

\* search_proposals_by_data: the pending ballot for the same payment, if any
Found(pay) == {b \in LiveBallots : b.pay = pay}

\* propose_ballot: a new ballot at the end of the list
NewBallot(pay) == Ballot(Max({0} \cup {b.no : b \in LiveBallots}) + 1, pay, {}, FALSE)

\* a's vote, on the pending ballot or on a new one, and its tally.
Vote(a, pay) ==
    \E b \in IF Found(pay) # {} THEN Found(pay) ELSE {NewBallot(pay)} :
        LET votes == b.votes \cup {a}
        IN  IF Cardinality(votes) >= Threshold
            THEN /\ pending' = LiveBallots \ {b}
                 /\ approved' = Append(approved, [pay |-> pay, votes |-> votes])
            ELSE /\ pending' = (LiveBallots \ {b}) \cup {Ballot(b.no, pay, votes, FALSE)}
                 /\ UNCHANGED approved

\* A second vote aborts and leaves everything as it was.
HasVoted(a, pay) == \E b \in Found(pay) : a \in b.votes

\* The account's next transaction is executed: its number is used up, whether
\* it succeeds or aborts.
Commit(a) ==
    \E tx \in mempool[a] :
        /\ tx.off = 0
        /\ IF HasVoted(a, List[tx.inst])
           THEN UNCHANGED <<pending, approved>>
           ELSE Vote(a, List[tx.inst])
        /\ mempool' = [mempool EXCEPT ![a] = {[t EXCEPT !.off = @ - 1] : t \in @ \ {tx}}]
        /\ lead' = [lead EXCEPT ![a] = @ - 1]
        /\ UNCHANGED <<file, list, pc, at, picture, faults, hindsight>>

\* A transaction leaves the mempool unexecuted: it has expired.
Drop(a) ==
    /\ Fault
    /\ \E tx \in mempool[a] : mempool' = [mempool EXCEPT ![a] = @ \ {tx}]
    /\ UNCHANGED <<pending, approved, file, runVars, hindsight>>

\* So does one whose predecessor does not come, sooner or later.
Overdue(a) ==
    /\ \E tx \in mempool[a] :
        /\ \E k \in 0 .. tx.off : \A s \in mempool[a] : s.off # k
        /\ mempool' = [mempool EXCEPT ![a] = @ \ {tx}]
    /\ UNCHANGED <<pending, approved, file, runVars, faults, hindsight>>

\* The epoch in which a ballot expires ends; the next transaction removes it.
Lapse ==
    /\ Fault
    /\ \E b \in LiveBallots :
           pending' = (pending \ {b}) \cup {Ballot(b.no, b.pay, b.votes, TRUE)}
    /\ lapsed' = TRUE
    /\ UNCHANGED <<approved, mempool, file, runVars, late>>

-----------------------------------------------------------------------------
(***************************************************************************)
(* A run: txs_cli.rs, BatchTx::run                                         *)
(***************************************************************************)

\* Sender::new: the sequence number of the committed state
Open(a) ==
    /\ a \in batch.by
    /\ pc[a] = "idle"
    /\ pc' = [pc EXCEPT ![a] = "opened"]
    /\ lead' = [lead EXCEPT ![a] = 0]
    /\ UNCHANGED <<chainVars, file, list, at, picture, faults, hindsight>>

\* What a ballot says in the picture.
Noted(b) == [pay |-> b.pay, votes |-> b.votes]

\* The last pending ballot for a payee, if any.
LastPending(p) ==
    {b \in pending : /\ b.pay.payee = p
                     /\ \A c \in pending : c # b /\ c.pay.payee = p => c.no < b.no}

\* The last approved ballot for a payee, if any.
LastApproved(p) ==
    {n \in DOMAIN approved :
        /\ approved[n].pay.payee = p
        /\ \A k \in DOMAIN approved : approved[k].pay.payee = p => k <= n}

\* Faulty variant: the pending ballots are inserted last.
PicturePendingLast ==
    [p \in Payees |-> IF LastPending(p) = {} THEN {approved[n] : n \in LastApproved(p)}
                      ELSE {Noted(b) : b \in LastPending(p)}]

\* pending_or_approved: one entry for a payee, the last one inserted; the
\* approved ballots are inserted after the pending ones
Picture ==
    [p \in Payees |-> IF LastApproved(p) = {} THEN {Noted(b) : b \in LastPending(p)}
                      ELSE {approved[n] : n \in LastApproved(p)}]

\* fs::read_to_string, multi_auth_ballots
Read(a) ==
    /\ pc[a] = "opened"
    /\ pc' = [pc EXCEPT ![a] = "next"]
    /\ at' = [at EXCEPT ![a] = 1]
    /\ list' = [list EXCEPT ![a] = file[a]]
    /\ picture' = [picture EXCEPT ![a] = Picture]
    /\ UNCHANGED <<chainVars, file, lead, faults, hindsight>>

\* The voters of instruction i as a picture has them, found for the same
\* amount; otherwise those that the list names stay.
Seen(pic, names, i) ==
    LET same == {b \in pic[List[i].payee] : b.pay.amount = List[i].amount}
    IN  IF same = {} THEN names[i] ELSE UNION {b.votes : b \in same}

Voters(a) == Seen(picture[a], list[a], at[a])

\* Faulty variant: what somebody has proposed is skipped.
WorthIfNew(a) == List[at[a]].payee \in Slow /\ Voters(a) = {}

Worth(a) == List[at[a]].payee \in Slow /\ a \notin Voters(a)

\* The payee is not slow, or the authority has voted.
Skip(a) ==
    /\ pc[a] = "next"
    /\ at[a] \in Insts
    /\ ~Worth(a)
    /\ list' = [list EXCEPT ![a][at[a]] = Voters(a)]
    /\ at' = [at EXCEPT ![a] = @ + 1]
    /\ UNCHANGED <<chainVars, file, pc, picture, lead, faults, hindsight>>

\* propose_one_in_batch signs with the next number.
Sign(a) ==
    /\ pc[a] = "next"
    /\ at[a] \in Insts
    /\ Worth(a)
    /\ list' = [list EXCEPT ![a][at[a]] = Voters(a)]
    /\ lead' = [lead EXCEPT ![a] = @ + 1]
    /\ pc' = [pc EXCEPT ![a] = "signed"]
    /\ UNCHANGED <<chainVars, file, at, picture, faults, hindsight>>

\* The loop goes on, whether the proposal has succeeded or not: what it notes
\* about that in the list is for the reader of the file only.
Proceed(a) ==
    /\ at' = [at EXCEPT ![a] = @ + 1]
    /\ pc' = [pc EXCEPT ![a] = "next"]

\* The transaction just signed.
Signed(a) == [off |-> lead[a] - 1, inst |-> at[a]]

\* The node takes a transaction whose number is neither used nor in its
\* mempool, also one that is ahead of the chain.
Acceptable(a) == Signed(a).off >= 0 /\ \A t \in mempool[a] : t.off # Signed(a).off

Submit(a) ==
    /\ pc[a] = "signed"
    /\ Acceptable(a)
    /\ mempool' = [mempool EXCEPT ![a] = @ \cup {Signed(a)}]
    /\ pc' = [pc EXCEPT ![a] = "wait"]
    /\ UNCHANGED <<pending, approved, file, list, at, picture, lead, faults, hindsight>>

Refused(a) ==
    /\ pc[a] = "signed"
    /\ ~Acceptable(a)
    /\ Proceed(a)
    /\ UNCHANGED <<chainVars, file, list, picture, lead, faults, hindsight>>

\* wait_for_transaction_bcs: the transaction was executed, and has succeeded or
\* aborted, or it has expired
Answered(a) ==
    /\ pc[a] = "wait"
    /\ Signed(a) \notin mempool[a]
    /\ Proceed(a)
    /\ UNCHANGED <<chainVars, file, list, picture, lead, faults, hindsight>>

\* The node is out of reach: the transaction does not arrive, or it does and
\* the answer is lost, or the wait for it times out.
Unreachable(a) ==
    /\ Fault
    /\ pc[a] \in {"signed", "wait"}
    /\ \/ UNCHANGED mempool
       \/ /\ pc[a] = "signed" /\ Acceptable(a)
          /\ mempool' = [mempool EXCEPT ![a] = @ \cup {Signed(a)}]
    /\ late' = IF Signed(a) \in mempool'[a] THEN late \cup {a} ELSE late
    /\ Proceed(a)
    /\ UNCHANGED <<pending, approved, file, list, picture, lead, lapsed>>

\* fs::write at the end of the list
Write(a) ==
    /\ pc[a] = "next"
    /\ at[a] \notin Insts
    /\ file' = [file EXCEPT ![a] = list[a]]
    /\ pc' = [pc EXCEPT ![a] = "idle"]
    /\ at' = [at EXCEPT ![a] = 1]
    /\ picture' = [picture EXCEPT ![a] = NoPicture]
    /\ list' = [list EXCEPT ![a] = Fresh]
    /\ UNCHANGED <<chainVars, lead, faults, hindsight>>

\* A run with --check sends nothing: it reads the ballots and writes the file.
Check(a) ==
    /\ a \in batch.by
    /\ pc[a] = "idle"
    /\ file' = [file EXCEPT ![a] = [i \in Insts |-> Seen(Picture, @, i)]]
    /\ UNCHANGED <<chainVars, runVars, faults, hindsight>>

\* The process dies, or a query fails and ends it: the file stays as it was.
Crash(a) ==
    /\ Fault
    /\ pc[a] # "idle"
    /\ pc' = [pc EXCEPT ![a] = "idle"]
    /\ at' = [at EXCEPT ![a] = 1]
    /\ picture' = [picture EXCEPT ![a] = NoPicture]
    /\ list' = [list EXCEPT ![a] = Fresh]
    /\ late' = IF pc[a] = "wait" /\ Signed(a) \in mempool[a] THEN late \cup {a} ELSE late
    /\ UNCHANGED <<chainVars, file, lead, lapsed>>

Run(a) ==
    \/ Open(a) \/ Read(a) \/ Skip(a) \/ Sign(a) \/ Submit(a) \/ Refused(a)
    \/ Answered(a) \/ Write(a)

BatchNext ==
    /\ \/ Lapse
       \/ \E a \in Authorities :
           \/ Run(a) \/ Check(a) \/ Commit(a) \/ Drop(a) \/ Overdue(a)
           \/ Unreachable(a) \/ Crash(a)
    /\ UNCHANGED batch

BatchSpec == BatchInit /\ [][BatchNext]_batchVars

\* Every authority runs the batch again and again, and the chain executes
\* what is in the mempool or lets it expire.
FairBatch ==
    /\ BatchSpec
    /\ \A a \in Authorities :
           /\ WF_batchVars(Run(a) /\ UNCHANGED batch)
           /\ WF_batchVars((Commit(a) \/ Overdue(a)) /\ UNCHANGED batch)

-----------------------------------------------------------------------------
(***************************************************************************)
(* Properties                                                              *)
(***************************************************************************)

Approvals(i) == {n \in DOMAIN approved : approved[n].pay = List[i]}

\* No other instruction is for the same payee.
Single(i) == \A j \in Insts : List[j].payee = List[i].payee => j = i

\* n and m are the first two approvals of instruction i.
FirstTwo(i, n, m) == n < m /\ \A k \in Approvals(i) : k <= m => k \in {n, m}

\* However the authorities' runs interleave, crash and are repeated, whatever
\* ballots expire and whichever transactions are refused or lost: an instruction
\* that is approved, and so paid, a second time is approved by others.  Only an
\* authority of whom a run has given up waiting for a transaction that was still
\* to be executed (submit) may be counted again, since its next run may not see
\* that vote.  With a majority as threshold, which two thirds at the cage are
\* (multisig_thresh) and later thresholds need not be, two approvals have a voter
\* in common: then an instruction is paid once as long as nobody is late.  It has
\* to be the only one for its payee, since the code keeps one ballot for each.
PaidOnce ==
    \A i \in Insts : Single(i) =>
        \A n, m \in Approvals(i) :
            FirstTwo(i, n, m) => approved[n].votes \cap approved[m].votes \subseteq late

\* Authorities that keep running the batch get every payment to a slow wallet
\* approved, although a refused transaction leaves a gap in their numbers
\* that the next ones wait behind - unless a ballot has expired meanwhile.
BatchCompletes ==
    <>(lapsed \/ \A i \in Insts : List[i].payee \in Slow => Approvals(i) # {})
=============================================================================
