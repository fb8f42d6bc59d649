------------------------------ MODULE RestartProofs -----------------------------
(***************************************************************************)
(* The two ways in which the operators bring a network up again, proved    *)
(* for every number of nodes and participants.  A rescue patches the       *)
(* databases that the nodes have or restore from the archive (Rescue); a   *)
(* ceremony starts a new chain from a recovery file (Ceremony).  Each has  *)
(* variables and a specification of its own.                               *)
(***************************************************************************)
EXTENDS Rescue, Ceremony, Sums, SequenceTheorems, TLAPS

-----------------------------------------------------------------------------
(***************************************************************************)
(* The rescue: its inductive invariant                                     *)
(***************************************************************************)

\* A database directory has the fields of NoDb.
IsDb(d) ==
    /\ d = [part |-> d.part, version |-> d.version, state |-> d.state,
            txs |-> d.txs, rescue |-> d.rescue]
    /\ d.part \in {"none", "partial", "whole"}

\* The directories, commands and plans of the nodes are kept for each node.
Shape ==
    /\ db = [n \in Node |-> db[n]]
    /\ bundle = [n \in Node |-> bundle[n]]
    /\ pc = [n \in Node |-> pc[n]]
    /\ plan = [n \in Node |-> plan[n]]
    /\ config = [n \in Node |-> config[n]]
    /\ told \in Seq(ToSet(told))
    /\ \A n \in Node : IsDb(db[n])

\* The manifests of a load that succeeded: of one epoch, or with the state of
\* another that is mistaken for it.
OneCut(b, m) ==
    /\ \/ m[2].num = m[1].num
       \/ m[1] \in b.good /\ m[2] \in b.good /\ Mistaken(b, m[1], m[2])
    /\ Covers(m[3], EndVersion[m[1].num])

\* How far epoch_restore has come with the database that it makes.
Progress(n) ==
    /\ pc[n] = "fetch" => db[n].part = "none"
    /\ pc[n] \in {"load", "epoch", "snapshot", "transaction"} => db[n].part = "partial"
    /\ pc[n] \in {"epoch", "snapshot", "transaction"} => OneCut(bundle[n], plan[n])
    /\ pc[n] \in {"snapshot", "transaction"} =>
            db[n].version = EndVersion[plan[n][1].num]
    /\ pc[n] = "transaction" => db[n].state = EndVersion[plan[n][2].num]

\* A database that is whole is a cut of the chain, up to a mistaken name.
Cut(b, d) ==
    d.part = "whole" =>
        /\ Covers([num |-> d.txs], d.version)
        /\ \/ d.state = d.version
           \/ \E g, f \in b.good :
                /\ Mistaken(b, g, f)
                /\ d.version = EndVersion[g.num] /\ d.state = EndVersion[f.num]

\* A rescue transaction is on a whole database, as part of what was announced,
\* and a configuration names a ledger that was announced.
Announced(n) ==
    /\ db[n].part # "whole" => db[n].rescue = <<>>
    /\ db[n].rescue # <<>> => Ledger(db[n]) \in ToSet(told)
    /\ pc[n] = "config" => Ledger(db[n]) \in ToSet(told)
    /\ config[n] # None => config[n] \in ToSet(told)

NodeInv(n) == Progress(n) /\ Cut(bundle[n], db[n]) /\ Announced(n)

RescueInv == Shape /\ \A n \in Node : NodeInv(n)

\* What the operators configure is announced: a node is never pointed at a
\* waypoint that no coordinator has checked.
ConfiguredIsAnnounced ==
    \A n \in Node : config[n] # None => config[n] \in ToSet(told)

-----------------------------------------------------------------------------
(***************************************************************************)
(* Steps that leave the announced ledgers alone                            *)
(***************************************************************************)

\* A sequence, of whatever it lists.
Listed(s) == s \in Seq(ToSet(s))

\* A list with one more element.
LEMMA ListGrows ==
    ASSUME NEW s, NEW w, Listed(s)
    PROVE  /\ Listed(Append(s, w)) /\ ToSet(s) \subseteq ToSet(Append(s, w))
           /\ w \in ToSet(Append(s, w))
<1> DEFINE T == ToSet(s) \cup {w}
           t == Append(s, w)
<1>1. s \in Seq(T)
  BY DEF Listed
<1>2. w \in T
  OBVIOUS
<1> HIDE DEF T
<1>3. /\ t \in Seq(T) /\ Len(t) = Len(s) + 1 /\ Len(s) \in Nat
      /\ \A i \in 1 .. Len(s) : t[i] = s[i]
      /\ t[Len(s) + 1] = w
  BY <1>1, <1>2
<1> HIDE DEF t
<1>4. DOMAIN s = 1 .. Len(s) /\ DOMAIN t = 1 .. (Len(s) + 1)
  BY <1>1, <1>3
<1>5. \A i \in 1 .. Len(t) : t[i] \in ToSet(t)
  BY <1>3, <1>4 DEF ToSet
<1>6. t \in Seq(ToSet(t))
  BY <1>3, <1>5
<1>7. ToSet(s) \subseteq ToSet(t) /\ w \in ToSet(t)
  BY <1>3, <1>4 DEF ToSet
<1> QED
  BY <1>6, <1>7 DEF Listed, t

\* One waypoint more is announced (check_rescue_bootstraps): those that were
\* announced still are.
LEMMA ToldGrows ==
    ASSUME NEW w, told \in Seq(ToSet(told)), told' = Append(told, w)
    PROVE  /\ told' \in Seq(ToSet(told'))
           /\ ToSet(told) \subseteq ToSet(told')
           /\ w \in ToSet(told')
BY ListGrows DEF Listed

\* What a load accepts (load and is_loaded in restore_bundle.rs) is one cut
\* whatever folders are there, but for a name that is mistaken for another.
LEMMA LoadedIsCut ==
    ASSUME NEW b, NEW seen, NEW m \in Loaded(b.good \cup seen),
           m[1] \in b.good, m[2] \in b.good
    PROVE  OneCut(b, m)
<1> DEFINE found == b.good \cup seen
<1>1. /\ m[1] \in Ending(found) /\ m[2] \in Snapshot(found, m[1].num)
      /\ Covers(m[3], EndVersion[m[1].num])
    BY DEF Loaded, Transactions
<1>2. m[1].kind = "epoch_ending"
    BY <1>1 DEF Ending, Of
<1>3. /\ m[2].kind = "state_epoch"
      /\ m[2].num = m[1].num \/ m[2].num \in Alike[m[1].num]
      /\ \A g \in Globbed(found, m[1].num) : StateLex(g.num) <= StateLex(m[2].num)
    BY <1>1 DEF Snapshot, Globbed, Of
<1>4. \A own \in Of(b.good, "state_epoch") :
        own.num = m[1].num => own \in Globbed(found, m[1].num)
    BY DEF Globbed, Of
<1> QED
    BY <1>1, <1>2, <1>3, <1>4 DEF OneCut, Mistaken, Of

-----------------------------------------------------------------------------
(***************************************************************************)
(* The invariant is inductive                                              *)
(***************************************************************************)

\* The databases that the network halted with are whole, and no rescue has
\* been made.
LEMMA InitInv ==
    ASSUME Init
    PROVE  RescueInv
<1> USE DEF Init, RestoreInit
<1>1. Shape
    <2>1. /\ db = [n \in Node |-> db[n]]
          /\ bundle = [n \in Node |-> bundle[n]]
          /\ pc = [n \in Node |-> pc[n]]
          /\ plan = [n \in Node |-> plan[n]]
          /\ config = [n \in Node |-> config[n]]
        OBVIOUS
    <2>2. told \in Seq(ToSet(told))
        BY DEF ToSet
    <2>3. \A n \in Node : db[n] = Whole(Height[n])
        OBVIOUS
    <2>4. ASSUME NEW v
          PROVE  /\ Whole(v) = [part |-> "whole", version |-> v, state |-> v,
                                txs |-> v, rescue |-> <<>>]
                 /\ Whole(v).part = "whole" /\ Whole(v).version = v
                 /\ Whole(v).state = v /\ Whole(v).txs = v
                 /\ Whole(v).rescue = <<>>
        BY DEF Whole, NoDb
    <2>5. ASSUME NEW n \in Node
          PROVE  IsDb(db[n])
        BY <2>3, <2>4 DEF IsDb
    <2> QED
        BY <2>1, <2>2, <2>5 DEF Shape
<1>2. ASSUME NEW n \in Node
      PROVE  NodeInv(n)
    <2>1. Height[n] \in Nat /\ ChunkLength \in Nat \ {0}
        BY RestoreAssumption
    <2>2. db[n] = Whole(Height[n]) /\ pc[n] = "idle" /\ config[n] = None
        BY DEF Init, RestoreInit
    <2>3. Cut(bundle[n], db[n])
        BY <2>1, <2>2 DEF Cut, Covers, Whole, NoDb
    <2>4. Progress(n) /\ Announced(n)
        BY <2>2 DEF Progress, Announced, Whole, NoDb
    <2> QED
        BY <2>3, <2>4 DEF NodeInv
<1> QED
    BY <1>1, <1>2 DEF RescueInv

\* A step of one node leaves the others as they are.
LEMMA OneNode ==
    ASSUME RescueInv, NEW n \in Node,
           db' = [m \in Node |-> IF m = n THEN db'[n] ELSE db[m]],
           bundle' = [m \in Node |-> IF m = n THEN bundle'[n] ELSE bundle[m]],
           pc' = [m \in Node |-> IF m = n THEN pc'[n] ELSE pc[m]],
           plan' = [m \in Node |-> IF m = n THEN plan'[n] ELSE plan[m]],
           config' = [m \in Node |-> IF m = n THEN config'[n] ELSE config[m]],
           told' \in Seq(ToSet(told')), ToSet(told) \subseteq ToSet(told'),
           IsDb(db'[n]), NodeInv(n)'
    PROVE  RescueInv'
<1>1. ASSUME NEW m \in Node, m # n
      PROVE  /\ db'[m] = db[m] /\ bundle'[m] = bundle[m] /\ pc'[m] = pc[m]
             /\ plan'[m] = plan[m] /\ config'[m] = config[m]
    BY <1>1
<1>2. ASSUME NEW m \in Node, m # n
      PROVE  NodeInv(m)'
    <2> USE <1>1, <1>2
    <2>1. NodeInv(m)
        BY DEF RescueInv
    <2>2. Progress(m)'
        BY <2>1 DEF NodeInv, Progress
    <2>3. Cut(bundle[m], db[m])'
        BY <2>1 DEF NodeInv
    <2>4. Announced(m)'
        BY <2>1 DEF NodeInv, Announced, Ledger
    <2> QED
        BY <2>2, <2>3, <2>4 DEF NodeInv
<1>3. ASSUME NEW m \in Node
      PROVE  IsDb(db'[m])
    BY <1>1 DEF RescueInv, Shape
<1>4. /\ db' = [m \in Node |-> db'[m]]
      /\ bundle' = [m \in Node |-> bundle'[m]]
      /\ pc' = [m \in Node |-> pc'[m]]
      /\ plan' = [m \in Node |-> plan'[m]]
      /\ config' = [m \in Node |-> config'[m]]
    BY <1>1
<1>5. Shape'
    BY <1>3, <1>4 DEF Shape
<1> QED
    BY <1>2, <1>5 DEF RescueInv

\* Steps that touch neither a database, nor a plan, nor a command.
LEMMA QuietStep ==
    ASSUME RescueInv, UNCHANGED <<db, bundle, pc, plan, config, told>>
    PROVE  RescueInv'
BY DEF RescueInv, Shape, NodeInv, Progress, Announced, Ledger

\* A step that leaves the databases, the waypoints and the configurations alone
\* and takes a command to a point at which nothing of a restore is under way.
LEMMA IdleStep ==
    ASSUME RescueInv, NEW n \in Node, NEW p \in {"idle", "fetch", "check"},
           Goto(n, p), UNCHANGED <<db, config, told>>,
           bundle' = [m \in Node |-> IF m = n THEN bundle'[n] ELSE bundle[m]],
           bundle'[n] = bundle[n] \/ db[n].part = "none",
           p = "fetch" => db[n].part = "none",
           plan' = [m \in Node |-> IF m = n THEN plan'[n] ELSE plan[m]]
    PROVE  RescueInv'
<1> USE DEF RescueInv, Shape, Goto
<1>1. pc'[n] = p /\ pc' = [m \in Node |-> IF m = n THEN pc'[n] ELSE pc[m]]
    OBVIOUS
<1>2. db' = [m \in Node |-> IF m = n THEN db'[n] ELSE db[m]]
    BY Zenon
<1>3. config' = [m \in Node |-> IF m = n THEN config'[n] ELSE config[m]]
    BY Zenon
<1>4. NodeInv(n)'
    <2>1. NodeInv(n)
        OBVIOUS
    <2>2. pc'[n] \notin {"load", "epoch", "snapshot", "transaction", "config"}
        BY <1>1
    <2>3. Progress(n)'
        BY <1>1, <2>2 DEF Progress
    <2>4. Announced(n)'
        BY <2>1, <2>2 DEF NodeInv, Announced, Ledger
    <2>5. Cut(bundle[n], db[n])'
        BY <2>1 DEF NodeInv, Cut
    <2> QED
        BY <2>3, <2>4, <2>5 DEF NodeInv
<1>5. told' \in Seq(ToSet(told')) /\ ToSet(told) \subseteq ToSet(told') /\ IsDb(db'[n])
    OBVIOUS
<1> HIDE DEF RescueInv, Shape, Goto
<1> QED
    BY <1>1, <1>2, <1>3, <1>4, <1>5, OneNode

\* A step of epoch_restore, which changes the database that it makes.
LEMMA RestoringStep ==
    ASSUME RescueInv, NEW n \in Node, NEW d, NEW p,
           db' = [db EXCEPT ![n] = d], IsDb(d), Goto(n, p), p # "config",
           plan' = [m \in Node |-> IF m = n THEN plan'[n] ELSE plan[m]],
           bundle' = [m \in Node |-> IF m = n THEN bundle'[n] ELSE bundle[m]],
           UNCHANGED <<config, told>>,
           d.rescue = <<>>, Cut(bundle'[n], d), Progress(n)'
    PROVE  RescueInv'
<1> USE DEF RescueInv, Shape, Goto
<1>1. pc'[n] = p /\ pc' = [m \in Node |-> IF m = n THEN pc'[n] ELSE pc[m]]
    OBVIOUS
<1>2. db'[n] = d /\ db' = [m \in Node |-> IF m = n THEN db'[n] ELSE db[m]]
    OBVIOUS
<1>3. config' = [m \in Node |-> IF m = n THEN config'[n] ELSE config[m]]
    BY Zenon
<1>4. NodeInv(n)'
    <2>1. Announced(n)
        BY DEF NodeInv
    <2>2. Announced(n)'
        BY <1>1, <1>2, <2>1 DEF Announced
    <2>3. Cut(bundle[n], db[n])'
        BY <1>2
    <2> QED
        BY <2>2, <2>3 DEF NodeInv
<1>5. told' \in Seq(ToSet(told')) /\ ToSet(told) \subseteq ToSet(told') /\ IsDb(db'[n])
    BY <1>2
<1> HIDE DEF RescueInv, Shape, Goto
<1> QED
    BY <1>1, <1>2, <1>3, <1>4, <1>5, OneNode

\* download_restore_bundle plans a download.
LEMMA DownloadInv ==
    ASSUME RescueInv, NEW n \in Node, NEW t, Download(n, t), Unchanged,
           db[n].part = "none"
    PROVE  RescueInv'
<1>1. plan' = [m \in Node |-> IF m = n THEN plan'[n] ELSE plan[m]]
    BY DEF Download, RescueInv, Shape
<1>2. Goto(n, "fetch") /\ UNCHANGED <<db, config, told>>
    BY DEF Download, Unchanged
<1>3. bundle' = [m \in Node |-> IF m = n THEN bundle'[n] ELSE bundle[m]]
    BY DEF Download, RescueInv, Shape
<1> QED
    BY <1>1, <1>2, <1>3, IdleStep

\* download_github_folder writes one folder of the plan, or an error.
LEMMA FetchInv ==
    ASSUME RescueInv, NEW n \in Node, FetchGood(n) \/ FetchBad(n), Unchanged
    PROVE  RescueInv'
<1>1. plan' = [m \in Node |-> IF m = n THEN plan'[n] ELSE plan[m]]
    BY DEF FetchGood, FetchBad, RescueInv, Shape
<1>2. \/ Goto(n, "fetch") /\ UNCHANGED <<db, config, told>>
      \/ Goto(n, "idle") /\ UNCHANGED <<db, config, told>>
    BY DEF FetchGood, FetchBad, Unchanged
<1>3. bundle' = [m \in Node |-> IF m = n THEN bundle'[n] ELSE bundle[m]]
    BY DEF FetchGood, FetchBad, RescueInv, Shape
<1>4. db[n].part = "none"
    BY DEF FetchGood, FetchBad, RescueInv, NodeInv, Progress
<1> QED
    BY <1>1, <1>2, <1>3, <1>4, IdleStep

\* A process dies wherever it is.
LEMMA DieInv ==
    ASSUME RescueInv, NEW n \in Node, Die(n), Unchanged
    PROVE  RescueInv'
<1>1. plan' = [m \in Node |-> IF m = n THEN plan'[n] ELSE plan[m]]
    BY DEF Die, RescueInv, Shape
<1>2. Goto(n, "idle") /\ UNCHANGED <<db, config, told>>
    BY DEF Die, Unchanged
<1>3. bundle'[n] = bundle[n] /\ bundle' = [m \in Node |-> IF m = n THEN bundle'[n] ELSE bundle[m]]
    BY Zenon DEF Die, RescueInv, Shape
<1> QED
    BY <1>1, <1>2, <1>3, IdleStep

\* bootstrap_db ends a restore.
LEMMA BootstrapDbInv ==
    ASSUME RescueInv, NEW n \in Node, BootstrapDb(n), Unchanged
    PROVE  RescueInv'
<1>1. plan' = [m \in Node |-> IF m = n THEN plan'[n] ELSE plan[m]]
    BY Zenon DEF BootstrapDb, RescueInv, Shape
<1>2. Goto(n, "idle") /\ UNCHANGED <<db, config, told>>
    BY DEF BootstrapDb, Unchanged
<1>3. bundle'[n] = bundle[n] /\ bundle' = [m \in Node |-> IF m = n THEN bundle'[n] ELSE bundle[m]]
    BY Zenon DEF BootstrapDb, RescueInv, Shape
<1> QED
    BY <1>1, <1>2, <1>3, IdleStep

\* RescueCli::run makes a file and goes on to check it.
LEMMA MakeInv ==
    ASSUME RescueInv, NEW n \in Node, NEW c \in Command, Make(n, c)
    PROVE  RescueInv'
<1>1. plan' = [m \in Node |-> IF m = n THEN plan'[n] ELSE plan[m]]
    BY Zenon DEF Make, RescueInv, Shape
<1>2. Goto(n, "check") /\ UNCHANGED <<db, config, told>>
    BY DEF Make
<1>3. bundle'[n] = bundle[n] /\ bundle' = [m \in Node |-> IF m = n THEN bundle'[n] ELSE bundle[m]]
    BY Zenon DEF Make, RescueInv, Shape
<1> QED
    BY <1>1, <1>2, <1>3, IdleStep

\* The fields of a database of which some are written.
LEMMA WriteRescue ==
    ASSUME NEW d, NEW r, IsDb(d)
    PROVE  [d EXCEPT !.rescue = r] =
               [part |-> d.part, version |-> d.version, state |-> d.state,
                txs |-> d.txs, rescue |-> r]
BY DEF IsDb

LEMMA WriteTransactions ==
    ASSUME NEW d, NEW t, NEW p, IsDb(d)
    PROVE  [d EXCEPT !.txs = t, !.part = p] =
               [part |-> p, version |-> d.version, state |-> d.state,
                txs |-> t, rescue |-> d.rescue]
<1> DEFINE f == [d EXCEPT !.txs = t]
<1>1. f = [part |-> d.part, version |-> d.version,
           state |-> d.state, txs |-> t, rescue |-> d.rescue]
    BY DEF IsDb
<1>2. ASSUME NEW e, NEW a, NEW v, NEW s, NEW r,
             e = [part |-> a, version |-> v, state |-> s, txs |-> t, rescue |-> r]
      PROVE  [e EXCEPT !.part = p] =
                 [part |-> p, version |-> v, state |-> s, txs |-> t, rescue |-> r]
    BY <1>2
<1> HIDE DEF f
<1>3. [f EXCEPT !.part = p] =
          [part |-> p, version |-> d.version, state |-> d.state,
           txs |-> t, rescue |-> d.rescue]
    BY <1>1, <1>2
<1> USE DEF f
<1> QED
    BY <1>3, Zenon

\* epoch_restore makes the directory.
LEMMA BeginInv ==
    ASSUME RescueInv, NEW n \in Node, Begin(n), Unchanged
    PROVE  RescueInv'
<1> DEFINE d == [db[n] EXCEPT !.part = "partial"]
<1>1. plan' = [m \in Node |-> IF m = n THEN plan'[n] ELSE plan[m]]
    BY Zenon DEF Begin, RescueInv, Shape
<1>b. bundle'[n] = bundle[n] /\ bundle' = [m \in Node |-> IF m = n THEN bundle'[n] ELSE bundle[m]]
    BY Zenon DEF Begin, RescueInv, Shape
<1>2. IsDb(db[n]) /\ db[n].part = "none" /\ db[n].rescue = <<>>
    BY DEF Begin, RescueInv, Shape, NodeInv, Announced
<1>3. IsDb(d) /\ d.part = "partial" /\ d.rescue = <<>>
    BY <1>2 DEF IsDb
<1>4. db' = [db EXCEPT ![n] = d] /\ Goto(n, "load") /\ UNCHANGED <<config, told>>
    BY DEF Begin, Unchanged
<1>5. db'[n] = d /\ pc'[n] = "load"
    BY <1>4 DEF Goto, RescueInv, Shape
<1> HIDE DEF d
<1>6. Cut(bundle'[n], d)
    BY <1>3 DEF Cut
<1>7. Progress(n)'
    BY <1>3, <1>5 DEF Progress
<1> QED
    BY <1>1, <1>b, <1>3, <1>4, <1>6, <1>7, RestoringStep

\* RestoreBundle::load finds manifests that go together, or it fails.
LEMMA LoadInv ==
    ASSUME RescueInv, NEW n \in Node, Load(n), Unchanged
    PROVE  RescueInv'
<1>1. PICK seen \in SUBSET bundle[n].bad :
        \/ \E m \in Loaded(bundle[n].good \cup seen) :
            /\ \A k \in 1 .. 3 : m[k] \in bundle[n].good
            /\ plan' = [plan EXCEPT ![n] = m]
            /\ Goto(n, "epoch")
        \/ Goto(n, "idle") /\ UNCHANGED plan
    BY DEF Load
<1>2. UNCHANGED <<db, bundle, config, told>> /\ pc[n] = "load"
    BY DEF Load, Unchanged
<1>b. bundle'[n] = bundle[n] /\ bundle' = [m \in Node |-> IF m = n THEN bundle'[n] ELSE bundle[m]]
    BY <1>2, Zenon DEF RescueInv, Shape
<1>3. CASE Goto(n, "idle") /\ UNCHANGED plan
    <2>1. plan' = [m \in Node |-> IF m = n THEN plan'[n] ELSE plan[m]]
        BY <1>3, Zenon DEF RescueInv, Shape
    <2> QED
        BY <1>b, <1>2, <1>3, <2>1, IdleStep
<1>4. ASSUME NEW m \in Loaded(bundle[n].good \cup seen),
             \A k \in 1 .. 3 : m[k] \in bundle[n].good,
             plan' = [plan EXCEPT ![n] = m], Goto(n, "epoch")
      PROVE  RescueInv'
    <2>1. OneCut(bundle[n], m)
        <3>1. m[1] \in bundle[n].good /\ m[2] \in bundle[n].good
            BY <1>4
        <3> QED
            BY <3>1, LoadedIsCut
    <2>2. plan'[n] = m /\ plan' = [k \in Node |-> IF k = n THEN plan'[n] ELSE plan[k]]
        BY <1>4 DEF RescueInv, Shape
    <2>3. pc'[n] = "epoch"
        BY <1>4 DEF Goto, RescueInv, Shape
    <2>4. /\ IsDb(db[n]) /\ db[n].part = "partial" /\ db[n].rescue = <<>>
          /\ Cut(bundle[n], db[n])
        BY <1>2 DEF RescueInv, Shape, NodeInv, Progress, Announced
    <2>5. Progress(n)'
        BY <1>2, <2>1, <2>2, <2>3, <2>4 DEF Progress
    <2>6. db' = [db EXCEPT ![n] = db[n]]
        BY <1>2 DEF RescueInv, Shape
    <2> QED
        BY <1>b, <1>2, <1>4, <2>2, <2>4, <2>5, <2>6, RestoringStep
<1> QED
    BY <1>1, <1>3, <1>4

\* run_restore of the epoch ending: the waypoint's version is in place.
LEMMA RestoreEpochInv ==
    ASSUME RescueInv, NEW n \in Node, RestoreEpoch(n), Unchanged
    PROVE  RescueInv'
<1> DEFINE d == [db[n] EXCEPT !.version = EndVersion[plan[n][1].num]]
<1>1. plan' = [m \in Node |-> IF m = n THEN plan'[n] ELSE plan[m]] /\ plan'[n] = plan[n]
    BY Zenon DEF RestoreEpoch, RescueInv, Shape
<1>b. bundle'[n] = bundle[n] /\ bundle' = [m \in Node |-> IF m = n THEN bundle'[n] ELSE bundle[m]]
    BY Zenon DEF RestoreEpoch, RescueInv, Shape
<1>2. IsDb(db[n]) /\ db[n].part = "partial" /\ db[n].rescue = <<>> /\ OneCut(bundle[n], plan[n])
    BY DEF RestoreEpoch, RescueInv, Shape, NodeInv, Progress, Announced
<1>3. /\ IsDb(d) /\ d.part = "partial" /\ d.rescue = <<>>
      /\ d.version = EndVersion[plan[n][1].num]
    BY <1>2 DEF IsDb
<1>4. db' = [db EXCEPT ![n] = d] /\ Goto(n, "snapshot") /\ UNCHANGED <<config, told>>
    BY DEF RestoreEpoch, Unchanged
<1>5. db'[n] = d /\ pc'[n] = "snapshot"
    BY <1>4 DEF Goto, RescueInv, Shape
<1> HIDE DEF d
<1>6. Cut(bundle'[n], d)
    BY <1>3 DEF Cut
<1>7. Progress(n)'
    BY <1>1, <1>b, <1>2, <1>3, <1>5 DEF Progress
<1> QED
    BY <1>1, <1>b, <1>3, <1>4, <1>6, <1>7, RestoringStep

\* run_restore of the snapshot: the state of the folder that was found.
LEMMA RestoreSnapshotInv ==
    ASSUME RescueInv, NEW n \in Node, RestoreSnapshot(n), Unchanged
    PROVE  RescueInv'
<1> DEFINE d == [db[n] EXCEPT !.state = EndVersion[plan[n][2].num]]
<1>1. plan' = [m \in Node |-> IF m = n THEN plan'[n] ELSE plan[m]] /\ plan'[n] = plan[n]
    BY Zenon DEF RestoreSnapshot, RescueInv, Shape
<1>b. bundle'[n] = bundle[n] /\ bundle' = [m \in Node |-> IF m = n THEN bundle'[n] ELSE bundle[m]]
    BY Zenon DEF RestoreSnapshot, RescueInv, Shape
<1>2. /\ IsDb(db[n]) /\ db[n].part = "partial" /\ db[n].rescue = <<>> /\ OneCut(bundle[n], plan[n])
      /\ db[n].version = EndVersion[plan[n][1].num]
    BY DEF RestoreSnapshot, RescueInv, Shape, NodeInv, Progress, Announced
<1>3. /\ IsDb(d) /\ d.part = "partial" /\ d.rescue = <<>>
      /\ d.version = EndVersion[plan[n][1].num]
      /\ d.state = EndVersion[plan[n][2].num]
    BY <1>2 DEF IsDb
<1>4. db' = [db EXCEPT ![n] = d] /\ Goto(n, "transaction") /\ UNCHANGED <<config, told>>
    BY DEF RestoreSnapshot, Unchanged
<1>5. db'[n] = d /\ pc'[n] = "transaction"
    BY <1>4 DEF Goto, RescueInv, Shape
<1> HIDE DEF d
<1>6. Cut(bundle'[n], d)
    BY <1>3 DEF Cut
<1>7. Progress(n)'
    BY <1>1, <1>b, <1>2, <1>3, <1>5 DEF Progress
<1> QED
    BY <1>1, <1>b, <1>3, <1>4, <1>6, <1>7, RestoringStep

\* run_restore of the transactions: the database is whole, and a cut.
LEMMA RestoreTransactionsInv ==
    ASSUME RescueInv, NEW n \in Node, RestoreTransactions(n), Unchanged
    PROVE  RescueInv'
<1> DEFINE d == [db[n] EXCEPT !.txs = plan[n][3].num, !.part = "whole"]
<1>1. plan' = [m \in Node |-> IF m = n THEN plan'[n] ELSE plan[m]]
    BY DEF RestoreTransactions, RescueInv, Shape
<1>b. bundle'[n] = bundle[n] /\ bundle' = [m \in Node |-> IF m = n THEN bundle'[n] ELSE bundle[m]]
    BY Zenon DEF RestoreTransactions, RescueInv, Shape
<1>2. /\ IsDb(db[n]) /\ db[n].rescue = <<>> /\ OneCut(bundle[n], plan[n])
      /\ db[n].version = EndVersion[plan[n][1].num]
      /\ db[n].state = EndVersion[plan[n][2].num]
    BY DEF RestoreTransactions, RescueInv, Shape, NodeInv, Progress, Announced
<1>3. /\ IsDb(d) /\ d.part = "whole" /\ d.rescue = <<>>
      /\ d.version = EndVersion[plan[n][1].num]
      /\ d.state = EndVersion[plan[n][2].num]
      /\ d.txs = plan[n][3].num
    <2>1. d = [part |-> "whole", version |-> db[n].version, state |-> db[n].state,
               txs |-> plan[n][3].num, rescue |-> db[n].rescue]
        <3> DEFINE e == db[n]
                   t == plan[n][3].num
        <3>1. IsDb(e)
            BY <1>2
        <3> HIDE DEF e, t
        <3>2. [e EXCEPT !.txs = t, !.part = "whole"] =
                  [part |-> "whole", version |-> e.version, state |-> e.state,
                   txs |-> t, rescue |-> e.rescue]
            BY <3>1, WriteTransactions, Zenon
        <3> QED
            BY <3>2, Zenon DEF e, t
    <2> HIDE DEF d
    <2> QED
        BY <1>2, <2>1 DEF IsDb
<1>4. db' = [db EXCEPT ![n] = d] /\ Goto(n, "genesis") /\ UNCHANGED <<config, told>>
    BY DEF RestoreTransactions, Unchanged
<1>5. db'[n] = d /\ pc'[n] = "genesis"
    BY <1>4 DEF Goto, RescueInv, Shape
<1> HIDE DEF d
<1>6. Cut(bundle'[n], d)
    BY <1>b, <1>2, <1>3 DEF Cut, OneCut, Covers
<1>7. Progress(n)'
    BY <1>5 DEF Progress
<1> QED
    BY <1>1, <1>b, <1>3, <1>4, <1>6, <1>7, RestoringStep

\* The operator deletes the database.
LEMMA CleanUpInv ==
    ASSUME RescueInv, NEW n \in Node, CleanUp(n), Unchanged
    PROVE  RescueInv'
<1>1. plan' = [m \in Node |-> IF m = n THEN plan'[n] ELSE plan[m]]
    BY Zenon DEF CleanUp, RescueInv, Shape
<1>2. IsDb(NoDb) /\ NoDb.rescue = <<>> /\ Cut(bundle'[n], NoDb)
    BY DEF IsDb, NoDb, Cut
<1>b. bundle' = [m \in Node |-> IF m = n THEN bundle'[n] ELSE bundle[m]]
    BY DEF CleanUp, RescueInv, Shape
<1>3. db' = [db EXCEPT ![n] = NoDb] /\ UNCHANGED <<config, told>>
    BY DEF CleanUp, Unchanged
<1>4. Goto(n, "idle") /\ pc'[n] = "idle"
    BY DEF CleanUp, Goto, RescueInv, Shape
<1>5. Progress(n)'
    BY <1>4 DEF Progress
<1> QED
    BY <1>1, <1>b, <1>2, <1>3, <1>4, <1>5, RestoringStep

\* check_rescue_bootstraps announces one more waypoint.
LEMMA CheckInv ==
    ASSUME RescueInv, NEW n \in Node, Check(n)
    PROVE  RescueInv'
<1> USE DEF RescueInv, Shape
<1>1. told' \in Seq(ToSet(told')) /\ ToSet(told) \subseteq ToSet(told')
    BY ToldGrows DEF Check
<1>2. pc'[n] = "idle" /\ pc' = [m \in Node |-> IF m = n THEN pc'[n] ELSE pc[m]]
    BY DEF Check, Goto
<1>3. /\ db' = [m \in Node |-> IF m = n THEN db'[n] ELSE db[m]]
      /\ plan' = [m \in Node |-> IF m = n THEN plan'[n] ELSE plan[m]]
      /\ bundle' = [m \in Node |-> IF m = n THEN bundle'[n] ELSE bundle[m]]
      /\ config' = [m \in Node |-> IF m = n THEN config'[n] ELSE config[m]]
    BY Zenon DEF Check
<1>4. db' = db /\ bundle' = bundle /\ config' = config
    BY DEF Check
<1>5. NodeInv(n)'
    <2>1. Cut(bundle[n], db[n]) /\ Announced(n)
        BY DEF NodeInv
    <2>2. Progress(n)'
        BY <1>2 DEF Progress
    <2>3. Announced(n)'
        BY <1>1, <1>2, <1>4, <2>1 DEF Announced, Ledger
    <2> QED
        BY <1>4, <2>1, <2>2, <2>3 DEF NodeInv
<1>6. IsDb(db'[n])
    BY <1>4
<1> HIDE DEF RescueInv, Shape
<1> QED
    BY <1>1, <1>2, <1>3, <1>5, <1>6, OneNode

\* BootstrapOpts::run commits the file to a database where it leads to a
\* waypoint that was announced.
LEMMA BootstrapInv ==
    ASSUME RescueInv, NEW n \in Node, Bootstrap(n)
    PROVE  RescueInv'
<1> DEFINE d == [db[n] EXCEPT !.rescue = Append(@, copy[n][1])]
<1> USE DEF RescueInv, Shape
<1>1. db' = [db EXCEPT ![n] = d] /\ Goto(n, "config")
      /\ UNCHANGED <<bundle, plan, config, told>>
    BY DEF Bootstrap
<1>2. /\ IsDb(db[n]) /\ db[n].part = "whole" /\ Cut(bundle[n], db[n])
      /\ Announced(n)
    BY DEF Bootstrap, Ready, NodeInv
<1>3. /\ IsDb(d) /\ d.part = "whole" /\ d.version = db[n].version
      /\ d.state = db[n].state /\ d.txs = db[n].txs
      /\ d.rescue = Append(db[n].rescue, copy[n][1])
    <2>1. d = [part |-> db[n].part, version |-> db[n].version, state |-> db[n].state,
               txs |-> db[n].txs, rescue |-> Append(db[n].rescue, copy[n][1])]
        BY <1>2, WriteRescue
    <2> HIDE DEF d
    <2> QED
        BY <1>2, <2>1 DEF IsDb
<1>4. Ledger(d) \in ToSet(told)
    <2>1. PICK w \in ToSet(told) : w = Calculate(Ledger(db[n]), copy[n][1])
        BY DEF Bootstrap, Verified
    <2>2. w = <<db[n].version, Append(db[n].rescue, copy[n][1]), db[n].state>>
        BY <2>1 DEF Calculate, Ledger
    <2> QED
        BY <1>3, <2>2 DEF Ledger
<1>5. db'[n] = d /\ db' = [m \in Node |-> IF m = n THEN db'[n] ELSE db[m]]
    BY <1>1
<1> HIDE DEF d
<1>6. pc'[n] = "config" /\ pc' = [m \in Node |-> IF m = n THEN pc'[n] ELSE pc[m]]
    BY <1>1 DEF Goto
<1>7. /\ plan' = [m \in Node |-> IF m = n THEN plan'[n] ELSE plan[m]]
      /\ bundle' = [m \in Node |-> IF m = n THEN bundle'[n] ELSE bundle[m]]
      /\ config' = [m \in Node |-> IF m = n THEN config'[n] ELSE config[m]]
    BY <1>1, Zenon
<1>8. NodeInv(n)'
    <2>1. Progress(n)'
        BY <1>6 DEF Progress
    <2>2. Cut(bundle'[n], d)
        BY <1>1, <1>2, <1>3 DEF Cut, Covers
    <2>3. Announced(n)'
        BY <1>1, <1>2, <1>3, <1>4, <1>5 DEF Announced
    <2> QED
        BY <1>5, <2>1, <2>2, <2>3 DEF NodeInv
<1>9. told' \in Seq(ToSet(told')) /\ ToSet(told) \subseteq ToSet(told') /\ IsDb(db'[n])
    BY <1>1, <1>3, <1>5
<1> HIDE DEF RescueInv, Shape
<1> QED
    BY <1>5, <1>6, <1>7, <1>8, <1>9, OneNode

\* A configuration is written with a ledger that was announced
\* (post_rescue_node_file_updates, PatchSafetyRules).
LEMMA ConfigureStep ==
    ASSUME RescueInv, NEW n \in Node, NEW w \in ToSet(told),
           config' = [config EXCEPT ![n] = w], pc' = [pc EXCEPT ![n] = "idle"],
           UNCHANGED <<bundle, plan, db, told>>
    PROVE  RescueInv'
<1> USE DEF RescueInv, Shape
<1>1. config'[n] = w /\ config' = [m \in Node |-> IF m = n THEN config'[n] ELSE config[m]]
    OBVIOUS
<1>2. pc'[n] = "idle" /\ pc' = [m \in Node |-> IF m = n THEN pc'[n] ELSE pc[m]]
    OBVIOUS
<1>3. /\ db' = [m \in Node |-> IF m = n THEN db'[n] ELSE db[m]]
      /\ bundle' = [m \in Node |-> IF m = n THEN bundle'[n] ELSE bundle[m]]
      /\ plan' = [m \in Node |-> IF m = n THEN plan'[n] ELSE plan[m]]
    BY Zenon
<1>4. NodeInv(n)'
    <2>1. Cut(bundle[n], db[n]) /\ Announced(n)
        BY DEF NodeInv
    <2>2. Progress(n)'
        BY <1>2 DEF Progress
    <2>3. Announced(n)'
        BY <1>1, <1>2, <2>1 DEF Announced, Ledger
    <2> QED
        BY <2>1, <2>2, <2>3 DEF NodeInv
<1>5. told' \in Seq(ToSet(told')) /\ ToSet(told) \subseteq ToSet(told') /\ IsDb(db'[n])
    OBVIOUS
<1> HIDE DEF RescueInv, Shape
<1> QED
    BY <1>1, <1>2, <1>3, <1>4, <1>5, OneNode

\* post_rescue_node_file_updates, after the commit.
LEMMA ConfigureInv ==
    ASSUME RescueInv, NEW n \in Node, Configure(n)
    PROVE  RescueInv'
<1>1. Ledger(db[n]) \in ToSet(told)
    BY DEF Configure, RescueInv, NodeInv, Announced
<1>2. /\ config' = [config EXCEPT ![n] = Ledger(db[n])]
      /\ pc' = [pc EXCEPT ![n] = "idle"]
      /\ UNCHANGED <<bundle, plan, db, told>>
    BY DEF Configure, Goto
<1> QED
    BY <1>1, <1>2, ConfigureStep

\* PatchSafetyRules, for the waypoint that was announced last.
LEMMA PatchInv ==
    ASSUME RescueInv, NEW n \in Node, PatchSafetyRules(n)
    PROVE  RescueInv'
<1>1. told # <<>>
    BY DEF PatchSafetyRules, Goal, Ledger, None
<1>2. Goal = told[Len(told)]
    BY <1>1 DEF Goal, Last
<1>3. Goal \in ToSet(told)
    BY <1>1, <1>2 DEF RescueInv, Shape, ToSet
<1>4. /\ config' = [config EXCEPT ![n] = Goal]
      /\ pc' = [pc EXCEPT ![n] = "idle"]
      /\ UNCHANGED <<bundle, plan, db, told>>
    BY DEF PatchSafetyRules, Ready, restoreVars, RescueInv, Shape
<1> QED
    BY <1>3, <1>4, ConfigureStep

\* Every step of a coordinator, of an operator and of the archive keeps the
\* invariant.
LEMMA NextInv ==
    ASSUME RescueInv, [Next]_vars
    PROVE  RescueInv'
<1>1. CASE UNCHANGED vars
    BY <1>1, QuietStep DEF vars, restoreVars
<1>2. CASE Publish /\ Unchanged
    BY <1>2, QuietStep DEF Publish, Unchanged
<1>3. ASSUME NEW n \in Node, Operate(n) \/ ReplaceAgain(n) \/ Fail(n)
      PROVE  RescueInv'
    <2>1. CASE Copy(n)
        BY <2>1, QuietStep DEF Copy, restoreVars
    <2>2. CASE Bootstrap(n)
        BY <2>2, BootstrapInv
    <2>3. CASE Configure(n)
        BY <2>3, ConfigureInv
    <2>4. CASE PatchSafetyRules(n)
        BY <2>4, PatchInv
    <2>5. CASE Discard(n)
        BY <2>5, CleanUpInv DEF Discard
    <2>6. CASE Replace(n) \/ ReplaceAgain(n)
        <3>1. Download(n, Target) /\ Unchanged /\ db[n].part = "none"
            BY <2>6 DEF Replace, ReplaceAgain
        <3> QED
            BY <3>1, DownloadInv
    <2>7. CASE Restore(n)
        BY <2>7, BeginInv DEF Restore
    <2>8. CASE Check(n)
        BY <2>8, CheckInv
    <2>9. CASE RestoreStep(n) /\ Unchanged
        BY <2>9, FetchInv, LoadInv, RestoreEpochInv, RestoreSnapshotInv,
           RestoreTransactionsInv, BootstrapDbInv DEF RestoreStep
    <2>10. CASE Fail(n)
        BY <2>10, DieInv, FetchInv DEF Fail
    <2> QED
        BY <1>3, <2>1, <2>2, <2>3, <2>4, <2>5, <2>6, <2>7, <2>8, <2>9, <2>10
        DEF Operate
<1>4. ASSUME NEW n \in Node, NEW c \in Command, Make(n, c)
      PROVE  RescueInv'
    BY <1>4, MakeInv
<1> QED
    BY <1>1, <1>2, <1>3, <1>4 DEF Next

\* The invariant holds in every state.
LEMMA RescueInvariant == Spec => []RescueInv
<1>1. Init => RescueInv
    BY InitInv
<1>2. RescueInv /\ [Next]_vars => RescueInv'
    BY NextInv
<1> QED
    BY <1>1, <1>2, PTL DEF Spec

-----------------------------------------------------------------------------
(***************************************************************************)
(* The rescue: the results                                                 *)
(***************************************************************************)

\* Whatever downloads from a growing archive have left in a bundle, and
\* wherever earlier commands died, a database that epoch_restore has finished
\* is one cut of the chain, or the name of another epoch's state in the bundle
\* was mistaken for that of its own: for every archive, every length of its
\* chunks and every pair of names that are alike.
THEOREM RestoredIsOneCut == Spec => []RestoredIsCut
<1>1. RescueInv => RestoredIsCut
    BY DEF RescueInv, NodeInv, Cut, RestoredIsCut
<1> QED
    BY <1>1, RescueInvariant, PTL

\* A rescue transaction is in a database only as part of a ledger that a
\* coordinator has checked and announced, whichever files and waypoints the
\* operators combine: BootstrapOpts::run refuses all others.
THEOREM RescuesAreAnnounced == Spec => []OnlyAnnounced
<1>1. RescueInv => OnlyAnnounced
    BY DEF RescueInv, NodeInv, Announced, OnlyAnnounced
<1> QED
    BY <1>1, RescueInvariant, PTL

\* No node is ever configured with a waypoint that no coordinator announced,
\* also when a bootstrap died between the commit and the configuration and the
\* file was patched by hand.
THEOREM ConfigurationsAreAnnounced == Spec => []ConfiguredIsAnnounced
<1>1. RescueInv => ConfiguredIsAnnounced
    BY DEF RescueInv, NodeInv, Announced, ConfiguredIsAnnounced
<1> QED
    BY <1>1, RescueInvariant, PTL

-----------------------------------------------------------------------------
(***************************************************************************)
(* The ceremony: its inductive invariant                                   *)
(***************************************************************************)

\* The registrations of the first k directories of the layout, as they are now.
Owners(k) == [i \in 1..k |-> main[Directories[i]].owner]

Operators(k) == [i \in 1..k |-> main[Directories[i]].operator]

\* The genesis of the repository as it is now.
Canon ==
    LET k == Len(Directories) IN GenesisOf(Owners(k), Operators(k))

\* What a build has fetched by the time it has both files of m users.
Fetching(j, k, m) ==
    /\ j = [todo |-> Directories, owners |-> Owners(k), operators |-> Operators(m)]
    /\ k \in {m, m + 1}

\* A participant with a build of the repository as it is now.
Current(u) ==
    /\ ~testnet
    /\ stage[u] = "fetch" => \E k, m \in Nat : Fetching(job[u], k, m)
    /\ stage[u] = "written" => blob[u] = Canon
    /\ stage[u] \notin {"fetch", "written"} => blob[u] = Canon /\ waypoint[u] = Canon

\* The files and builds are kept for each participant.
Kept ==
    /\ stage = [u \in Users |-> stage[u]]
    /\ job = [u \in Users |-> job[u]]
    /\ blob = [u \in Users |-> blob[u]]
    /\ waypoint = [u \in Users |-> waypoint[u]]
    /\ moved = [u \in Users |-> moved[u]]

CeremonyInv == Kept /\ \A u \in Users : ~moved[u] => Current(u)

-----------------------------------------------------------------------------
(***************************************************************************)
(* The ceremony: its steps                                                 *)
(***************************************************************************)

\* At the start nobody has built.
LEMMA CeremonyInitially == CeremonyInit => CeremonyInv
BY DEF CeremonyInit, CeremonyInv, Kept

\* A sequence that is given by its elements has the length it is given for.
LEMMA FetchedLength ==
    ASSUME NEW k \in Nat
    PROVE  Len(Owners(k)) = k /\ Len(Operators(k)) = k
BY DEF Owners, Operators

\* Steps that leave the repository and the builds of a participant alone.
LEMMA CurrentKept ==
    ASSUME NEW u \in Users, Current(u), UNCHANGED <<main, layout>>, Quiet,
           job'[u] = job[u], blob'[u] = blob[u], waypoint'[u] = waypoint[u],
           \/ stage'[u] = stage[u]
           \/ stage[u] \notin {"fetch", "written"} /\ stage'[u] \notin {"fetch", "written"}
    PROVE  Current(u)'
<1>1. Directories' = Directories
  BY DEF Directories
<1>2. Canon' = Canon
  BY <1>1 DEF Canon, GenesisOf, Owners, Operators, Quiet
<1>3. \A k, m : Fetching(job[u], k, m) => Fetching(job[u], k, m)'
  BY <1>1 DEF Fetching, Owners, Operators
<1> QED
  BY <1>2, <1>3 DEF Current, Quiet


\* A prefix of a list, with the next element, is the longer prefix.
LEMMA PrefixAppend ==
    ASSUME NEW f, NEW k \in Nat
    PROVE  Append([i \in 1..k |-> f[i]], f[k + 1]) = [i \in 1..(k + 1) |-> f[i]]
<1> DEFINE S == {f[i] : i \in 1..(k + 1)}
           s == [i \in 1..k |-> f[i]]
<1>1. s \in Seq(S) /\ Len(s) = k /\ f[k + 1] \in S
  OBVIOUS
<1>2. \A i \in 1..k : s[i] = f[i]
  OBVIOUS
<1> HIDE DEF s
<1>3. Append(s, f[k + 1]) = [i \in 1..(k + 1) |-> f[i]]
  BY <1>1, <1>2
<1> QED
  BY <1>3 DEF s

\* Fetching one more owner.yaml, or one more operator.yaml, adds the next one.
LEMMA FetchedOneMore ==
    ASSUME NEW k \in Nat
    PROVE  /\ Append(Owners(k), main[Directories[k + 1]].owner) = Owners(k + 1)
           /\ Append(Operators(k), main[Directories[k + 1]].operator)
                  = Operators(k + 1)
<1> DEFINE a == [i \in Nat |-> main[Directories[i]].owner]
           b == [i \in Nat |-> main[Directories[i]].operator]
<1>1. /\ Owners(k) = [i \in 1..k |-> a[i]] /\ Owners(k + 1) = [i \in 1..(k + 1) |-> a[i]]
      /\ Operators(k) = [i \in 1..k |-> b[i]]
      /\ Operators(k + 1) = [i \in 1..(k + 1) |-> b[i]]
  BY DEF Owners, Operators
<1>2. /\ a[k + 1] = main[Directories[k + 1]].owner
      /\ b[k + 1] = main[Directories[k + 1]].operator
  OBVIOUS
<1> HIDE DEF a, b
<1> QED
  BY <1>1, <1>2, PrefixAppend

\* A step of a participant that leaves the builds alone.
Aside(u) ==
    /\ UNCHANGED <<main, layout, job, blob, waypoint, moved>> /\ Quiet
    /\ stage[u] \notin {"fetch", "written"}
    /\ \E p : p \notin {"fetch", "written"} /\ Proceed(u, p)

\* The steps of the dialogue and of the registration are such steps.
LEMMA AsideSteps ==
    ASSUME NEW u \in Users,
           \/ SetOperator(u) \/ SetOwner(u) \/ Again(u)
           \/ PutOperator(u) \/ PutOwner(u) \/ MakePullRequest(u)
           \/ \E k \in {1, 2} : Freshen(u, k)
           \/ DialogueFails(u)
    PROVE  Aside(u)
<1> USE DEF Aside, repo, output, files
<1>1. CASE SetOperator(u)
  BY <1>1 DEF SetOperator
<1>2. CASE SetOwner(u)
  BY <1>2 DEF SetOwner
<1>3. CASE Again(u)
  BY <1>3 DEF Again
<1>4. CASE PutOperator(u)
  BY <1>4 DEF PutOperator
<1>5. CASE PutOwner(u)
  BY <1>5 DEF PutOwner
<1>6. CASE MakePullRequest(u)
  BY <1>6 DEF MakePullRequest
<1>7. CASE \E k \in {1, 2} : Freshen(u, k)
  BY <1>7 DEF Freshen
<1>8. CASE DialogueFails(u)
  BY <1>8 DEF DialogueFails
<1> QED
  BY <1>1, <1>2, <1>3, <1>4, <1>5, <1>6, <1>7, <1>8

\* They keep the invariant.
LEMMA AsideKeeps ==
    ASSUME CeremonyInv, NEW u \in Users, Aside(u)
    PROVE  CeremonyInv'
<1>1. PICK p : p \notin {"fetch", "written"} /\ stage' = [stage EXCEPT ![u] = p]
  BY DEF Aside, Proceed
<1>2. Kept'
  BY <1>1 DEF CeremonyInv, Kept, Aside
<1>3. ASSUME NEW v \in Users, ~moved'[v]
      PROVE  Current(v)'
  <2>1. Current(v)
    BY <1>3 DEF CeremonyInv, Aside
  <2>2. \/ stage'[v] = stage[v]
        \/ stage[v] \notin {"fetch", "written"} /\ stage'[v] \notin {"fetch", "written"}
    BY <1>1 DEF CeremonyInv, Kept, Aside
  <2> QED
    BY <2>1, <2>2, CurrentKept DEF Aside
<1> QED
  BY <1>2, <1>3 DEF CeremonyInv

\* A change of the repository makes every build out of date.
LEMMA RepositoryKeeps ==
    ASSUME CeremonyInv, NEW u \in Users, Merge(u) \/ SetLayout(u)
    PROVE  CeremonyInv'
BY DEF CeremonyInv, Kept, Merge, SetLayout, output, files

\* A step of the build of one participant.
Alone(u) ==
    /\ Kept' /\ UNCHANGED <<main, layout>> /\ Quiet
    /\ \A v \in Users :
           v # u => /\ stage'[v] = stage[v] /\ job'[v] = job[v] /\ blob'[v] = blob[v]
                    /\ waypoint'[v] = waypoint[v] /\ moved'[v] = moved[v]

\* It keeps the invariant if it does so for that participant.
LEMMA AloneKeeps ==
    ASSUME CeremonyInv, NEW u \in Users, Alone(u), ~moved'[u] => Current(u)'
    PROVE  CeremonyInv'
<1>1. ASSUME NEW v \in Users, v # u, ~moved'[v]
      PROVE  Current(v)'
  <2>1. Current(v)
    BY <1>1 DEF CeremonyInv, Alone
  <2> QED
    BY <1>1, <2>1, CurrentKept DEF Alone
<1> QED
  BY <1>1 DEF CeremonyInv, Alone

\* A wizard that dies leaves no build.
LEMMA DieKeeps ==
    ASSUME CeremonyInv, NEW u \in Users, WizardDies(u)
    PROVE  CeremonyInv'
<1>1. Alone(u) /\ moved'[u]
  BY DEF WizardDies, Proceed, repo, output, files,
         CeremonyInv, Kept, Alone
<1> QED
  BY <1>1, AloneKeeps

\* A build begins with the layout as it is.
LEMMA ReadyKeeps ==
    ASSUME CeremonyInv, NEW u \in Users, EveryoneReady(u)
    PROVE  CeremonyInv'
<1> DEFINE j == [todo |-> Directories, owners |-> Owners(0), operators |-> Operators(0)]
<1>1. j = [NoJob EXCEPT !.todo = Directories]
  BY DEF NoJob, Owners, Operators
<1>2. /\ stage' = [stage EXCEPT ![u] = "fetch"] /\ job' = [job EXCEPT ![u] = j]
      /\ moved' = [moved EXCEPT ![u] = FALSE] /\ ~testnet
      /\ UNCHANGED <<main, layout, blob, waypoint>> /\ Quiet
  BY <1>1, Zenon DEF EveryoneReady, Proceed, repo, output
<1>3. Alone(u)
  BY <1>2 DEF CeremonyInv, Kept, Alone
<1>4. Directories' = Directories
  BY <1>2 DEF Directories
<1>5. Fetching(j, 0, 0)'
  BY <1>2, <1>4 DEF Fetching, Owners, Operators
<1>6. job'[u] = j /\ stage'[u] = "fetch"
  BY <1>2 DEF CeremonyInv, Kept
<1>7. Current(u)'
  <2>1. Fetching(job[u], 0, 0)'
    BY <1>5, <1>6, <1>2, <1>4 DEF Fetching, Owners, Operators
  <2> QED
    BY <1>2, <1>6, <2>1 DEF Current, Quiet
<1> QED
  BY <1>3, <1>7, AloneKeeps

\* A fetch changes one list of a job.
LEMMA JobFetched ==
    ASSUME NEW j, NEW t, NEW o, NEW p, NEW x,
           j = [todo |-> t, owners |-> o, operators |-> p]
    PROVE  /\ [j EXCEPT !.owners = x] = [todo |-> t, owners |-> x, operators |-> p]
           /\ [j EXCEPT !.operators = x] = [todo |-> t, owners |-> o, operators |-> x]
OBVIOUS

\* A build goes on with the registrations as they are.
LEMMA FetchKeeps ==
    ASSUME CeremonyInv, NEW u \in Users,
           FetchOwner(u) \/ FetchOperator(u)
    PROVE  CeremonyInv'
<1>1. /\ stage[u] = "fetch"
      /\ UNCHANGED <<main, layout, stage, blob, waypoint, moved>> /\ Quiet
  BY DEF FetchOwner, FetchOperator, repo, output
<1>2. PICK j : job' = [job EXCEPT ![u] = j]
  BY Zenon DEF FetchOwner, FetchOperator
<1>3. Alone(u)
  BY <1>1, <1>2 DEF CeremonyInv, Kept, Alone
<1>4. Directories' = Directories
  BY <1>1 DEF Directories
<1>5. ASSUME ~moved[u]
      PROVE  Current(u)'
  <2>1. PICK k \in Nat, m \in Nat : Fetching(job[u], k, m)
    BY <1>1, <1>5 DEF CeremonyInv, Current
  <2>2. /\ job[u].todo = Directories
        /\ job[u].owners = Owners(k) /\ job[u].operators = Operators(m)
        /\ Len(job[u].owners) = k /\ Len(job[u].operators) = m
    BY <2>1, FetchedLength DEF Fetching
  <2>3. ~testnet' /\ stage'[u] = "fetch"
    BY <1>1, <1>5 DEF CeremonyInv, Current, Quiet
  <2>4. CASE FetchOwner(u)
    <3>1. k < m + 1
      BY <2>2, <2>4 DEF FetchOwner
    <3>2. k = m
      BY <3>1, <2>1 DEF Fetching
    <3>3. job'[u] = [job[u] EXCEPT
                         !.owners = Append(Owners(k), main[Directories[k + 1]].owner)]
      BY <2>2, <3>2, <2>1, <2>4 DEF Fetching, FetchOwner, CeremonyInv, Kept
    <3>3a. job[u] = [todo |-> Directories, owners |-> Owners(k),
                    operators |-> Operators(m)]
      BY <2>1 DEF Fetching
    <3>3b. Append(Owners(k), main[Directories[k + 1]].owner) = Owners(k + 1)
      BY FetchedOneMore
    <3>4. job'[u] = [todo |-> Directories, owners |-> Owners(k + 1),
                     operators |-> Operators(m)]
      BY <3>3, <3>3a, <3>3b, JobFetched
    <3>5. Fetching(job'[u], k + 1, m)
      BY <3>4, <3>2 DEF Fetching
    <3>6. Fetching(job[u], k + 1, m)'
      BY <3>5, <1>1, <1>4 DEF Fetching, Owners, Operators
    <3> QED
      BY <3>6, <2>3 DEF Current
  <2>5. CASE FetchOperator(u)
    <3>1. m < k
      BY <2>2, <2>5 DEF FetchOperator
    <3>2. k = m + 1
      BY <3>1, <2>1 DEF Fetching
    <3>3. job'[u] = [job[u] EXCEPT
                         !.operators = Append(Operators(m),
                                              main[Directories[m + 1]].operator)]
      BY <2>2, <3>2, <2>1, <2>5 DEF Fetching, FetchOperator, CeremonyInv, Kept
    <3>3a. job[u] = [todo |-> Directories, owners |-> Owners(k),
                    operators |-> Operators(m)]
      BY <2>1 DEF Fetching
    <3>3b. Append(Operators(m), main[Directories[m + 1]].operator)
               = Operators(m + 1)
      BY FetchedOneMore
    <3>4. job'[u] = [todo |-> Directories, owners |-> Owners(k),
                     operators |-> Operators(m + 1)]
      BY <3>3, <3>3a, <3>3b, JobFetched
    <3>5. Fetching(job'[u], k, m + 1)
      BY <3>4, <3>2 DEF Fetching
    <3>6. Fetching(job[u], k, m + 1)'
      BY <3>5, <1>1, <1>4 DEF Fetching, Owners, Operators
    <3> QED
      BY <3>6, <2>3 DEF Current
  <2> QED
    BY <2>4, <2>5
<1>6. ~moved'[u] => Current(u)'
  BY <1>1, <1>5
<1> QED
  BY <1>3, <1>6, AloneKeeps

\* A build that has fetched everything, and finds it in order, has the genesis
\* of the repository as it is.
LEMMA WriteBlobKeeps ==
    ASSUME CeremonyInv, NEW u \in Users, WriteBlob(u)
    PROVE  CeremonyInv'
<1>1. Alone(u)
  BY DEF WriteBlob, Proceed, repo, CeremonyInv, Kept, Alone
<1>2. ASSUME ~moved'[u]
      PROVE  Current(u)'
  <2>1. /\ Agree(u) /\ Fetched(u) /\ stage[u] = "fetch"
        /\ stage'[u] = "written" /\ blob'[u] = Genesis(u) /\ ~moved[u]
    BY <1>2 DEF WriteBlob, Proceed, CeremonyInv, Kept
  <2>2. PICK k \in Nat, m \in Nat : Fetching(job[u], k, m)
    BY <2>1 DEF CeremonyInv, Current
  <2>3. /\ job[u].todo = Directories
        /\ job[u].owners = Owners(k) /\ job[u].operators = Operators(m)
        /\ Len(job[u].owners) = k /\ Len(job[u].operators) = m
    BY <2>2, FetchedLength DEF Fetching
  <2>4. m = Len(Directories) /\ k = m
    BY <2>1, <2>3 DEF Agree, Fetched
  <2>5. blob'[u] = Canon
    BY <2>1, <2>3, <2>4 DEF Genesis, Canon
  <2>6. Directories' = Directories
    BY <1>1 DEF Directories, Alone
  <2>7. Canon' = Canon
    BY <1>1, <2>6 DEF Canon, GenesisOf, Owners, Operators, Quiet, Alone
  <2>8. ~testnet'
    BY <1>1, <2>1 DEF CeremonyInv, Current, Alone, Quiet
  <2> QED
    BY <2>1, <2>5, <2>7, <2>8 DEF Current
<1> QED
  BY <1>1, <1>2, AloneKeeps

\* The waypoint is that of the genesis that was written.
LEMMA WriteWaypointKeeps ==
    ASSUME CeremonyInv, NEW u \in Users, WriteWaypoint(u)
    PROVE  CeremonyInv'
<1>1. Alone(u)
  BY DEF WriteWaypoint, Proceed, repo, CeremonyInv, Kept, Alone
<1>2. ASSUME ~moved'[u]
      PROVE  Current(u)'
  <2>1. /\ stage[u] = "written" /\ stage'[u] = "idle" /\ ~moved[u]
        /\ blob'[u] = blob[u] /\ waypoint'[u] = blob[u]
    BY <1>2 DEF WriteWaypoint, Proceed, CeremonyInv, Kept
  <2>2. blob[u] = Canon
    BY <2>1 DEF CeremonyInv, Current
  <2>3. Directories' = Directories
    BY <1>1 DEF Directories, Alone
  <2>4. Canon' = Canon
    BY <1>1, <2>3 DEF Canon, GenesisOf, Owners, Operators, Quiet, Alone
  <2>5. ~testnet'
    BY <1>1, <2>1 DEF CeremonyInv, Current, Alone, Quiet
  <2> QED
    BY <2>1, <2>2, <2>4, <2>5 DEF Current
<1> QED
  BY <1>1, <1>2, AloneKeeps

\* Nobody builds from the repository for a testnet.
LEMMA TestGenesisKeeps ==
    ASSUME CeremonyInv, NEW u \in Users, TestGenesis(u)
    PROVE  CeremonyInv'
<1>1. Alone(u)
  BY DEF TestGenesis, Proceed, repo, CeremonyInv, Kept, Alone
<1>2. moved'[u]
  BY DEF TestGenesis, CeremonyInv, Current
<1> QED
  BY <1>1, <1>2, AloneKeeps

\* Steps of other parts of the network leave the ceremony alone.
LEMMA CeremonyStutter ==
    ASSUME CeremonyInv, UNCHANGED ceremonyVars
    PROVE  CeremonyInv'
<1> USE DEF ceremonyVars, repo, output, files
<1>1. Kept'
  BY DEF CeremonyInv, Kept
<1>2. ASSUME NEW u \in Users, ~moved'[u]
      PROVE  Current(u)'
  <2>1. Current(u)
    BY <1>2 DEF CeremonyInv
  <2> QED
    BY <2>1, CurrentKept DEF Quiet
<1> QED
  BY <1>1, <1>2 DEF CeremonyInv

\* Every step keeps the invariant.
LEMMA CeremonyStep == CeremonyInv /\ [CeremonyNext]_ceremonyVars => CeremonyInv'
<1> SUFFICES ASSUME CeremonyInv, [CeremonyNext]_ceremonyVars
             PROVE  CeremonyInv'
  OBVIOUS
<1>1. CASE UNCHANGED ceremonyVars
  BY <1>1, CeremonyStutter
<1>2. CASE CeremonyNext
  <2>1. PICK u \in Users :
            \/ Wizard(u) \/ DialogueFails(u)
            \/ Merge(u) \/ SetLayout(u) \/ WizardDies(u)
    BY <1>2 DEF CeremonyNext
  <2>2. CASE Wizard(u)
    BY <2>2, AsideSteps, AsideKeeps, ReadyKeeps, FetchKeeps, WriteBlobKeeps,
       WriteWaypointKeeps, TestGenesisKeeps DEF Wizard
  <2>3. CASE DialogueFails(u)
    BY <2>3, AsideSteps, AsideKeeps
  <2>4. CASE Merge(u) \/ SetLayout(u)
    BY <2>4, RepositoryKeeps
  <2>5. CASE WizardDies(u)
    BY <2>5, DieKeeps
  <2> QED
    BY <2>1, <2>2, <2>3, <2>4, <2>5
<1> QED
  BY <1>1, <1>2

-----------------------------------------------------------------------------
(***************************************************************************)
(* The ceremony: the result                                                *)
(***************************************************************************)

\* SameGenesis for any number of participants, any recovery file, any number of
\* failures and any order of merges: participants whose builds came to their end,
\* and began after the last change of the repository, hold one genesis.blob, and
\* the waypoint.txt that belongs to it.
THEOREM BuildsAgree == CeremonySpec => []SameGenesis
<1>1. CeremonyInv => SameGenesis
  <2>1. Canon # <<>>
    BY DEF Canon, GenesisOf
  <2> QED
    BY <2>1 DEF CeremonyInv, Current, SameGenesis, Absent
<1> QED
  BY CeremonyInitially, CeremonyStep, <1>1, PTL DEF CeremonySpec

-----------------------------------------------------------------------------
(***************************************************************************)
(* The migration: the loop over the records                                *)
(***************************************************************************)

\* Every nonempty set of natural numbers has a least element.
LEMMA LeastNumber ==
    ASSUME NEW Bad, Bad \subseteq Nat, Bad # {}
    PROVE  \E n \in Bad : \A m \in Bad : n <= m
<1>1. PICK n \in Bad : \A m \in Bad : <<m, n>> \notin OpToRel(<, Nat)
  BY NatLessThanWellFounded, WFMin
<1>2. ASSUME NEW m \in Bad, ~(n <= m) PROVE FALSE
  <2>1. <<m, n>> \in Nat \X Nat /\ m < n
    BY <1>2
  <2>2. <<m, n>> \in OpToRel(<, Nat)
    BY <2>1 DEF OpToRel
  <2>3. QED
    BY <1>1, <2>2
<1>3. QED
  BY <1>2

\* g is the chain after each of the first n records.
IsRun(g, list, n) ==
    g = [k \in 0 .. n |-> IF k = 0 THEN NoChain ELSE MigrateUser(g[k - 1], list[k])]

\* The function that the loop over the records defines; RunExists shows that
\* there is one.
RunOf(list) == CHOOSE g : IsRun(g, list, Len(list))

\* A migration ends with the chain after the last record.
LEMMA MigratedIsRun ==
    ASSUME NEW list
    PROVE  Migrated(list) = CumuDeposits(RunOf(list)[Len(list)], list)
BY DEF Migrated, RunOf, IsRun

\* The loop has a result, however many records there are.
LEMMA RunExists ==
    ASSUME NEW list, NEW n \in Nat
    PROVE  \E g : IsRun(g, list, n)
<1> DEFINE Bad == {k \in Nat : ~ \E g : IsRun(g, list, k)}
<1>1. SUFFICES ASSUME Bad # {} PROVE FALSE
  OBVIOUS
<1>2. Bad \subseteq Nat
  OBVIOUS
<1> HIDE DEF Bad
<1>3. PICK m \in Bad : \A k \in Bad : m <= k
  BY <1>1, <1>2, LeastNumber
<1> USE DEF Bad
<1>4. m # 0
  <2> DEFINE g == [k \in 0 .. 0 |-> NoChain]
  <2>1. IsRun(g, list, 0)
    BY DEF IsRun
  <2>2. QED
    BY <2>1
<1>5. m \in Nat /\ m - 1 \in Nat /\ m - 1 \notin Bad
  BY <1>3, <1>4
<1>6. PICK g : IsRun(g, list, m - 1)
  BY <1>5
<1> DEFINE h == [k \in 0 .. m |-> IF k = m THEN MigrateUser(g[m - 1], list[m]) ELSE g[k]]
<1>7. \A k \in 0 .. (m - 1) :
        g[k] = IF k = 0 THEN NoChain ELSE MigrateUser(g[k - 1], list[k])
  BY <1>6 DEF IsRun
<1>8. \A k \in 0 .. m : h[k] = IF k = 0 THEN NoChain ELSE MigrateUser(h[k - 1], list[k])
  <2>1. ASSUME NEW k \in 0 .. m, k = m
        PROVE  h[k] = IF k = 0 THEN NoChain ELSE MigrateUser(h[k - 1], list[k])
    BY <1>4, <1>5, <2>1
  <2>2. ASSUME NEW k \in 0 .. m, k # m
        PROVE  h[k] = IF k = 0 THEN NoChain ELSE MigrateUser(h[k - 1], list[k])
    <3>1. k \in 0 .. (m - 1) /\ h[k] = g[k]
      BY <1>5, <2>2
    <3>2. k # 0 => h[k - 1] = g[k - 1]
      BY <1>5, <2>2
    <3>3. QED
      BY <1>7, <3>1, <3>2
  <2>3. QED
    BY <2>1, <2>2
<1>9. IsRun(h, list, m)
  BY <1>8 DEF IsRun
<1>10. QED
  BY <1>9

-----------------------------------------------------------------------------
(***************************************************************************)
(* The migration: what one record changes                                  *)
(***************************************************************************)

\* A chain has the fields of NoChain.
IsChain(c) ==
    c = [balance |-> c.balance, slow |-> c.slow, comm |-> c.comm,
         receipts |-> c.receipts, deposits |-> c.deposits, escrow |-> c.escrow,
         minted |-> c.minted, tomb |-> c.tomb]

\* Coins are pledged for the account of a record.
Pledged(r) == r.role # "drop" /\ r.auth /\ r.pledge # <<>>

\* The account and its balance.
LEMMA UserFields ==
    ASSUME NEW c, NEW r, IsChain(c), r.role # "drop"
    PROVE  /\ IsChain(User(c, r))
           /\ User(c, r).tomb = c.tomb /\ User(c, r).slow = c.slow
           /\ User(c, r).escrow = c.escrow
           /\ User(c, r).balance =
                IF Created(r) THEN With(c.balance, r.account, r.balance[1]) ELSE c.balance
           /\ User(c, r).minted = IF Created(r) THEN c.minted + r.balance[1] ELSE c.minted
BY DEF User, IsChain, Created

\* The state of its slow wallet.
LEMMA SlowWalletFields ==
    ASSUME NEW c, NEW r, IsChain(c), r.role # "drop"
    PROVE  /\ IsChain(SlowWallet(c, r))
           /\ SlowWallet(c, r).tomb = c.tomb /\ SlowWallet(c, r).balance = c.balance
           /\ SlowWallet(c, r).minted = c.minted /\ SlowWallet(c, r).escrow = c.escrow
           /\ SlowWallet(c, r).slow =
                IF Slowed(r) THEN With(c.slow, r.account, r.slow[1]) ELSE c.slow
BY DEF SlowWallet, IsChain, Created, Slowed

\* Registry and receipts leave the coins alone.
LEMMA RegistryFields ==
    ASSUME NEW c, NEW r, IsChain(c)
    PROVE  /\ IsChain(CommunityWallet(c, r)) /\ IsChain(Receipts(c, r))
           /\ CommunityWallet(c, r).tomb = c.tomb /\ Receipts(c, r).tomb = c.tomb
           /\ CommunityWallet(c, r).balance = c.balance /\ Receipts(c, r).balance = c.balance
           /\ CommunityWallet(c, r).slow = c.slow /\ Receipts(c, r).slow = c.slow
           /\ CommunityWallet(c, r).escrow = c.escrow /\ Receipts(c, r).escrow = c.escrow
           /\ CommunityWallet(c, r).minted = c.minted /\ Receipts(c, r).minted = c.minted
BY DEF CommunityWallet, Receipts, IsChain

\* The pledge is minted as well.
LEMMA EscrowFields ==
    ASSUME NEW c, NEW r, IsChain(c), r.role # "drop"
    PROVE  /\ IsChain(InfraEscrow(c, r))
           /\ InfraEscrow(c, r).tomb = c.tomb /\ InfraEscrow(c, r).balance = c.balance
           /\ InfraEscrow(c, r).slow = c.slow
           /\ InfraEscrow(c, r).escrow =
                IF Pledged(r) THEN With(c.escrow, r.account, r.pledge[1]) ELSE c.escrow
           /\ InfraEscrow(c, r).minted =
                IF Pledged(r) THEN c.minted + r.pledge[1] ELSE c.minted
BY DEF InfraEscrow, IsChain, Pledged

\* What the fields of a record hold.
LEMMA RecordValues ==
    ASSUME NEW A, NEW r \in Record(A)
    PROVE  /\ r.balance # <<>> => r.balance[1] \in Nat
           /\ r.slow # <<>> => r.slow[1] \in Nat
           /\ r.pledge # <<>> => r.pledge[1] \in Nat
           /\ Amount(r.balance) \in Nat /\ Amount(r.pledge) \in Nat /\ Coins(r) \in Nat
           /\ r.auth \in BOOLEAN
<1>1. /\ r.balance # <<>> => r.balance[1] \in Nat
      /\ r.slow # <<>> => r.slow[1] \in Nat
      /\ r.pledge # <<>> => r.pledge[1] \in Nat
      /\ Amount(r.balance) \in Nat /\ Amount(r.pledge) \in Nat
      /\ r.auth \in BOOLEAN
  BY DEF Record, Amounts, Amount
<1>2. Coins(r) \in Nat
  BY <1>1 DEF Coins
<1>3. QED
  BY <1>1, <1>2

\* What a record that is not dropped changes.
LEMMA MigrateUserFields ==
    ASSUME NEW A, NEW r \in Record(A), NEW c, IsChain(c), c.minted \in Int, r.role # "drop"
    PROVE  LET d == MigrateUser(c, r)
           IN  /\ IsChain(d) /\ d.tomb = c.tomb
               /\ d.balance = IF Created(r) THEN With(c.balance, r.account, r.balance[1])
                              ELSE c.balance
               /\ d.slow = IF Slowed(r) THEN With(c.slow, r.account, r.slow[1]) ELSE c.slow
               /\ d.escrow = IF Pledged(r) THEN With(c.escrow, r.account, r.pledge[1])
                             ELSE c.escrow
               /\ d.minted = c.minted + Coins(r)
<1> DEFINE c1 == User(c, r)
           c2 == SlowWallet(c1, r)
           c3 == CommunityWallet(c2, r)
           c4 == Receipts(c3, r)
           c5 == InfraEscrow(c4, r)
<1>0. /\ r.balance # <<>> => r.balance[1] \in Nat
      /\ r.pledge # <<>> => r.pledge[1] \in Nat
      /\ Amount(r.pledge) \in Nat /\ Amount(r.balance) \in Nat /\ r.auth \in BOOLEAN
  BY RecordValues
<1>1. MigrateUser(c, r) = c5
  BY DEF MigrateUser
<1>2. /\ IsChain(c1) /\ c1.tomb = c.tomb /\ c1.slow = c.slow /\ c1.escrow = c.escrow
      /\ c1.balance = IF Created(r) THEN With(c.balance, r.account, r.balance[1])
                      ELSE c.balance
      /\ c1.minted = IF Created(r) THEN c.minted + r.balance[1] ELSE c.minted
  BY UserFields
<1> HIDE DEF c1
<1>3. /\ IsChain(c2) /\ c2.tomb = c1.tomb /\ c2.balance = c1.balance /\ c2.minted = c1.minted
      /\ c2.escrow = c1.escrow
      /\ c2.slow = IF Slowed(r) THEN With(c1.slow, r.account, r.slow[1]) ELSE c1.slow
  BY <1>2, SlowWalletFields
<1> HIDE DEF c2
<1>4. /\ IsChain(c3) /\ c3.tomb = c2.tomb /\ c3.balance = c2.balance
      /\ c3.minted = c2.minted /\ c3.slow = c2.slow /\ c3.escrow = c2.escrow
  BY <1>3, RegistryFields
<1> HIDE DEF c3
<1>5. /\ IsChain(c4) /\ c4.tomb = c3.tomb /\ c4.balance = c3.balance
      /\ c4.minted = c3.minted /\ c4.slow = c3.slow /\ c4.escrow = c3.escrow
  BY <1>4, RegistryFields
<1> HIDE DEF c4
<1>6. /\ IsChain(c5) /\ c5.tomb = c4.tomb /\ c5.balance = c4.balance /\ c5.slow = c4.slow
      /\ c5.escrow = IF Pledged(r) THEN With(c4.escrow, r.account, r.pledge[1])
                     ELSE c4.escrow
      /\ c5.minted = IF Pledged(r) THEN c4.minted + r.pledge[1] ELSE c4.minted
  BY <1>5, EscrowFields
<1> HIDE DEF c5
<1>7. c5.minted = c.minted + Coins(r)
  <2>1. c5.minted = (IF Created(r) THEN c.minted + r.balance[1] ELSE c.minted)
                       + (IF Pledged(r) THEN r.pledge[1] ELSE 0)
    BY <1>0, <1>2, <1>3, <1>4, <1>5, <1>6 DEF Created, Pledged
  <2>2. CASE ~r.auth
    BY <2>1, <2>2 DEF Created, Pledged, Coins
  <2>3. CASE r.auth
    <3>1. Coins(r) = Amount(r.balance) + Amount(r.pledge)
      BY <2>3 DEF Coins
    <3>2. Amount(r.balance) = IF Created(r) THEN r.balance[1] ELSE 0
      BY <2>3 DEF Amount, Created
    <3>3. Amount(r.pledge) = IF Pledged(r) THEN r.pledge[1] ELSE 0
      BY <2>3 DEF Amount, Pledged
    <3>4. QED
      BY <1>0, <2>1, <3>1, <3>2, <3>3 DEF Created, Pledged
  <2>4. QED
    BY <1>0, <2>2, <2>3
<1>8. QED
  BY <1>1, <1>2, <1>3, <1>4, <1>5, <1>6, <1>7

\* What a dropped record changes.
LEMMA DropFields ==
    ASSUME NEW c, NEW r, IsChain(c), r.role = "drop"
    PROVE  LET d == MigrateUser(c, r)
           IN  /\ IsChain(d) /\ d.tomb = c.tomb \cup {r.account} /\ d.escrow = c.escrow
               /\ d.balance = c.balance /\ d.slow = c.slow /\ d.minted = c.minted
BY DEF MigrateUser, IsChain

-----------------------------------------------------------------------------
(***************************************************************************)
(* The migration: the chain after the first k records                      *)
(***************************************************************************)

\* No record has more unlocked than it has.
Repaired(list) ==
    \A i \in DOMAIN list :
      list[i].balance # <<>> /\ list[i].slow # <<>> => list[i].slow[1] <= list[i].balance[1]

\* The accounts of those of the first k records that are in S.
AccountsOf(list, k, S) == {list[i].account : i \in {j \in 1 .. k : j \in S}}

\* The records of accounts that are created, as slow wallets, and dropped.
CreatedIn(list) == {i \in DOMAIN list : Created(list[i])}

SlowedIn(list) == {i \in DOMAIN list : Slowed(list[i])}

DroppedIn(list) == {i \in DOMAIN list : list[i].role = "drop"}

PledgedIn(list) == {i \in DOMAIN list : Pledged(list[i])}

\* The accounts of the chain are those of the records so far, each with what its
\* record says.
Holds(list, k, c) ==
    /\ DOMAIN c.balance = AccountsOf(list, k, CreatedIn(list))
    /\ \A i \in 1 .. k : Created(list[i]) => c.balance[list[i].account] = list[i].balance[1]
    /\ DOMAIN c.slow = AccountsOf(list, k, SlowedIn(list))
    /\ \A i \in 1 .. k : Slowed(list[i]) => c.slow[list[i].account] = list[i].slow[1]
    /\ DOMAIN c.escrow = AccountsOf(list, k, PledgedIn(list))
    /\ c.tomb = AccountsOf(list, k, DroppedIn(list))

\* All coins that were minted are in accounts and pledges, and no slow wallet has
\* more unlocked than it owns.
Sound(c) ==
    /\ IsChain(c)
    /\ IsFiniteSet(DOMAIN c.balance) /\ IsFiniteSet(DOMAIN c.escrow)
    /\ \A a \in DOMAIN c.balance : c.balance[a] \in Nat
    /\ \A a \in DOMAIN c.escrow : c.escrow[a] \in Nat
    /\ \A a \in DOMAIN c.slow :
         a \in DOMAIN c.balance /\ c.slow[a] \in Nat /\ c.slow[a] <= c.balance[a]
    /\ c.minted = SumFunction(c.balance) + SumFunction(c.escrow)

\* What is minted for each record.
CoinsOf(list) == [i \in DOMAIN list |-> Coins(list[i])]

\* The invariant of the loop.
After(list, k, c) ==
    Holds(list, k, c) /\ Sound(c) /\ c.minted = SumFunctionOnSet(CoinsOf(list), 1 .. k)

\* One more record adds its account to the sets that it is in.
LEMMA AccountsGrow ==
    ASSUME NEW list, NEW k \in Nat, NEW S
    PROVE  AccountsOf(list, k + 1, S) =
             AccountsOf(list, k, S) \cup IF k + 1 \in S THEN {list[k + 1].account} ELSE {}
<1>1. \A j \in Nat : j \in 1 .. (k + 1) <=> j \in 1 .. k \/ j = k + 1
  OBVIOUS
<1>2. QED
  BY <1>1 DEF AccountsOf

\* An account is new when its record is reached.
LEMMA AccountsNew ==
    ASSUME NEW A, NEW list, WellFormed(list, A), NEW k \in Nat, k + 1 \in DOMAIN list, NEW S
    PROVE  /\ list[k + 1].account \notin AccountsOf(list, k, S)
           /\ 1 .. k \subseteq DOMAIN list
<1>1. list \in Seq(Record(A)) /\ 1 .. k \subseteq DOMAIN list /\ k + 1 \notin 1 .. k
  BY DEF WellFormed
<1>2. list[k + 1].account \notin AccountsOf(list, k, S)
  BY <1>1 DEF WellFormed, AccountsOf
<1>3. QED
  BY <1>1, <1>2

\* A function that is given one more value.
LEMMA WithValues ==
    ASSUME NEW f, NEW a, NEW x
    PROVE  /\ DOMAIN With(f, a, x) = DOMAIN f \cup {a}
           /\ With(f, a, x)[a] = x
           /\ \A b \in DOMAIN f : b # a => With(f, a, x)[b] = f[b]
BY DEF With

\* The sum, when a function is given one more value.
LEMMA SumWith ==
    ASSUME NEW f, IsFiniteSet(DOMAIN f), \A b \in DOMAIN f : f[b] \in Int,
           NEW a, a \notin DOMAIN f, NEW x \in Int
    PROVE  SumFunction(With(f, a, x)) = SumFunction(f) + x
<1> DEFINE D == DOMAIN f
           g == With(f, a, x)
<1>1. DOMAIN g = D \cup {a} /\ g[a] = x /\ \A b \in D : g[b] = f[b]
  BY DEF With
<1> HIDE DEF g
<1>2. SumFunctionOnSet(g, D) = SumFunctionOnSet(f, D)
  BY <1>1, SumSame
<1>3. SumFunctionOnSet(g, D \cup {a}) = SumFunctionOnSet(g, D) + g[a]
  <2>1. \A b \in D \cup {a} : g[b] \in Int
    BY <1>1
  <2> HIDE DEF D
  <2>2. IsFiniteSet(D) /\ a \notin D
    BY DEF D
  <2>3. QED
    BY <2>1, <2>2, SumAdd
<1>4. QED
  BY <1>1, <1>2, <1>3 DEF SumFunction, g

\* The sums of a sound chain.
LEMMA SoundSums ==
    ASSUME NEW c, Sound(c)
    PROVE  /\ SumFunction(c.balance) \in Nat /\ SumFunction(c.escrow) \in Nat
           /\ c.minted \in Nat
<1>1. SumFunction(c.balance) \in Nat
  BY SumNat DEF Sound, SumFunction
<1>2. SumFunction(c.escrow) \in Nat
  BY SumNat DEF Sound, SumFunction
<1>3. QED
  BY <1>1, <1>2 DEF Sound

\* The next record keeps what is said of the accounts.
LEMMA HoldsStep ==
    ASSUME NEW A, NEW list, WellFormed(list, A), NEW k \in Nat, k + 1 \in DOMAIN list,
           NEW c, Holds(list, k, c), IsChain(c), c.minted \in Int
    PROVE  Holds(list, k + 1, MigrateUser(c, list[k + 1]))
<1> DEFINE r == list[k + 1]
           d == MigrateUser(c, r)
<1>1. r \in Record(A)
  BY DEF WellFormed
<1>2. \A j \in 1 .. (k + 1) : j \in 1 .. k \/ j = k + 1
  OBVIOUS
<1>3. /\ r.account \notin AccountsOf(list, k, CreatedIn(list))
      /\ r.account \notin AccountsOf(list, k, SlowedIn(list))
      /\ 1 .. k \subseteq DOMAIN list
  BY AccountsNew
<1>4. /\ \A i \in 1 .. k : Created(list[i]) => list[i].account \in DOMAIN c.balance
      /\ \A i \in 1 .. k : Slowed(list[i]) => list[i].account \in DOMAIN c.slow
  BY <1>3 DEF Holds, AccountsOf, CreatedIn, SlowedIn
<1>5. /\ AccountsOf(list, k + 1, CreatedIn(list)) = AccountsOf(list, k, CreatedIn(list))
             \cup IF Created(r) THEN {r.account} ELSE {}
      /\ AccountsOf(list, k + 1, SlowedIn(list)) = AccountsOf(list, k, SlowedIn(list))
             \cup IF Slowed(r) THEN {r.account} ELSE {}
      /\ AccountsOf(list, k + 1, PledgedIn(list)) = AccountsOf(list, k, PledgedIn(list))
             \cup IF Pledged(r) THEN {r.account} ELSE {}
      /\ AccountsOf(list, k + 1, DroppedIn(list)) = AccountsOf(list, k, DroppedIn(list))
             \cup IF r.role = "drop" THEN {r.account} ELSE {}
  BY AccountsGrow DEF CreatedIn, SlowedIn, PledgedIn, DroppedIn
<1>6. CASE r.role = "drop"
  <2>1. ~Created(r) /\ ~Slowed(r) /\ ~Pledged(r)
    BY <1>6 DEF Created, Slowed, Pledged
  <2>2. /\ d.tomb = c.tomb \cup {r.account} /\ d.escrow = c.escrow
        /\ d.balance = c.balance /\ d.slow = c.slow
    BY <1>6, DropFields
  <2> HIDE DEF d, r
  <2>3. Holds(list, k + 1, d)
    BY <1>2, <1>5, <1>6, <2>1, <2>2 DEF Holds, r
  <2>4. QED
    BY <2>3 DEF d, r
<1>7. CASE r.role # "drop"
  <2>1. /\ d.tomb = c.tomb
        /\ d.balance = IF Created(r) THEN With(c.balance, r.account, r.balance[1])
                       ELSE c.balance
        /\ d.slow = IF Slowed(r) THEN With(c.slow, r.account, r.slow[1]) ELSE c.slow
        /\ d.escrow = IF Pledged(r) THEN With(c.escrow, r.account, r.pledge[1]) ELSE c.escrow
    BY <1>1, <1>7, MigrateUserFields
  <2> HIDE DEF d
  <2>2. /\ DOMAIN d.balance = AccountsOf(list, k + 1, CreatedIn(list))
        /\ DOMAIN d.slow = AccountsOf(list, k + 1, SlowedIn(list))
        /\ DOMAIN d.escrow = AccountsOf(list, k + 1, PledgedIn(list))
        /\ d.tomb = AccountsOf(list, k + 1, DroppedIn(list))
    BY <1>5, <1>7, <2>1, WithValues DEF Holds
  <2>3. /\ \A b \in DOMAIN c.balance : d.balance[b] = c.balance[b]
        /\ \A b \in DOMAIN c.slow : d.slow[b] = c.slow[b]
        /\ Created(r) => d.balance[r.account] = r.balance[1]
        /\ Slowed(r) => d.slow[r.account] = r.slow[1]
    <3>1. r.account \notin DOMAIN c.balance /\ r.account \notin DOMAIN c.slow
      BY <1>3 DEF Holds
    <3> HIDE DEF r
    <3>2. /\ With(c.balance, r.account, r.balance[1])[r.account] = r.balance[1]
          /\ \A b \in DOMAIN c.balance : b # r.account =>
               With(c.balance, r.account, r.balance[1])[b] = c.balance[b]
      BY DEF With
    <3>3. /\ With(c.slow, r.account, r.slow[1])[r.account] = r.slow[1]
          /\ \A b \in DOMAIN c.slow : b # r.account =>
               With(c.slow, r.account, r.slow[1])[b] = c.slow[b]
      BY DEF With
    <3>4. QED
      BY <2>1, <3>1, <3>2, <3>3
  <2>4. \A i \in 1 .. (k + 1) :
          /\ Created(list[i]) => d.balance[list[i].account] = list[i].balance[1]
          /\ Slowed(list[i]) => d.slow[list[i].account] = list[i].slow[1]
    BY <1>2, <1>4, <2>3 DEF Holds
  <2>5. QED
    BY <2>2, <2>4 DEF Holds, d
<1>8. QED
  BY <1>6, <1>7

\* A sum over the first numbers, and one more.
LEMMA SumNext ==
    ASSUME NEW f, NEW k \in Nat, \A i \in 1 .. (k + 1) : f[i] \in Int
    PROVE  /\ SumFunctionOnSet(f, 1 .. (k + 1)) = SumFunctionOnSet(f, 1 .. k) + f[k + 1]
           /\ SumFunctionOnSet(f, 1 .. k) \in Int
<1>1. 1 .. (k + 1) = (1 .. k) \cup {k + 1} /\ k + 1 \notin 1 .. k
  OBVIOUS
<1>2. IsFiniteSet(1 .. k)
  BY FS_Interval
<1>3. \A i \in (1 .. k) \cup {k + 1} : f[i] \in Int
  BY <1>1
<1>4. SumFunctionOnSet(f, (1 .. k) \cup {k + 1}) = SumFunctionOnSet(f, 1 .. k) + f[k + 1]
  <2> DEFINE S == 1 .. k
             e == k + 1
  <2>1. IsFiniteSet(S) /\ e \notin S /\ \A i \in S \cup {e} : f[i] \in Int
    BY <1>1, <1>2, <1>3
  <2> HIDE DEF S, e
  <2>2. SumFunctionOnSet(f, S \cup {e}) = SumFunctionOnSet(f, S) + f[e]
    BY <2>1, SumAdd
  <2>3. QED
    BY <2>2 DEF S, e
<1>5. SumFunctionOnSet(f, 1 .. k) \in Int
  BY <1>2, <1>3, SumInt
<1>6. QED
  BY <1>1, <1>4, <1>5

\* A function of naturals that may be given one more.
LEMMA Given ==
    ASSUME NEW f, IsFiniteSet(DOMAIN f), \A b \in DOMAIN f : f[b] \in Nat,
           NEW a, a \notin DOMAIN f, NEW P \in BOOLEAN, NEW x, P => x \in Nat
    PROVE  LET g == IF P THEN With(f, a, x) ELSE f
           IN  /\ IsFiniteSet(DOMAIN g) /\ \A b \in DOMAIN g : g[b] \in Nat
               /\ SumFunction(g) = SumFunction(f) + IF P THEN x ELSE 0
<1>1. SumFunction(f) \in Int
  BY SumInt DEF SumFunction
<1>2. CASE ~P
  BY <1>1, <1>2
<1>3. CASE P
  <2> DEFINE g == With(f, a, x)
  <2>1. DOMAIN g = DOMAIN f \cup {a} /\ g[a] = x /\ \A b \in DOMAIN f : g[b] = f[b]
    BY DEF With
  <2>2. SumFunction(g) = SumFunction(f) + x
    BY <1>3, SumWith
  <2> HIDE DEF g
  <2>3. IsFiniteSet(DOMAIN g)
    BY <2>1, FS_AddElement
  <2>4. \A b \in DOMAIN g : g[b] \in Nat
    BY <1>3, <2>1
  <2>5. QED
    BY <1>3, <2>2, <2>3, <2>4 DEF g
<1>4. QED
  BY <1>2, <1>3

\* The next record keeps the coins.
LEMMA SoundStep ==
    ASSUME NEW A, NEW list, WellFormed(list, A), Repaired(list),
           NEW k \in Nat, k + 1 \in DOMAIN list, NEW c, After(list, k, c)
    PROVE  LET d == MigrateUser(c, list[k + 1])
           IN  Sound(d) /\ d.minted = SumFunctionOnSet(CoinsOf(list), 1 .. (k + 1))
<1> DEFINE r == list[k + 1]
           a == r.account
           d == MigrateUser(c, r)
<1>1. list \in Seq(Record(A)) /\ r \in Record(A) /\ 1 .. (k + 1) \subseteq DOMAIN list
  BY DEF WellFormed
<1>2. Holds(list, k, c) /\ Sound(c) /\ c.minted = SumFunctionOnSet(CoinsOf(list), 1 .. k)
  BY DEF After
<1>3. /\ SumFunction(c.balance) \in Nat /\ SumFunction(c.escrow) \in Nat /\ c.minted \in Nat
      /\ IsChain(c) /\ c.minted = SumFunction(c.balance) + SumFunction(c.escrow)
  BY <1>2, SoundSums DEF Sound
<1>4. SumFunctionOnSet(CoinsOf(list), 1 .. (k + 1)) = c.minted + Coins(r)
  <2>1. \A i \in 1 .. (k + 1) : CoinsOf(list)[i] \in Int
    <3>1. ASSUME NEW i \in 1 .. (k + 1) PROVE CoinsOf(list)[i] \in Int
      <4>1. i \in DOMAIN list /\ list[i] \in Record(A)
        BY <1>1
      <4>2. Coins(list[i]) \in Nat
        BY <4>1, RecordValues
      <4>3. QED
        BY <4>1, <4>2 DEF CoinsOf
    <3>2. QED
      BY <3>1
  <2>2. CoinsOf(list)[k + 1] = Coins(r)
    BY DEF CoinsOf
  <2>3. SumFunctionOnSet(CoinsOf(list), 1 .. (k + 1))
          = SumFunctionOnSet(CoinsOf(list), 1 .. k) + CoinsOf(list)[k + 1]
    BY <2>1, SumNext
  <2>4. QED
    BY <1>2, <2>2, <2>3
<1>5. CASE r.role = "drop"
  <2>1. /\ IsChain(d) /\ d.escrow = c.escrow
        /\ d.balance = c.balance /\ d.slow = c.slow /\ d.minted = c.minted
    BY <1>3, <1>5, DropFields
  <2>2. r = Drop(r)
    BY <1>5 DEF WellFormed
  <2>3. Coins(r) = 0
    BY <2>2 DEF Drop, Coins, Amount
  <2> HIDE DEF d, r
  <2>4. Sound(d)
    BY <1>2, <2>1 DEF Sound
  <2>5. QED
    BY <1>3, <1>4, <2>1, <2>3, <2>4 DEF d, r
<1>6. CASE r.role # "drop"
  <2>1. /\ IsChain(d) /\ d.minted = c.minted + Coins(r)
        /\ d.balance = IF Created(r) THEN With(c.balance, a, r.balance[1]) ELSE c.balance
        /\ d.slow = IF Slowed(r) THEN With(c.slow, a, r.slow[1]) ELSE c.slow
        /\ d.escrow = IF Pledged(r) THEN With(c.escrow, a, r.pledge[1]) ELSE c.escrow
    BY <1>1, <1>3, <1>6, MigrateUserFields
  <2>2. a \notin DOMAIN c.balance /\ a \notin DOMAIN c.slow /\ a \notin DOMAIN c.escrow
    BY <1>2, AccountsNew DEF Holds
  <2>3. /\ r.balance # <<>> => r.balance[1] \in Nat
        /\ r.slow # <<>> => r.slow[1] \in Nat
        /\ r.pledge # <<>> => r.pledge[1] \in Nat
        /\ Coins(r) \in Nat /\ r.auth \in BOOLEAN
    BY <1>1, RecordValues
  <2>4. Slowed(r) => Created(r) /\ r.slow[1] <= r.balance[1]
    BY DEF Slowed, Created, Repaired
  <2>5. Created(r) \in BOOLEAN /\ Pledged(r) \in BOOLEAN
    BY <2>3 DEF Created, Pledged
  <2> HIDE DEF d, r, a
  <2>6. /\ IsFiniteSet(DOMAIN d.balance) /\ \A b \in DOMAIN d.balance : d.balance[b] \in Nat
        /\ SumFunction(d.balance)
             = SumFunction(c.balance) + IF Created(r) THEN r.balance[1] ELSE 0
    <3>1. /\ IsFiniteSet(DOMAIN c.balance) /\ \A b \in DOMAIN c.balance : c.balance[b] \in Nat
          /\ Created(r) => r.balance[1] \in Nat
      BY <1>2, <2>3 DEF Sound, Created
    <3>2. QED
      BY <2>1, <2>2, <2>5, <3>1, Given
  <2>7. /\ IsFiniteSet(DOMAIN d.escrow) /\ \A b \in DOMAIN d.escrow : d.escrow[b] \in Nat
        /\ SumFunction(d.escrow)
             = SumFunction(c.escrow) + IF Pledged(r) THEN r.pledge[1] ELSE 0
    <3>1. /\ IsFiniteSet(DOMAIN c.escrow) /\ \A b \in DOMAIN c.escrow : c.escrow[b] \in Nat
          /\ Pledged(r) => r.pledge[1] \in Nat
      BY <1>2, <2>3 DEF Sound, Pledged
    <3>2. QED
      BY <2>1, <2>2, <2>5, <3>1, Given
  <2>8. Coins(r) = (IF Created(r) THEN r.balance[1] ELSE 0)
                     + IF Pledged(r) THEN r.pledge[1] ELSE 0
    <3>1. CASE ~r.auth
      BY <3>1 DEF Coins, Created, Pledged
    <3>2. CASE r.auth
      BY <1>6, <3>2 DEF Coins, Amount, Created, Pledged
    <3>3. QED
      BY <2>3, <3>1, <3>2
  <2>9. d.minted = SumFunction(d.balance) + SumFunction(d.escrow)
    <3>1. /\ Created(r) => r.balance[1] \in Nat
          /\ Pledged(r) => r.pledge[1] \in Nat
      BY <2>3 DEF Created, Pledged
    <3>2. QED
      BY <1>3, <2>1, <2>6, <2>7, <2>8, <3>1
  <2>10. ASSUME NEW b \in DOMAIN d.slow
         PROVE  b \in DOMAIN d.balance /\ d.slow[b] \in Nat /\ d.slow[b] <= d.balance[b]
    <3> DEFINE f == With(c.balance, a, r.balance[1])
               g == With(c.slow, a, r.slow[1])
    <3>a. /\ DOMAIN f = DOMAIN c.balance \cup {a} /\ f[a] = r.balance[1]
          /\ \A x \in DOMAIN c.balance : x # a => f[x] = c.balance[x]
      BY DEF With
    <3>b. /\ DOMAIN g = DOMAIN c.slow \cup {a} /\ g[a] = r.slow[1]
          /\ \A x \in DOMAIN c.slow : x # a => g[x] = c.slow[x]
      BY DEF With
    <3>c. /\ d.balance = IF Created(r) THEN f ELSE c.balance
          /\ d.slow = IF Slowed(r) THEN g ELSE c.slow
      BY <2>1
    <3> HIDE DEF f, g
    <3>1. CASE b \in DOMAIN c.slow
      <4>1. /\ b \in DOMAIN c.balance /\ c.slow[b] \in Nat /\ c.slow[b] <= c.balance[b]
            /\ b # a
        BY <1>2, <2>2, <3>1 DEF Sound
      <4>2. d.slow[b] = c.slow[b] /\ d.balance[b] = c.balance[b] /\ b \in DOMAIN d.balance
        BY <3>a, <3>b, <3>c, <3>1, <4>1
      <4>3. QED
        BY <4>1, <4>2
    <3>2. CASE b \notin DOMAIN c.slow
      <4>1. Slowed(r) /\ b = a
        BY <3>b, <3>c, <2>10, <3>2
      <4>2. /\ d.slow[b] = r.slow[1] /\ d.balance[b] = r.balance[1]
            /\ b \in DOMAIN d.balance
        BY <3>a, <3>b, <3>c, <2>4, <4>1
      <4>3. r.slow[1] \in Nat
        BY <2>3, <4>1 DEF Slowed
      <4>4. QED
        BY <2>4, <4>1, <4>2, <4>3
    <3>3. QED
      BY <3>1, <3>2
  <2>11. Sound(d)
    BY <2>1, <2>6, <2>7, <2>9, <2>10 DEF Sound
  <2>12. QED
    BY <1>4, <2>1, <2>11 DEF d, r
<1>7. QED
  BY <1>5, <1>6

(***************************************************************************)
(* The migration: the result                                               *)
(***************************************************************************)

\* The repairs of the parser leave a list of records that is well formed, and in
\* which no record has more unlocked than it has.
LEMMA ParsedIsRepaired ==
    ASSUME NEW A, NEW list, WellFormed(list, A)
    PROVE  WellFormed(Parse(list), A) /\ Repaired(Parse(list))
<1> DEFINE p == Parse(list)
<1>1. list \in Seq(Record(A))
  BY DEF WellFormed
<1>2. ASSUME NEW r \in Record(A)
      PROVE  /\ FixSlowWallet(r) \in Record(A)
             /\ FixSlowWallet(r).account = r.account /\ FixSlowWallet(r).role = r.role
             /\ r.balance = <<>> => FixSlowWallet(r) = r
             /\ FixSlowWallet(r).balance = r.balance
             /\ r.balance # <<>> /\ FixSlowWallet(r).slow # <<>> =>
                    FixSlowWallet(r).slow[1] <= r.balance[1]
  <2>1. CASE r.balance # <<>> /\ r.slow # <<>> /\ r.slow[1] > r.balance[1]
    <3>1. FixSlowWallet(r) = [r EXCEPT !.slow = r.balance]
      BY <2>1 DEF FixSlowWallet
    <3>2. r.balance[1] \in Nat
      BY <2>1, RecordValues
    <3>3. QED
      BY <2>1, <3>1, <3>2 DEF Record
  <2>2. CASE ~(r.balance # <<>> /\ r.slow # <<>> /\ r.slow[1] > r.balance[1])
    <3>1. FixSlowWallet(r) = r
      BY <2>2 DEF FixSlowWallet
    <3>2. /\ r.balance # <<>> => r.balance[1] \in Nat
          /\ r.slow # <<>> => r.slow[1] \in Nat
      BY RecordValues
    <3>3. QED
      BY <2>2, <3>1, <3>2
  <2>3. QED
    BY <2>1, <2>2
<1>3. DOMAIN p = DOMAIN list /\ \A i \in DOMAIN list : p[i] = FixSlowWallet(list[i])
  BY DEF Parse
<1>4. \A i \in DOMAIN list : list[i] \in Record(A)
  BY <1>1
<1>5. p \in Seq(Record(A))
  <2>1. DOMAIN list = 1 .. Len(list) /\ Len(list) \in Nat
    BY <1>1
  <2>2. p \in [1 .. Len(list) -> Record(A)]
    BY <1>2, <1>4, <2>1 DEF Parse
  <2>3. QED
    BY <2>1, <2>2, SeqDef
<1> HIDE DEF p
<1>6. \A i, j \in DOMAIN p : p[i].account = p[j].account => i = j
  <2>1. \A i \in DOMAIN list : p[i].account = list[i].account
    BY <1>2, <1>3, <1>4
  <2>2. QED
    BY <1>3, <2>1 DEF WellFormed
<1>7. ASSUME NEW i \in DOMAIN p, p[i].role = "drop" PROVE p[i] = Drop(p[i])
  <2>1. list[i].role = "drop" /\ i \in DOMAIN list
    BY <1>2, <1>3, <1>4, <1>7
  <2>2. list[i] = Drop(list[i])
    BY <2>1 DEF WellFormed
  <2>3. list[i].balance = <<>>
    BY <2>2 DEF Drop
  <2>4. p[i] = list[i]
    BY <1>2, <1>3, <1>4, <2>1, <2>3
  <2>5. QED
    BY <2>2, <2>4
<1>8. Repaired(p)
  BY <1>2, <1>3, <1>4 DEF Repaired
<1>9. QED
  BY <1>5, <1>6, <1>7, <1>8 DEF WellFormed, p

\* Nothing is on the chain before the first record.
LEMMA BeforeFirst ==
    ASSUME NEW list
    PROVE  After(list, 0, NoChain)
<1>1. 1 .. 0 = {} /\ \A S : AccountsOf(list, 0, S) = {}
  BY DEF AccountsOf
<1>2. DOMAIN NoChain.slow = {} /\ DOMAIN NoChain.balance = {} /\ DOMAIN NoChain.escrow = {}
  BY DEF NoChain
<1>3. Holds(list, 0, NoChain)
  BY <1>1, <1>2 DEF Holds, NoChain
<1>4. /\ SumFunction(NoChain.balance) = 0 /\ SumFunction(NoChain.escrow) = 0
      /\ SumFunctionOnSet(CoinsOf(list), 1 .. 0) = 0
  BY <1>1, <1>2, SumEmpty DEF SumFunction
<1>5. NoChain.minted = 0 /\ IsChain(NoChain)
  BY DEF NoChain, IsChain
<1>6. Sound(NoChain)
  BY <1>2, <1>4, <1>5, FS_EmptySet DEF Sound
<1>7. QED
  BY <1>3, <1>4, <1>5, <1>6 DEF After

\* The loop ends with all records on the chain.
LEMMA AfterLast ==
    ASSUME NEW A, NEW list, WellFormed(list, A), Repaired(list)
    PROVE  After(list, Len(list), RunOf(list)[Len(list)])
<1> DEFINE g == RunOf(list)
           n == Len(list)
           Bad == {k \in 0 .. n : ~After(list, k, g[k])}
<1>1. n \in Nat /\ DOMAIN list = 1 .. n
  BY DEF WellFormed
<1>2. IsRun(g, list, n)
  BY <1>1, RunExists DEF RunOf
<1> HIDE DEF g, n
<1>3. g[0] = NoChain /\ \A k \in 1 .. n : g[k] = MigrateUser(g[k - 1], list[k])
  BY <1>1, <1>2 DEF IsRun
<1>4. SUFFICES ASSUME Bad # {} PROVE FALSE
  BY <1>1 DEF n, g
<1>5. Bad \subseteq Nat
  BY <1>1
<1> HIDE DEF Bad
<1>6. PICK m \in Bad : \A k \in Bad : m <= k
  BY <1>4, <1>5, LeastNumber
<1> USE DEF Bad
<1>7. m # 0
  BY <1>3, BeforeFirst
<1> DEFINE k == m - 1
<1>8. k \in Nat /\ k + 1 = m /\ k \in 0 .. n /\ k \notin Bad /\ m \in 1 .. n
  BY <1>1, <1>6, <1>7
<1> HIDE DEF k
<1>9. After(list, k, g[k])
  BY <1>8
<1>10. k + 1 \in DOMAIN list /\ g[k + 1] = MigrateUser(g[k], list[k + 1])
  <2>1. g[m] = MigrateUser(g[m - 1], list[m])
    BY <1>3, <1>8
  <2>2. QED
    BY <1>1, <1>8, <2>1 DEF k
<1>11. Holds(list, k + 1, MigrateUser(g[k], list[k + 1]))
  <2>1. Holds(list, k, g[k]) /\ IsChain(g[k]) /\ g[k].minted \in Int
    BY <1>9, SoundSums DEF After, Sound
  <2>2. QED
    BY <1>8, <1>10, <2>1, HoldsStep
<1>12. /\ Sound(MigrateUser(g[k], list[k + 1]))
       /\ MigrateUser(g[k], list[k + 1]).minted = SumFunctionOnSet(CoinsOf(list), 1 .. (k + 1))
  BY <1>8, <1>9, <1>10, SoundStep
<1>13. After(list, m, g[m])
  BY <1>8, <1>10, <1>11, <1>12 DEF After
<1>14. QED
  BY <1>13

-----------------------------------------------------------------------------
(***************************************************************************)
(* The migration: the validators                                           *)
(***************************************************************************)

\* What n of the validators in V have changed of the migrated chain m: no account
\* has lost coins, only validators have gained some, and what is unlocked on top
\* was given to the account or has dripped.
Grown(m, c, V, n, test) ==
    /\ c.minted = m.minted /\ c.tomb = m.tomb /\ c.deposits = m.deposits
    /\ DOMAIN c.slow = DOMAIN m.slow
    /\ DOMAIN m.balance \subseteq DOMAIN c.balance
    /\ DOMAIN c.balance \subseteq DOMAIN m.balance \cup V
    /\ \A a \in DOMAIN m.balance :
         /\ m.balance[a] <= c.balance[a]
         /\ a \notin V => c.balance[a] = m.balance[a]
    /\ \A a \in DOMAIN m.slow :
         /\ m.slow[a] <= c.slow[a]
         /\ c.slow[a] <= m.slow[a] + (c.balance[a] - m.balance[a]) + Dripped(n, test)

\* The account of a validator is created with nothing.
LEMMA RegisterKeeps ==
    ASSUME NEW m, NEW V, NEW n, NEW test, NEW c, Sound(m), Sound(c),
           Grown(m, c, V, n, test), NEW v \in V
    PROVE  LET d == Register(c, v)
           IN  Sound(d) /\ Grown(m, d, V, n, test) /\ v \in DOMAIN d.balance
<1> DEFINE d == Register(c, v)
<1>1. CASE v \in DOMAIN c.balance
  BY <1>1 DEF Register
<1>2. CASE v \notin DOMAIN c.balance
  <2>1. /\ IsChain(d) /\ d.balance = With(c.balance, v, 0) /\ d.slow = c.slow
        /\ d.escrow = c.escrow /\ d.minted = c.minted /\ d.tomb = c.tomb
        /\ d.deposits = c.deposits
    BY <1>2 DEF Register, Sound, IsChain
  <2>2. /\ IsFiniteSet(DOMAIN c.balance) /\ \A b \in DOMAIN c.balance : c.balance[b] \in Nat
        /\ SumFunction(c.balance) \in Nat
    BY SoundSums DEF Sound
  <2> HIDE DEF d
  <2>3. /\ IsFiniteSet(DOMAIN d.balance) /\ \A b \in DOMAIN d.balance : d.balance[b] \in Nat
        /\ SumFunction(d.balance) = SumFunction(c.balance)
    <3>1. SumFunction(With(c.balance, v, 0)) = SumFunction(c.balance) + 0
      BY <1>2, <2>2, SumWith
    <3>2. IsFiniteSet(DOMAIN c.balance \cup {v})
      BY <2>2, FS_AddElement
    <3>3. /\ DOMAIN d.balance = DOMAIN c.balance \cup {v} /\ d.balance[v] = 0
          /\ \A b \in DOMAIN c.balance : b # v => d.balance[b] = c.balance[b]
      BY <2>1 DEF With
    <3>4. \A b \in DOMAIN d.balance : d.balance[b] \in Nat
      BY <2>2, <3>3
    <3>5. QED
      BY <2>1, <2>2, <3>1, <3>2, <3>3, <3>4
  <2>4. /\ DOMAIN d.balance = DOMAIN c.balance \cup {v}
        /\ \A b \in DOMAIN c.balance : d.balance[b] = c.balance[b]
    BY <1>2, <2>1 DEF With
  <2>5. Sound(d)
    BY <2>1, <2>3, <2>4 DEF Sound
  <2>6. Grown(m, d, V, n, test)
    <3>1. \A a \in DOMAIN m.slow : a \in DOMAIN m.balance
      BY DEF Sound
    <3>2. \A a \in DOMAIN m.balance : d.balance[a] = c.balance[a]
      BY <2>4 DEF Grown
    <3>3. QED
      BY <2>1, <2>4, <3>1, <3>2 DEF Grown
  <2>7. QED
    BY <2>4, <2>5, <2>6 DEF d
<1>3. QED
  BY <1>1, <1>2

\* No pledge gives more than it has.
LEMMA ShareWithin ==
    ASSUME NEW p \in Nat, NEW total
    PROVE  Share(p, total) \in 0 .. p
<1> DEFINE pct == (BootstrapAmount * FixedOne) \div total
           share == (p * pct) \div FixedOne
<1>1. Share(p, total) = IF share \in 0 .. p THEN share ELSE 0
  BY DEF Share
<1> HIDE DEF share
<1>2. QED
  BY <1>1

\* A validator is given what is taken from the pledges.
LEMMA CoinValidatorKeeps ==
    ASSUME NEW m, NEW V, NEW n, NEW test, Dripped(n, test) \in Nat, NEW c,
           Sound(m), Sound(c), Grown(m, c, V, n, test), NEW v \in V,
           v \in DOMAIN c.balance
    PROVE  LET d == CoinValidator(c, v) IN Sound(d) /\ Grown(m, d, V, n, test)
<1> DEFINE d == CoinValidator(c, v)
           E == DOMAIN c.escrow
           total == SumFunction(c.escrow)
           shares == [a \in E |-> Share(c.escrow[a], total)]
           got == SumFunction(shares)
           left == [a \in E |-> c.escrow[a] - shares[a]]
           paid == [c.balance EXCEPT ![v] = @ + got]
           free == IF v \in DOMAIN c.slow THEN [c.slow EXCEPT ![v] = @ + got] ELSE c.slow
<1>1. CASE total <= BootstrapAmount
  BY <1>1 DEF CoinValidator
<1>2. CASE ~(total <= BootstrapAmount)
  <2>1. d = [c EXCEPT !.escrow = left, !.balance = paid, !.slow = free]
    BY <1>2 DEF CoinValidator
  <2>2. \A a \in E : c.escrow[a] \in Nat /\ shares[a] \in 0 .. c.escrow[a]
    <3>1. \A a \in E : c.escrow[a] \in Nat
      BY DEF Sound
    <3>2. \A a \in E : Share(c.escrow[a], total) \in 0 .. c.escrow[a]
      BY <3>1, ShareWithin
    <3>3. QED
      BY <3>1, <3>2
  <2>3. IsFiniteSet(E) /\ DOMAIN shares = E /\ DOMAIN left = E
    BY DEF Sound
  <2>4. \A a \in E : left[a] = c.escrow[a] - shares[a]
    OBVIOUS
  <2> HIDE DEF shares, left
  <2>5. got \in Nat
    BY <2>2, <2>3, SumNat DEF SumFunction
  <2>6. SumFunction(left) = total - got
    <3>1. SumFunctionOnSet(left, E) = SumFunctionOnSet(c.escrow, E) - SumFunctionOnSet(shares, E)
      BY <2>2, <2>3, <2>4, SumMinus
    <3>2. QED
      BY <2>3, <3>1 DEF SumFunction
  <2> HIDE DEF got
  <2>7. /\ DOMAIN paid = DOMAIN c.balance /\ paid[v] = c.balance[v] + got
        /\ \A b \in DOMAIN c.balance : b # v => paid[b] = c.balance[b]
    OBVIOUS
  <2>8. /\ DOMAIN free = DOMAIN c.slow
        /\ v \in DOMAIN c.slow => free[v] = c.slow[v] + got
        /\ \A b \in DOMAIN c.slow : b # v => free[b] = c.slow[b]
    OBVIOUS
  <2> HIDE DEF paid, free
  <2>9. \A b \in DOMAIN c.balance : c.balance[b] \in Nat /\ paid[b] \in Nat
    BY <2>5, <2>7 DEF Sound
  <2>10. SumFunction(paid) = SumFunction(c.balance) + got
    <3> DEFINE B == DOMAIN c.balance
    <3>1. SumFunctionOnSet(paid, B) = SumFunctionOnSet(c.balance, B) + (paid[v] - c.balance[v])
      <4>1. /\ IsFiniteSet(B) /\ v \in B /\ \A x \in B : c.balance[x] \in Int
            /\ paid[v] \in Int /\ \A x \in B : x # v => paid[x] = c.balance[x]
        BY <2>7, <2>9 DEF Sound
      <4> HIDE DEF B
      <4>2. QED
        BY <4>1, SumChange
    <3>2. paid[v] - c.balance[v] = got
      BY <2>5, <2>7, <2>9
    <3>3. QED
      BY <2>7, <3>1, <3>2 DEF SumFunction
  <2>11. /\ IsChain(d) /\ d.balance = paid /\ d.slow = free /\ d.escrow = left
         /\ d.minted = c.minted /\ d.tomb = c.tomb /\ d.deposits = c.deposits
    <3> HIDE DEF d
    <3>1. QED
      BY <2>1 DEF Sound, IsChain
  <2> HIDE DEF d
  <2>12. /\ SumFunction(c.balance) \in Nat /\ total \in Nat
         /\ c.minted = SumFunction(c.balance) + total
    BY SoundSums DEF Sound
  <2>13. \A a \in DOMAIN d.slow :
           a \in DOMAIN d.balance /\ d.slow[a] \in Nat /\ d.slow[a] <= d.balance[a]
    BY <2>5, <2>7, <2>8, <2>11 DEF Sound
  <2>14. \A a \in DOMAIN d.escrow : d.escrow[a] \in Nat
    BY <2>2, <2>3, <2>4, <2>11
  <2> HIDE DEF total
  <2>15. d.minted = SumFunction(d.balance) + SumFunction(d.escrow)
    BY <2>5, <2>6, <2>10, <2>11, <2>12
  <2>16. Sound(d)
    BY <2>3, <2>7, <2>9, <2>11, <2>13, <2>14, <2>15 DEF Sound
  <2>17. Grown(m, d, V, n, test)
    <3>1. ASSUME NEW a \in DOMAIN m.balance
          PROVE  m.balance[a] <= d.balance[a] /\ (a \notin V => d.balance[a] = m.balance[a])
      <4>1. /\ a \in DOMAIN c.balance /\ m.balance[a] <= c.balance[a] /\ m.balance[a] \in Nat
            /\ a \notin V => c.balance[a] = m.balance[a]
        BY DEF Grown, Sound
      <4>2. QED
        BY <2>5, <2>7, <2>9, <2>11, <4>1
    <3>2. ASSUME NEW a \in DOMAIN m.slow
          PROVE  /\ m.slow[a] <= d.slow[a]
                 /\ d.slow[a] <= m.slow[a] + (d.balance[a] - m.balance[a])
                                   + Dripped(n, test)
      <4>1. /\ a \in DOMAIN c.slow /\ a \in DOMAIN c.balance /\ a \in DOMAIN m.balance
            /\ m.slow[a] \in Nat /\ m.balance[a] \in Nat /\ c.slow[a] \in Nat
            /\ m.slow[a] <= c.slow[a]
            /\ c.slow[a] <= m.slow[a] + (c.balance[a] - m.balance[a]) + Dripped(n, test)
        BY DEF Grown, Sound
      <4>2. CASE a = v
        BY <2>5, <2>7, <2>8, <2>9, <2>11, <4>1, <4>2
      <4>3. CASE a # v
        BY <2>7, <2>8, <2>11, <4>1, <4>3
      <4>4. QED
        BY <4>2, <4>3
    <3>3. QED
      BY <2>7, <2>8, <2>11, <3>1, <3>2 DEF Grown
  <2>18. QED
    BY <2>16, <2>17 DEF d
<1>3. QED
  BY <1>1, <1>2

\* What drips is unlocked, up to the balance.
LEMMA DripKeeps ==
    ASSUME NEW m, NEW V, NEW n \in Nat, NEW c, Sound(m), Sound(c), Grown(m, c, V, n, TRUE)
    PROVE  Sound(Drip(c)) /\ Grown(m, Drip(c), V, n + 1, TRUE)
<1> DEFINE d == Drip(c)
<1>1. /\ IsChain(d) /\ d.balance = c.balance /\ d.escrow = c.escrow
      /\ d.minted = c.minted /\ d.tomb = c.tomb /\ d.deposits = c.deposits
      /\ d.slow = [a \in DOMAIN c.slow |->
                     IF c.slow[a] + GenesisDrip > c.balance[a] THEN c.balance[a]
                     ELSE c.slow[a] + GenesisDrip]
  BY DEF Drip, Sound, IsChain
<1>2. GenesisDrip \in Nat /\ Dripped(n, TRUE) \in Nat
      /\ Dripped(n + 1, TRUE) = Dripped(n, TRUE) + GenesisDrip
  <2>1. GenesisDrip \in Nat
    BY MigrationAssumption
  <2>2. n * GenesisDrip \in Nat /\ (n + 1) * GenesisDrip = n * GenesisDrip + GenesisDrip
    BY <2>1
  <2>3. QED
    BY <2>1, <2>2 DEF Dripped
<1> HIDE DEF d
<1>3. ASSUME NEW a \in DOMAIN c.slow
      PROVE  /\ a \in DOMAIN c.balance /\ c.balance[a] \in Nat /\ c.slow[a] \in Nat
             /\ d.slow[a] \in Nat /\ d.slow[a] <= c.balance[a]
             /\ c.slow[a] <= d.slow[a] /\ d.slow[a] <= c.slow[a] + GenesisDrip
  <2>1. /\ a \in DOMAIN c.balance /\ c.balance[a] \in Nat /\ c.slow[a] \in Nat
        /\ c.slow[a] <= c.balance[a]
    BY DEF Sound
  <2>2. QED
    BY <1>1, <1>2, <2>1
<1>4. DOMAIN d.slow = DOMAIN c.slow
  BY <1>1
<1>5. Sound(d)
  BY <1>1, <1>3, <1>4 DEF Sound
<1>6. ASSUME NEW a \in DOMAIN m.slow
      PROVE  /\ m.slow[a] <= d.slow[a]
             /\ d.slow[a] <= m.slow[a] + (d.balance[a] - m.balance[a]) + Dripped(n + 1, TRUE)
  <2>1. /\ a \in DOMAIN c.slow /\ m.slow[a] \in Nat /\ m.balance[a] \in Nat
        /\ m.slow[a] <= c.slow[a]
        /\ c.slow[a] <= m.slow[a] + (c.balance[a] - m.balance[a]) + Dripped(n, TRUE)
    BY DEF Grown, Sound
  <2>2. /\ c.balance[a] \in Nat /\ c.slow[a] \in Nat /\ d.slow[a] \in Nat
        /\ c.slow[a] <= d.slow[a] /\ d.slow[a] <= c.slow[a] + GenesisDrip
    BY <1>3, <2>1
  <2>3. d.balance[a] = c.balance[a]
    BY <1>1
  <2>4. m.slow[a] <= d.slow[a]
    BY <2>1, <2>2
  <2>5. d.slow[a] <= m.slow[a] + (c.balance[a] - m.balance[a])
                       + (Dripped(n, TRUE) + GenesisDrip)
    <3> DEFINE p == Dripped(n, TRUE)
    <3>1. p \in Nat /\ GenesisDrip \in Nat
      BY <1>2
    <3> HIDE DEF p
    <3>2. c.slow[a] <= m.slow[a] + (c.balance[a] - m.balance[a]) + p
      BY <2>1 DEF p
    <3>3. d.slow[a] <= m.slow[a] + (c.balance[a] - m.balance[a]) + (p + GenesisDrip)
      BY <2>1, <2>2, <3>1, <3>2
    <3>4. QED
      BY <3>3 DEF p
  <2>6. QED
    BY <1>2, <2>3, <2>4, <2>5
<1>7. Grown(m, d, V, n + 1, TRUE)
  BY <1>1, <1>4, <1>6 DEF Grown
<1>8. QED
  BY <1>5, <1>7 DEF d

\* What the steps of one validator change.
LEMMA InitializeKeeps ==
    ASSUME NEW m, NEW V, NEW n \in Nat, NEW test \in BOOLEAN, NEW c,
           Sound(m), Sound(c), Grown(m, c, V, n, test), NEW v \in V
    PROVE  LET d == InitializeValidator(c, v, test)
           IN  Sound(d) /\ Grown(m, d, V, n + 1, test)
<1> DEFINE e == Register(c, v)
           f == CoinValidator(e, v)
<1>1. Sound(e) /\ Grown(m, e, V, n, test) /\ v \in DOMAIN e.balance
  BY RegisterKeeps
<1> HIDE DEF e
<1>2. Dripped(n, test) \in Nat
  <2>1. n * GenesisDrip \in Nat
    BY MigrationAssumption
  <2>2. QED
    BY <2>1 DEF Dripped
<1>3. Sound(f) /\ Grown(m, f, V, n, test)
  BY <1>1, <1>2, CoinValidatorKeeps
<1> HIDE DEF f
<1>4. InitializeValidator(c, v, test) = IF test THEN Drip(f) ELSE f
  BY DEF InitializeValidator, e, f
<1>5. CASE test
  <2>1. test = TRUE
    BY <1>5
  <2>2. Grown(m, f, V, n, TRUE)
    BY <1>3, <2>1
  <2>3. Sound(Drip(f)) /\ Grown(m, Drip(f), V, n + 1, TRUE)
    BY <1>3, <2>2, DripKeeps
  <2>4. QED
    BY <1>4, <2>1, <2>3
<1>6. CASE ~test
  <2>1. test = FALSE
    BY <1>6
  <2>2. Dripped(n, test) = Dripped(n + 1, test)
    BY <2>1 DEF Dripped
  <2>3. Grown(m, f, V, n + 1, test)
    BY <1>3, <2>2 DEF Grown
  <2>4. QED
    BY <1>3, <1>4, <2>1, <2>3
<1>7. QED
  BY <1>5, <1>6

\* g is the chain after each of the first n validators, taken from the end.
IsPaying(g, c, vals, test, n) ==
    g = [k \in 0 .. n |->
           IF k = 0 THEN c
           ELSE InitializeValidator(g[k - 1], vals[Len(vals) + 1 - k], test)]

\* The function that the loop over the validators defines.
PayingOf(c, vals, test) == CHOOSE g : IsPaying(g, c, vals, test, Len(vals))

\* The loop ends with the chain after the last validator.
LEMMA InitializedIsPaying ==
    ASSUME NEW c, NEW vals, NEW test
    PROVE  Initialized(c, vals, test) = PayingOf(c, vals, test)[Len(vals)]
BY DEF Initialized, PayingOf, IsPaying

\* It has a result, however many validators there are.
LEMMA PayingExists ==
    ASSUME NEW c, NEW vals, NEW test, NEW n \in Nat
    PROVE  \E g : IsPaying(g, c, vals, test, n)
<1> DEFINE Step(x, k) == InitializeValidator(x, vals[Len(vals) + 1 - k], test)
           Bad == {k \in Nat : ~ \E g : IsPaying(g, c, vals, test, k)}
<1>1. SUFFICES ASSUME Bad # {} PROVE FALSE
  OBVIOUS
<1>2. Bad \subseteq Nat
  OBVIOUS
<1> HIDE DEF Bad
<1>3. PICK m \in Bad : \A k \in Bad : m <= k
  BY <1>1, <1>2, LeastNumber
<1> USE DEF Bad
<1>4. m # 0
  <2> DEFINE g == [k \in 0 .. 0 |-> c]
  <2>1. IsPaying(g, c, vals, test, 0)
    BY DEF IsPaying
  <2>2. QED
    BY <2>1
<1>5. m \in Nat /\ m - 1 \in Nat /\ m - 1 \notin Bad
  BY <1>3, <1>4
<1>6. PICK g : IsPaying(g, c, vals, test, m - 1)
  BY <1>5
<1> DEFINE h == [k \in 0 .. m |-> IF k = m THEN Step(g[m - 1], m) ELSE g[k]]
<1>7. \A k \in 0 .. (m - 1) : g[k] = IF k = 0 THEN c ELSE Step(g[k - 1], k)
  BY <1>6 DEF IsPaying
<1> HIDE DEF Step
<1>8. \A k \in 0 .. m : h[k] = IF k = 0 THEN c ELSE Step(h[k - 1], k)
  <2>1. ASSUME NEW k \in 0 .. m, k = m
        PROVE  h[k] = IF k = 0 THEN c ELSE Step(h[k - 1], k)
    BY <1>4, <1>5, <2>1
  <2>2. ASSUME NEW k \in 0 .. m, k # m
        PROVE  h[k] = IF k = 0 THEN c ELSE Step(h[k - 1], k)
    <3>1. k \in 0 .. (m - 1) /\ h[k] = g[k]
      BY <1>5, <2>2
    <3>2. k # 0 => h[k - 1] = g[k - 1]
      BY <1>5, <2>2
    <3>3. QED
      BY <1>7, <3>1, <3>2
  <2>3. QED
    BY <2>1, <2>2
<1>9. IsPaying(h, c, vals, test, m)
  BY <1>8 DEF IsPaying, Step
<1>10. QED
  BY <1>9

\* The migrated chain, with its validators.
LEMMA InitializedGrown ==
    ASSUME NEW m, Sound(m), NEW vals, Listed(vals), NEW test \in BOOLEAN
    PROVE  LET c == Initialized(m, vals, test)
           IN  Sound(c) /\ Grown(m, c, ToSet(vals), Len(vals), test)
<1> DEFINE n == Len(vals)
           V == ToSet(vals)
           g == PayingOf(m, vals, test)
           Good(k) == Sound(g[k]) /\ Grown(m, g[k], V, k, test)
           Bad == {k \in 0 .. n : ~Good(k)}
<1>1. n \in Nat /\ DOMAIN vals = 1 .. n
  BY DEF Listed
<1>2. IsPaying(g, m, vals, test, n)
  BY <1>1, PayingExists DEF PayingOf
<1>3. /\ g[0] = m
      /\ \A k \in 1 .. n : g[k] = InitializeValidator(g[k - 1], vals[n + 1 - k], test)
  <2> HIDE DEF g, n
  <2>1. g = [k \in 0 .. n |->
               IF k = 0 THEN m ELSE InitializeValidator(g[k - 1], vals[n + 1 - k], test)]
    BY <1>2 DEF IsPaying, n
  <2>2. QED
    BY <1>1, <2>1
<1>4. SUFFICES ASSUME Bad # {} PROVE FALSE
  BY <1>1, InitializedIsPaying
<1>5. \A k \in 1 .. n : vals[n + 1 - k] \in V
  <2>1. \A k \in 1 .. n : n + 1 - k \in 1 .. n
    BY <1>1
  <2>2. QED
    BY <1>1, <2>1 DEF ToSet
<1> HIDE DEF g, n, V
<1>6. Bad \subseteq Nat
  BY <1>1
<1> HIDE DEF Bad
<1>7. PICK k \in Bad : \A j \in Bad : k <= j
  BY <1>4, <1>6, LeastNumber
<1> USE DEF Bad
<1>8. Good(0)
  <2>1. Dripped(0, test) = 0
    BY MigrationAssumption DEF Dripped
  <2>2. \A a \in DOMAIN m.slow :
          /\ m.slow[a] \in Nat /\ a \in DOMAIN m.balance /\ m.balance[a] \in Nat
    BY DEF Sound
  <2>3. \A a \in DOMAIN m.balance : m.balance[a] \in Nat
    BY DEF Sound
  <2>4. Grown(m, m, V, 0, test)
    BY <2>1, <2>2, <2>3 DEF Grown
  <2>5. QED
    BY <1>3, <2>4
<1> DEFINE j == k - 1
<1>9. j \in Nat /\ j + 1 = k /\ j \in 0 .. n /\ j \notin Bad /\ k \in 1 .. n
  BY <1>1, <1>7, <1>8
<1>10. g[k] = InitializeValidator(g[j], vals[n + 1 - k], test)
  BY <1>3, <1>9
<1> HIDE DEF j
<1>11. Good(j)
  BY <1>9
<1>12. Sound(g[k]) /\ Grown(m, g[k], V, j + 1, test)
  BY <1>5, <1>9, <1>10, <1>11, InitializeKeeps
<1>13. QED
  BY <1>9, <1>12

-----------------------------------------------------------------------------
(***************************************************************************)
(* The migration: the result                                               *)
(***************************************************************************)

\* The migrated chain: what is on it of the records.
LEMMA MigratedIsSound ==
    ASSUME NEW A, NEW list, WellFormed(list, A), Repaired(list)
    PROVE  LET m == Migrated(list)
           IN  /\ Sound(m) /\ Holds(list, Len(list), m)
               /\ m.minted = SumFunction([i \in DOMAIN list |-> Coins(list[i])])
               /\ \A a \in DOMAIN m.deposits : m.deposits[a] = Depositors(list, a)
<1> DEFINE n == Len(list)
           c == RunOf(list)[n]
           m == Migrated(list)
<1>1. After(list, n, c)
  BY AfterLast
<1>2. list \in Seq(Record(A)) /\ DOMAIN list = 1 .. n /\ n \in Nat
  BY DEF WellFormed
<1>3. m = CumuDeposits(c, list)
  BY MigratedIsRun
<1> HIDE DEF c, m, n
<1>4. /\ m.balance = c.balance /\ m.slow = c.slow /\ m.tomb = c.tomb /\ m.minted = c.minted
      /\ m.escrow = c.escrow /\ IsChain(m)
      /\ \A a \in DOMAIN m.deposits : m.deposits[a] = Depositors(list, a)
  BY <1>1, <1>3 DEF CumuDeposits, After, Sound, IsChain
<1>5. Sound(m)
  BY <1>1, <1>4 DEF After, Sound
<1>6. Holds(list, n, m)
  BY <1>1, <1>4 DEF After, Holds
<1>7. m.minted = SumFunction([i \in DOMAIN list |-> Coins(list[i])])
  BY <1>1, <1>2, <1>4 DEF After, CoinsOf, SumFunction
<1>8. QED
  BY <1>4, <1>5, <1>6, <1>7 DEF m, n

\* The accounts of a genesis are faithful to a parsed recovery file.
LEMMA ChainIsFaithful ==
    ASSUME NEW A, NEW list, WellFormed(list, A), Repaired(list),
           NEW vals, Listed(vals), Creatable(list, vals), NEW test \in BOOLEAN
    PROVE  Faithful(list, vals, test, Chain(list, vals, test))
<1> DEFINE n == Len(list)
           m == Migrated(list)
           V == ToSet(vals)
           c == Chain(list, vals, test)
<1>1. /\ Sound(m) /\ Holds(list, n, m)
      /\ m.minted = SumFunction([i \in DOMAIN list |-> Coins(list[i])])
      /\ \A a \in DOMAIN m.deposits : m.deposits[a] = Depositors(list, a)
  BY MigratedIsSound
<1>2. list \in Seq(Record(A)) /\ DOMAIN list = 1 .. n /\ n \in Nat
  BY DEF WellFormed
<1>3. c = Initialized(m, vals, test)
  BY DEF Chain
<1> HIDE DEF m, n, c
<1>4. Sound(c) /\ Grown(m, c, V, Len(vals), test)
  BY <1>1, <1>3, InitializedGrown
<1>5. \A i \in DOMAIN list : list[i] \in Record(A)
  BY <1>2
<1>6. \A a \in DOMAIN c.slow : a \in DOMAIN c.balance /\ c.slow[a] <= c.balance[a]
  BY <1>4 DEF Sound
<1>7. \A a \in DOMAIN c.deposits : c.deposits[a] \cap c.tomb = {}
  <2>1. ASSUME NEW a, NEW x, x \in Depositors(list, a), x \in m.tomb PROVE FALSE
    <3>1. PICK i \in DOMAIN list : a \in list[i].receipts /\ x = list[i].account
      BY <2>1 DEF Depositors
    <3>2. PICK j \in DOMAIN list : list[j].role = "drop" /\ x = list[j].account
      BY <1>1, <2>1 DEF Holds, AccountsOf, DroppedIn
    <3>3. i = j
      BY <3>1, <3>2 DEF WellFormed
    <3>4. list[i] = Drop(list[i])
      BY <3>2, <3>3 DEF WellFormed
    <3>5. list[i].receipts = {}
      BY <3>4 DEF Drop
    <3>6. QED
      BY <3>1, <3>5
  <2>2. QED
    BY <1>1, <1>4, <2>1 DEF Grown
<1>8. \A i \in DOMAIN list : list[i].account \in DOMAIN m.balance => Created(list[i])
  <2>1. ASSUME NEW i \in DOMAIN list, list[i].account \in DOMAIN m.balance
        PROVE  Created(list[i])
    <3>1. PICK j \in DOMAIN list : Created(list[j]) /\ list[i].account = list[j].account
      BY <1>1, <2>1 DEF Holds, AccountsOf, CreatedIn
    <3>2. QED
      BY <3>1 DEF WellFormed
  <2>2. QED
    BY <2>1
<1>9. DOMAIN c.balance \cap c.tomb = {}
  <2>1. ASSUME NEW x, x \in DOMAIN c.balance, x \in c.tomb PROVE FALSE
    <3>1. PICK j \in DOMAIN list : list[j].role = "drop" /\ x = list[j].account
      BY <1>1, <1>4, <2>1 DEF Holds, AccountsOf, DroppedIn, Grown
    <3>2. x \notin V
      BY <3>1 DEF Creatable
    <3>3. x \in DOMAIN m.balance
      BY <1>4, <2>1, <3>2 DEF Grown
    <3>4. QED
      BY <1>8, <3>1, <3>3 DEF Created
  <2>2. QED
    BY <2>1
<1>10. SupplyKept(list, c)
  BY <1>1, <1>4 DEF SupplyKept, Sound, Grown
<1>11. ASSUME NEW i \in DOMAIN list, Created(list[i])
       PROVE  /\ list[i].account \in DOMAIN m.balance
              /\ m.balance[list[i].account] = list[i].balance[1]
              /\ list[i].slow # <<>> => /\ list[i].account \in DOMAIN m.slow
                                        /\ m.slow[list[i].account] = list[i].slow[1]
  <2>1. i \in 1 .. n /\ i \in CreatedIn(list) /\ (list[i].slow # <<>> => i \in SlowedIn(list))
    BY <1>2, <1>11 DEF CreatedIn, SlowedIn, Slowed
  <2>2. QED
    BY <1>1, <1>11, <2>1 DEF Holds, AccountsOf, Slowed
<1>12. UnlockedKept(list, vals, test, c)
  <2>1. ASSUME NEW i \in DOMAIN list, Slowed(list[i])
        PROVE  LET a == list[i].account
               IN  /\ c.balance[a] >= list[i].balance[1]
                   /\ c.slow[a] >= list[i].slow[1]
                   /\ c.slow[a] <= list[i].slow[1] + (c.balance[a] - list[i].balance[1])
                                     + Dripped(Len(vals), test)
    <3> DEFINE a == list[i].account
    <3>1. Created(list[i]) /\ list[i].slow # <<>>
      BY <2>1 DEF Slowed
    <3>2. /\ a \in DOMAIN m.balance /\ m.balance[a] = list[i].balance[1]
          /\ a \in DOMAIN m.slow /\ m.slow[a] = list[i].slow[1]
      BY <1>11, <3>1
    <3> HIDE DEF a
    <3>3. /\ m.balance[a] <= c.balance[a] /\ m.slow[a] <= c.slow[a]
          /\ c.slow[a] <= m.slow[a] + (c.balance[a] - m.balance[a])
                            + Dripped(Len(vals), test)
      BY <1>4, <3>2 DEF Grown
    <3>4. /\ a \in DOMAIN c.balance /\ a \in DOMAIN c.slow
          /\ c.balance[a] \in Nat /\ c.slow[a] \in Nat
          /\ m.balance[a] \in Nat /\ m.slow[a] \in Nat
      BY <1>1, <1>4, <3>2 DEF Grown, Sound
    <3>5. c.balance[a] >= list[i].balance[1] /\ c.slow[a] >= list[i].slow[1]
      BY <3>2, <3>3, <3>4
    <3>6. QED
      BY <3>2, <3>3, <3>5 DEF a
  <2>2. QED
    BY <2>1 DEF UnlockedKept
<1>13. ASSUME NEW i \in Audit(list, c)
       PROVE  list[i].account \in V \/ (test /\ list[i].slow # <<>>)
  <2> DEFINE a == list[i].account
  <2>1. i \in DOMAIN list /\ a \in DOMAIN c.balance
    BY <1>13 DEF Audit
  <2>2. SUFFICES ASSUME a \notin V, ~test \/ list[i].slow = <<>> PROVE FALSE
    OBVIOUS
  <2>3. a \in DOMAIN m.balance /\ c.balance[a] = m.balance[a]
    BY <1>4, <2>1, <2>2 DEF Grown
  <2>4. Created(list[i])
    BY <1>8, <2>1, <2>3
  <2>5. list[i].balance # <<>> /\ c.balance[a] = list[i].balance[1]
    BY <1>11, <2>1, <2>3, <2>4 DEF Created
  <2>6. ASSUME list[i].slow # <<>>
        PROVE  /\ a \in DOMAIN c.slow /\ c.slow[a] = list[i].slow[1]
               /\ ~(c.slow[a] > c.balance[a])
    <3>1. a \in DOMAIN m.slow /\ m.slow[a] = list[i].slow[1] /\ test = FALSE
      BY <1>11, <2>1, <2>2, <2>4, <2>6
    <3> HIDE DEF a
    <3>2. Dripped(Len(vals), test) = 0
      BY <3>1 DEF Dripped
    <3>3. /\ a \in DOMAIN c.slow /\ m.slow[a] <= c.slow[a]
          /\ c.slow[a] <= m.slow[a] + (c.balance[a] - m.balance[a]) + 0
      BY <1>4, <3>1, <3>2 DEF Grown
    <3>4. /\ c.slow[a] \in Nat /\ c.balance[a] \in Nat /\ m.slow[a] \in Nat
          /\ c.slow[a] <= c.balance[a]
      BY <1>1, <1>4, <3>1, <3>3 DEF Sound
    <3>5. c.slow[a] = m.slow[a]
      BY <2>3, <3>3, <3>4
    <3>6. QED
      BY <3>1, <3>3, <3>4, <3>5
  <2>7. QED
    BY <1>13, <2>5, <2>6 DEF Audit
<1>14. QED
  BY <1>6, <1>7, <1>9, <1>10, <1>12, <1>13 DEF Faithful, c

\* The repairs leave the account and the role of a record.
LEMMA ParseKeeps ==
    ASSUME NEW A, NEW list, WellFormed(list, A)
    PROVE  /\ DOMAIN Parse(list) = DOMAIN list
           /\ \A i \in DOMAIN list :
                /\ Parse(list)[i].account = list[i].account
                /\ Parse(list)[i].role = list[i].role
<1>1. \A r \in Record(A) :
        FixSlowWallet(r).account = r.account /\ FixSlowWallet(r).role = r.role
  BY DEF FixSlowWallet, Record
<1>2. \A i \in DOMAIN list : list[i] \in Record(A)
  BY DEF WellFormed
<1>3. QED
  BY <1>1, <1>2 DEF Parse

\* The validators of a testnet are a list.
LEMMA TestValsListed == Listed(TestVals)
<1> DEFINE S == Users \X {1}
           n == Cardinality(S)
<1>1. IsFiniteSet(S)
  BY CeremonyAssumption, FS_Singleton, FS_Product
<1> HIDE DEF S
<1>2. n \in Nat /\ ExistsBijection(1 .. n, S)
  BY <1>1, FS_CardinalityType
<1>3. \E f \in [1 .. n -> S] : IsInjective(f)
  BY <1>2 DEF ExistsBijection, Bijection, Injection, IsInjective
<1>4. TestVals \in [1 .. n -> S]
  BY <1>3 DEF TestVals, SetToSeq, S
<1> HIDE DEF n
<1>5. TestVals \in Seq(S) /\ Len(TestVals) = n /\ DOMAIN TestVals = 1 .. n
  BY <1>2, <1>4
<1>6. \A i \in 1 .. Len(TestVals) : TestVals[i] \in ToSet(TestVals)
  BY <1>5 DEF ToSet
<1> QED
  BY <1>5, <1>6 DEF Listed

\* The validators that a build has fetched are a list.
IsJob(j) ==
    /\ j = [todo |-> j.todo, owners |-> j.owners, operators |-> j.operators]
    /\ Listed(j.owners)

\* The records of a genesis are those of the recovery file, and its validators
\* can be created.
IsBlob(b) ==
    LET g == b[1]
    IN  /\ g.records = Parse(recovery)
        /\ Listed(g.owners) /\ Creatable(recovery, g.owners)

\* Every genesis.blob is of this kind, and so is every build.
BlobInv ==
    /\ recovery \in TestLegacy \cup {Legacy} /\ testing \in BOOLEAN
    /\ blob = [u \in Users |-> blob[u]] /\ job = [u \in Users |-> job[u]]
    /\ \A u \in Users : IsJob(job[u])
    /\ \A u \in Users : blob[u] # Absent => IsBlob(blob[u])

\* A step leaves the builds, begins one or fetches a file.
LEMMA JobStep ==
    ASSUME BlobInv, [CeremonyNext]_ceremonyVars
    PROVE  /\ job' = [u \in Users |-> job'[u]]
           /\ \A u \in Users : IsJob(job'[u])
<1>1. \/ job' = job
      \/ \E u \in Users : EveryoneReady(u) \/ FetchOwner(u) \/ FetchOperator(u)
  BY DEF CeremonyNext, Wizard, ceremonyVars, SetOperator, SetOwner, Again,
     PutOperator, PutOwner, MakePullRequest, WriteBlob, WriteWaypoint, TestGenesis,
     Freshen, DialogueFails, Merge, SetLayout, WizardDies
<1>2. CASE job' = job
  BY <1>2 DEF BlobInv
<1>3. ASSUME NEW u \in Users, NEW j, job' = [job EXCEPT ![u] = j], IsJob(j)
      PROVE  /\ job' = [v \in Users |-> job'[v]]
             /\ \A v \in Users : IsJob(job'[v])
  BY <1>3 DEF BlobInv
<1>4. ASSUME NEW u \in Users, EveryoneReady(u)
      PROVE  \E j : job' = [job EXCEPT ![u] = j] /\ IsJob(j)
  <2> DEFINE j == [NoJob EXCEPT !.todo = Directories]
  <2>1. j = [todo |-> Directories, owners |-> <<>>, operators |-> <<>>]
    BY DEF NoJob
  <2>2. Listed(<<>>)
    BY DEF Listed
  <2>3. IsJob(j)
    BY <2>1, <2>2 DEF IsJob
  <2>4. job' = [job EXCEPT ![u] = j]
    BY <1>4 DEF EveryoneReady
  <2> QED
    BY <2>3, <2>4
<1>5. ASSUME NEW u \in Users, FetchOwner(u)
      PROVE  \E j : job' = [job EXCEPT ![u] = j] /\ IsJob(j)
  <2>1. PICK w : job' = [job EXCEPT ![u].owners = Append(@, w)]
    BY <1>5 DEF FetchOwner
  <2> DEFINE s == Append(job[u].owners, w)
             j == [todo |-> job[u].todo, owners |-> s, operators |-> job[u].operators]
  <2>2. job[u] = [todo |-> job[u].todo, owners |-> job[u].owners,
                  operators |-> job[u].operators] /\ Listed(job[u].owners)
    BY DEF BlobInv, IsJob
  <2>3. Listed(s)
    BY <2>2, ListGrows
  <2> HIDE DEF s
  <2>4. [job[u] EXCEPT !.owners = s] = j
    BY <2>2
  <2>5. job' = [job EXCEPT ![u] = [job[u] EXCEPT !.owners = s]]
    BY <2>1 DEF s
  <2>6. job' = [job EXCEPT ![u] = j]
    BY <2>4, <2>5
  <2>7. IsJob(j)
    BY <2>3 DEF IsJob
  <2> QED
    BY <2>6, <2>7
<1>6. ASSUME NEW u \in Users, FetchOperator(u)
      PROVE  \E j : job' = [job EXCEPT ![u] = j] /\ IsJob(j)
  <2>1. PICK x : job' = [job EXCEPT ![u].operators = Append(@, x)]
    BY <1>6 DEF FetchOperator
  <2> DEFINE s == Append(job[u].operators, x)
             j == [todo |-> job[u].todo, owners |-> job[u].owners, operators |-> s]
  <2>2. job[u] = [todo |-> job[u].todo, owners |-> job[u].owners,
                  operators |-> job[u].operators] /\ Listed(job[u].owners)
    BY DEF BlobInv, IsJob
  <2>5. job' = [job EXCEPT ![u] = [job[u] EXCEPT !.operators = s]]
    BY <2>1 DEF s
  <2> HIDE DEF s
  <2>4. [job[u] EXCEPT !.operators = s] = j
    BY <2>2
  <2>6. job' = [job EXCEPT ![u] = j]
    BY <2>4, <2>5
  <2>7. IsJob(j)
    BY <2>2 DEF IsJob
  <2> QED
    BY <2>6, <2>7
<1> QED
  BY <1>1, <1>2, <1>3, <1>4, <1>5, <1>6

\* A step writes a genesis of the recovery file, or leaves the files.
LEMMA BlobStep ==
    ASSUME BlobInv, [CeremonyNext]_ceremonyVars
    PROVE  BlobInv'
<1>1. recovery' = recovery /\ testing' = testing
  BY DEF CeremonyNext, Wizard, Quiet, ceremonyVars, SetOperator, SetOwner, Again,
     PutOperator, PutOwner, MakePullRequest, EveryoneReady, FetchOwner, FetchOperator,
     WriteBlob, WriteWaypoint, TestGenesis, Freshen, DialogueFails, Merge, SetLayout,
     WizardDies
<1>2. blob' = blob \/ \E u \in Users : WriteBlob(u) \/ TestGenesis(u)
  BY DEF CeremonyNext, Wizard, ceremonyVars, output, SetOperator, SetOwner, Again,
     PutOperator, PutOwner, MakePullRequest, EveryoneReady, FetchOwner, FetchOperator,
     WriteWaypoint, Freshen, DialogueFails, Merge, SetLayout, WizardDies
<1>3. \A s, t : GenesisOf(s, t)[1].records = Parse(recovery) /\ GenesisOf(s, t)[1].owners = s
  BY DEF GenesisOf
<1>4. ASSUME NEW u \in Users, NEW b, blob' = [blob EXCEPT ![u] = b], IsBlob(b)
      PROVE  /\ blob' = [v \in Users |-> blob'[v]]
             /\ \A v \in Users : blob'[v] # Absent => IsBlob(blob'[v])
  BY <1>4 DEF BlobInv
<1>5. /\ blob' = [v \in Users |-> blob'[v]]
      /\ \A v \in Users : blob'[v] # Absent => IsBlob(blob'[v])
  <2>1. CASE blob' = blob
    BY <2>1 DEF BlobInv
  <2>2. ASSUME NEW u \in Users, WriteBlob(u)
        PROVE  blob' = blob \/ \E b : blob' = [blob EXCEPT ![u] = b] /\ IsBlob(b)
    <3>1. CASE blob' = blob
      BY <3>1
    <3>2. CASE blob' # blob
      <4>1. /\ blob' = [blob EXCEPT ![u] = Genesis(u)]
            /\ Creatable(recovery, job[u].owners)
        BY <2>2, <3>2 DEF WriteBlob
      <4>2. Listed(job[u].owners)
        BY DEF BlobInv, IsJob
      <4>3. IsBlob(Genesis(u))
        BY <1>3, <4>1, <4>2 DEF Genesis, IsBlob
      <4> QED
        BY <4>1, <4>3
    <3> QED
      BY <3>1, <3>2
  <2>3. ASSUME NEW u \in Users, TestGenesis(u)
        PROVE  \E b : blob' = [blob EXCEPT ![u] = b] /\ IsBlob(b)
    <3> DEFINE b == GenesisOf(TestVals, TestVals)
    <3>1. blob' = [blob EXCEPT ![u] = b] /\ Creatable(recovery, TestVals)
      BY <2>3 DEF TestGenesis
    <3>2. IsBlob(b)
      BY <1>3, <3>1, TestValsListed DEF IsBlob
    <3> QED
      BY <3>1, <3>2
  <2> QED
    BY <1>2, <1>4, <2>1, <2>2, <2>3
<1>6. \A v \in Users : blob'[v] # Absent => IsBlob(blob[v])'
  BY <1>1, <1>5 DEF IsBlob
<1> QED
  BY <1>1, <1>5, <1>6, JobStep DEF BlobInv

\* MigrationFaithful for any recovery file with one record of an account and
\* tombstones for the dropped ones, and any number of participants, validators
\* and failures: in the accounts of a genesis.blob, as they are when migration and
\* the initialization of the validators are over, no slow wallet has more unlocked
\* than it owns, all coins of the records with an authentication key are in
\* accounts and the escrow and no others are, dropped accounts have nothing, and
\* the audit reports no account but validators and, on the chain for tests, slow
\* wallets.
THEOREM MigrationsAreFaithful == CeremonySpec => []MigrationFaithful
<1>1. CeremonyInit => BlobInv
  <2> SUFFICES ASSUME CeremonyInit PROVE BlobInv
    OBVIOUS
  <2>1. Listed(<<>>)
    BY DEF Listed
  <2>2. IsJob(NoJob)
    BY <2>1 DEF IsJob, NoJob
  <2>3. /\ job = [u \in Users |-> NoJob] /\ blob = [u \in Users |-> Absent]
        /\ recovery \in TestLegacy \cup {Legacy} /\ testing \in BOOLEAN
    BY DEF CeremonyInit
  <2> QED
    BY <2>2, <2>3 DEF BlobInv
<1>2. BlobInv /\ [CeremonyNext]_ceremonyVars => BlobInv'
  BY BlobStep
<1>3. BlobInv => MigrationFaithful
  <2> SUFFICES ASSUME BlobInv, NEW u \in Users, blob[u] # Absent
               PROVE  LET g == blob[u][1]
                      IN  Faithful(g.records, g.owners, testing,
                                   Chain(g.records, g.owners, testing))
    BY DEF MigrationFaithful
  <2> DEFINE list == Parse(recovery)
             vals == blob[u][1].owners
  <2>1. WellFormed(recovery, LegacyAccounts) /\ testing \in BOOLEAN
    BY CeremonyAssumption DEF BlobInv
  <2>2. WellFormed(list, LegacyAccounts) /\ Repaired(list)
    BY <2>1, ParsedIsRepaired
  <2>3. blob[u][1].records = list /\ Listed(vals) /\ Creatable(recovery, vals)
    BY DEF BlobInv, IsBlob
  <2>4. Creatable(list, vals)
    BY <2>1, <2>3, ParseKeeps DEF Creatable
  <2> HIDE DEF list, vals
  <2>5. Faithful(list, vals, testing, Chain(list, vals, testing))
    BY <2>1, <2>2, <2>3, <2>4, ChainIsFaithful
  <2> QED
    BY <2>3, <2>5 DEF vals
<1>4. QED
  BY <1>1, <1>2, <1>3, PTL DEF CeremonySpec
=============================================================================
