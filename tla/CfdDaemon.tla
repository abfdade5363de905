------------------------------ MODULE CfdDaemon ------------------------------
(***************************************************************************)
(* One daemon (maker or taker) looking after one CFD from contract set-up  *)
(* to its final state: the cfd actor, the monitor actor, the oracle actor, *)
(* the database and the wallet, against a Bitcoin chain on which the       *)
(* counterparty acts too.                                                  *)
(*                                                                         *)
(* Every actor handles one message at a time.  A handler of the cfd actor  *)
(* that awaits the wallet is split at the await: `job' says what is left   *)
(* of it, so the chain, the monitor, the oracle and a crash may move in    *)
(* between, and no other cfd-actor handler may.                            *)
(***************************************************************************)

EXTENDS CfdState, Naturals, Sequences

CONSTANTS
    Role,            \* "maker" or "taker"
    CetTimelock,     \* Cfd::CET_TIMELOCK, in confirmations of the commit tx
    RefundTimelock,  \* refund_timelock_in_blocks
    MaxCrashes,      \* bound: crashes of the process
    MaxFailures,     \* bound: broadcasts that fail for no fault of the tx
    MaxFetches,      \* bound: attestation downloads in flight at once
    MaxProposals     \* bound: settlement proposals

ASSUME RoleAssumption == Role \in {"maker", "taker"}
ASSUME TimelockAssumption ==
    /\ CetTimelock \in Nat \ {0}
    /\ RefundTimelock \in Nat
    /\ CetTimelock < RefundTimelock
ASSUME BoundAssumption ==
    /\ MaxCrashes \in Nat
    /\ MaxFailures \in Nat
    /\ MaxFetches \in Nat
    /\ MaxProposals \in Nat
ASSUME SettlementTxs ==
    Settlements \cap {"lock", "commit", "cet", "refund"} = {}
ASSUME OneContract ==
    /\ \E d \in Dlcs : Dlcs = {d}
    /\ \E a \in Attestations : Attestations = {a}
    /\ \A d \in Dlcs : Cets[d] = Attestations

VARIABLES
    \* durable
    db,         \* the latest CfdState in the database
    \* the cfd actor
    setup,      \* a contract set-up future is running
    proposal,   \* the settlement both sides may still sign, or None
    job,        \* what is left of the handler in progress
    cfdMail,    \* the cfd actor's mailbox
    \* the monitor actor
    watching,   \* the CFD is in monitor.cfds
    awaiting,   \* awaiting_status: the targets not reached yet
    reached,    \* targets the current sync found reached, not sent yet
    blocked,    \* the monitor awaits the cfd actor's answer to an event
    monMail,    \* the monitor's mailbox
    \* the oracle actor
    pending,    \* the event is in pending_attestations
    fetches,    \* downloads finished, NewAttestationFetched not handled
    \* the world
    up,         \* the process runs
    tx,         \* each transaction: unseen, mempool or confirmed
    age,        \* confirmations of the commit tx, up to RefundTimelock
    attested,   \* the oracle has published the attestation
    signed,     \* the counterparty has our signatures for the contract
    released,   \* closes the counterparty can publish: it has our signature
    proposals,  \* settlement proposals so far
    crashes,    \* crashes so far
    failures    \* failed broadcasts so far

actorVars   == <<setup, proposal, job, cfdMail>>
monitorVars == <<watching, awaiting, reached, blocked, monMail>>
oracleVars  == <<pending, fetches>>
chainVars   == <<tx, age>>
worldVars   == <<up, attested, signed, released, proposals, crashes>>
vars == <<db, actorVars, monitorVars, oracleVars, chainVars, worldVars,
          failures>>

Dlc         == CHOOSE d \in Dlcs : TRUE
Attestation == CHOOSE a \in Attestations : TRUE

-----------------------------------------------------------------------------
(* The chain.  `commit' and every close spend the lock output; `cet' and   *)
(* `refund' spend the commit output, under relative time locks.            *)

Txs == {"lock", "commit", "cet", "refund"} \cup Settlements

Seen(t)      == tx[t] # "unseen"
Confirmed(t) == tx[t] = "confirmed"

Spends(t) == CASE t = "lock"                -> {}
               [] t \in {"cet", "refund"}   -> {"commit"}
               [] OTHER                     -> {"lock"}

Conflicts(t) == {u \in Txs \ {t} : Spends(u) \cap Spends(t) # {}}

Mature(t) == CASE t = "cet"    -> age >= CetTimelock
               [] t = "refund" -> age >= RefundTimelock
               [] OTHER        -> TRUE

(* What the network takes into its mempool (policy: first seen wins).      *)
Acceptable(t) ==
    /\ ~Seen(t)
    /\ \A p \in Spends(t) : Seen(p)
    /\ \A u \in Conflicts(t) : ~Seen(u)
    /\ Mature(t)

(* TryBroadcastTransaction succeeds, also when the tx is already there.    *)
BroadcastOk(t) ==
    /\ Seen(t) \/ Acceptable(t)
    /\ tx' = IF Seen(t) THEN tx ELSE [tx EXCEPT ![t] = "mempool"]
    /\ UNCHANGED <<age, failures>>

(* The broadcast fails: the tx is refused, or the call itself goes wrong,  *)
(* before or after the tx reached the network.                             *)
BroadcastErr(t) ==
    \/ /\ ~Seen(t) /\ ~Acceptable(t)
       /\ UNCHANGED <<chainVars, failures>>
    \/ /\ Seen(t) \/ Acceptable(t)
       /\ failures < MaxFailures /\ failures' = failures + 1
       /\ UNCHANGED age
       /\ UNCHANGED tx \/ tx' = [tx EXCEPT ![t] = IF Seen(t) THEN @ ELSE "mempool"]

-----------------------------------------------------------------------------
(* Monitoring targets: an event, and for CloseFinality the close.          *)

Target(ev) == [ev |-> ev, close |-> None]
CloseTarget(c) == [ev |-> "CloseFinality", close |-> c]

Targets == {Target(ev) : ev \in MonitorEvents \ {"CloseFinality"}}
           \cup {CloseTarget(c) : c \in Settlements}

(* The script status a target waits for.                                   *)
StatusReached(t) ==
    CASE t.ev = "LockFinality"          -> Confirmed("lock")
      [] t.ev = "CommitFinality"        -> age >= 1
      [] t.ev = "CetTimelockExpired"    -> age >= CetTimelock
      [] t.ev = "RefundTimelockExpired" -> age >= RefundTimelock
      [] t.ev = "CetFinality"           -> Confirmed("cet")
      [] t.ev = "RefundFinality"        -> Confirmed("refund")
      [] t.ev = "CloseFinality"         -> Confirmed(t.close)

TimelockTargets == {Target("CetTimelockExpired"),
                    Target("RefundTimelockExpired")}

RefundTargets == {Target("RefundTimelockExpired"), Target("RefundFinality")}

MonitorAll == {Target("LockFinality"), Target("CommitFinality")}
              \cup TimelockTargets \cup RefundTargets

(* Mutant: the collaborative close of an open CFD is forgotten.            *)
TargetsAtStartNoClose(s) ==
    CASE s.kind = "PendingOpen" -> MonitorAll
      [] s.kind \in {"Open", "PendingCommit"} ->
            MonitorAll \ {Target("LockFinality")}
      [] s.cet = "Unprepared"      -> TimelockTargets \cup RefundTargets
      [] s.cet = "OracleSigned"    -> TimelockTargets \cup RefundTargets
                                      \cup {Target("CetFinality")}
      [] s.cet = "TimelockExpired" -> RefundTargets
      [] s.cet = "Ready" \/ s.kind = "PendingCet" ->
            RefundTargets \cup {Target("CetFinality")}
      [] s.kind = "PendingRefund"  -> RefundTargets
      [] OTHER -> {}

(* Actor::new: the targets registered for a CFD found in the database.     *)
TargetsAtStart(s) ==
    CASE s.kind = "PendingOpen" -> MonitorAll
      [] s.kind \in {"Open", "PendingCommit"} ->
            (MonitorAll \ {Target("LockFinality")})
            \cup IF s.cc # None THEN {CloseTarget(s.cc)} ELSE {}
      [] s.cet = "Unprepared"      -> TimelockTargets \cup RefundTargets
      [] s.cet = "OracleSigned"    -> TimelockTargets \cup RefundTargets
                                      \cup {Target("CetFinality")}
      [] s.cet = "TimelockExpired" -> RefundTargets
      [] s.cet = "Ready" \/ s.kind = "PendingCet" ->
            RefundTargets \cup {Target("CetFinality")}
      [] s.kind = "PendingRefund"  -> RefundTargets
      [] OTHER -> {}

(* Targets on the commit script are reported in the order they were        *)
(* registered, which is the order of their depths.                         *)
ReportedBefore(t, u) ==
    \/ t.ev = "CommitFinality" /\ u \in TimelockTargets
    \/ t.ev = "CetTimelockExpired" /\ u.ev = "RefundTimelockExpired"

-----------------------------------------------------------------------------
(* Messages.                                                               *)

AttestationMsg  == [type |-> "Attestation", target |-> Target("None")]
EventMsg(t)     == [type |-> "Event", target |-> t]
StartMonitoring == [type |-> "StartMonitoring", close |-> None]
MonitorClose(c) == [type |-> "CollaborativeSettlement", close |-> c]
NewAttestation  == [type |-> "Attestation", close |-> None]

EventQueued(mail) == \E i \in DOMAIN mail : mail[i].type = "Event"

(* Jobs: the rest of a handler after an await.                             *)
Job(step)     == [step |-> step, close |-> None]
JobOf(step, c) == [step |-> step, close |-> c]
Idle          == Job("idle")

(* Requests that start a handler find the actor idle.                      *)
CanStart == up /\ job = Idle

(* The handler returns: a monitor waiting for it goes on.                  *)
Return(mail) ==
    /\ job' = Idle
    /\ blocked' = EventQueued(mail)

-----------------------------------------------------------------------------
(* The cfd actor.                                                          *)

(* The set-up future sends its last message: our half of the lock tx,      *)
(* after every other signature but the oracle's.                           *)
SignLock ==
    /\ up /\ setup /\ ~signed
    /\ signed' = TRUE
    /\ UNCHANGED <<db, actorVars, monitorVars, oracleVars, chainVars, up,
                   attested, released, proposals, crashes, failures>>

(* The set-up future ends with a contract or, at any point, with an error. *)
SetupCompleted ==
    /\ CanStart /\ setup
    /\ setup' = FALSE
    /\ \/ /\ signed
          /\ db' = PendingOpen(Dlc, None)
          /\ job' = Job("publishLock")
       \/ /\ db' = Bare("SetupFailed")
          /\ UNCHANGED job
    /\ UNCHANGED <<proposal, cfdMail, monitorVars, oracleVars, chainVars,
                   worldVars, failures>>

(* Mutant: StartMonitoring reaches the oracle but not the monitor.         *)
PublishLockUnmonitored ==
    /\ up /\ job = Job("publishLock")
    /\ \/ BroadcastOk("lock") /\ pending' = TRUE
       \/ BroadcastErr("lock") /\ UNCHANGED pending
    /\ Return(cfdMail)
    /\ UNCHANGED <<db, setup, proposal, cfdMail, watching, awaiting, reached,
                   monMail, fetches, worldVars>>

(* Only after a successful broadcast does the CFD get monitored.           *)
PublishLock ==
    /\ up /\ job = Job("publishLock")
    /\ \/ /\ BroadcastOk("lock")
          /\ monMail' = Append(monMail, StartMonitoring)
          /\ pending' = TRUE
       \/ BroadcastErr("lock") /\ UNCHANGED <<monMail, pending>>
    /\ Return(cfdMail)
    /\ UNCHANGED <<db, setup, proposal, cfdMail, watching, awaiting, reached,
                   fetches, worldVars>>

(* A user asks to publish the commit tx; a failed broadcast changes        *)
(* nothing.                                                                *)
Commit ==
    /\ CanStart /\ CanCommit(db)
    /\ BroadcastOk("commit")
    /\ job' = Job("recordCommit")
    /\ UNCHANGED <<db, setup, proposal, cfdMail, monitorVars, oracleVars,
                   worldVars>>

RecordCommit ==
    /\ up /\ job = Job("recordCommit")
    /\ LET s == Handle(db, AfterCommitTxSent(db))
       IN  db' = IF Changed(s) THEN s ELSE db
    /\ Return(cfdMail)
    /\ UNCHANGED <<setup, proposal, cfdMail, watching, awaiting, reached,
                   monMail, oracleVars, chainVars, worldVars, failures>>

(* Mutant: a CET that became ready is not published.                       *)
JobAfterNoCet(s) == IF s.kind = "PendingRefund" THEN Job("publishRefund")
                                                ELSE Idle

(* What a handler still does after it appended state s.                    *)
JobAfter(s) == CASE s.kind = "PendingRefund" -> Job("publishRefund")
                 [] s.kind = "OpenCommitted" /\ CanPublishCet(s) ->
                        Job("publishCet")
                 [] OTHER -> Idle

(* The head of the mailbox is dealt with, with outcome s of handle.        *)
HandleMail(s) ==
    /\ cfdMail' = Tail(cfdMail)
    /\ IF Changed(s)
       THEN /\ db' = s
            /\ job' = JobAfter(s)
            /\ blocked' = IF job' = Idle THEN EventQueued(cfdMail')
                                         ELSE blocked
       ELSE /\ UNCHANGED db
            /\ Return(cfdMail')
    /\ UNCHANGED <<setup, proposal, watching, awaiting, reached, monMail,
                   oracleVars, chainVars, worldVars, failures>>

MonitoringEvent ==
    /\ CanStart /\ cfdMail # <<>> /\ Head(cfdMail).type = "Event"
    /\ HandleMail(Handle(db, AfterMonitorEvent(db, Head(cfdMail).target.ev)))

(* Only a CFD with a dlc takes the attestation.                            *)
OracleAttestation ==
    /\ CanStart /\ cfdMail # <<>> /\ Head(cfdMail).type = "Attestation"
    /\ HandleMail(IF HasDlc(db)
                  THEN Handle(db, AfterOracleAttestation(db, Attestation))
                  ELSE Ignored)

(* Mutant: a failed broadcast is recorded as a CET sent.                   *)
PublishCetUnchecked ==
    /\ up /\ job = Job("publishCet")
    /\ BroadcastOk("cet") \/ BroadcastErr("cet")
    /\ job' = Job("recordCet")
    /\ UNCHANGED <<db, setup, proposal, cfdMail, monitorVars, oracleVars,
                   worldVars>>

PublishCet ==
    /\ up /\ job = Job("publishCet")
    /\ \/ /\ BroadcastOk("cet")
          /\ job' = Job("recordCet")
          /\ UNCHANGED blocked
       \/ BroadcastErr("cet") /\ Return(cfdMail)
    /\ UNCHANGED <<db, setup, proposal, cfdMail, watching, awaiting, reached,
                   monMail, oracleVars, worldVars>>

RecordCet ==
    /\ up /\ job = Job("recordCet")
    /\ LET s == Handle(db, AfterCetSent(db))
       IN  db' = IF Changed(s) THEN s ELSE db
    /\ Return(cfdMail)
    /\ UNCHANGED <<setup, proposal, cfdMail, watching, awaiting, reached,
                   monMail, oracleVars, chainVars, worldVars, failures>>

PublishRefund ==
    /\ up /\ job = Job("publishRefund")
    /\ BroadcastOk("refund") \/ BroadcastErr("refund")
    /\ Return(cfdMail)
    /\ UNCHANGED <<db, setup, proposal, cfdMail, watching, awaiting, reached,
                   monMail, oracleVars, worldVars>>

(* A settlement is proposed; nothing looks at the state of the CFD.  For   *)
(* the taker this is its pending proposal, for the maker the agreed one.   *)
ProposeSettlement(c) ==
    /\ CanStart
    /\ Role = "taker" => proposal = None
    /\ proposals < MaxProposals /\ proposals' = proposals + 1
    /\ proposal' = c
    /\ UNCHANGED <<db, setup, job, cfdMail, monitorVars, oracleVars,
                   chainVars, up, attested, signed, released, crashes,
                   failures>>

(* Maker: the taker's signature arrives; sign, record, then publish.       *)
InitiateSettlement ==
    /\ CanStart /\ Role = "maker"
    /\ proposal # None /\ db.kind = "Open"
    /\ db' = AfterProposalSigned(db, proposal)
    /\ job' = JobOf("publishClose", proposal)
    /\ UNCHANGED <<setup, proposal, cfdMail, monitorVars, oracleVars,
                   chainVars, worldVars, failures>>

(* Mutant: the monitor is not told of the close.                           *)
PublishCloseUnmonitored ==
    /\ up /\ job.step = "publishClose"
    /\ \/ BroadcastOk(job.close) /\ proposal' = None
       \/ BroadcastErr(job.close) /\ UNCHANGED proposal
    /\ Return(cfdMail)
    /\ UNCHANGED <<db, setup, cfdMail, watching, awaiting, reached, monMail,
                   oracleVars, worldVars>>

PublishClose ==
    /\ up /\ job.step = "publishClose"
    /\ \/ /\ BroadcastOk(job.close)
          /\ monMail' = Append(monMail, MonitorClose(job.close))
          /\ proposal' = None
       \/ BroadcastErr(job.close) /\ UNCHANGED <<monMail, proposal>>
    /\ Return(cfdMail)
    /\ UNCHANGED <<db, setup, cfdMail, watching, awaiting, reached,
                   oracleVars, worldVars>>

(* Taker: the maker turned the proposal down.                              *)
SettlementRejected ==
    /\ CanStart /\ Role = "taker" /\ proposal # None
    /\ proposal' = None
    /\ UNCHANGED <<db, setup, job, cfdMail, monitorVars, oracleVars,
                   chainVars, worldVars, failures>>

(* Taker: the maker accepted; the signature leaves before anything is      *)
(* recorded.                                                               *)
SettlementAccepted ==
    /\ CanStart /\ Role = "taker"
    /\ proposal # None /\ db.kind = "Open"
    /\ released' = released \cup {proposal}
    /\ job' = JobOf("recordClose", proposal)
    /\ UNCHANGED <<db, setup, proposal, cfdMail, monitorVars, oracleVars,
                   chainVars, up, attested, signed, proposals, crashes, failures>>

RecordClose ==
    /\ up /\ job.step = "recordClose"
    /\ db' = AfterProposalSigned(db, job.close)
    /\ proposal' = None
    /\ monMail' = Append(monMail, MonitorClose(job.close))
    /\ Return(cfdMail)
    /\ UNCHANGED <<setup, cfdMail, watching, awaiting, reached, oracleVars,
                   chainVars, worldVars, failures>>

-----------------------------------------------------------------------------
(* The monitor actor.  It handles its mailbox only between two syncs, and  *)
(* a sync sends its events one by one, each answered before the next.      *)

MonitorFree == up /\ reached = {} /\ ~blocked

MonitorMessage ==
    /\ MonitorFree /\ monMail # <<>>
    /\ monMail' = Tail(monMail)
    /\ LET msg == Head(monMail) IN
       \/ /\ msg.type = "StartMonitoring"
          /\ awaiting' = awaiting \cup MonitorAll
          /\ watching' = TRUE
       \/ /\ msg.type = "CollaborativeSettlement"
          /\ awaiting' = awaiting \cup {CloseTarget(msg.close)}
          /\ UNCHANGED watching
       \/ /\ msg.type = "Attestation"
          /\ awaiting' = IF watching THEN awaiting \cup {Target("CetFinality")}
                                     ELSE awaiting
          /\ UNCHANGED watching
    /\ UNCHANGED <<db, actorVars, reached, blocked, oracleVars, chainVars,
                   worldVars, failures>>

Sync ==
    /\ MonitorFree
    /\ reached' = {t \in awaiting : StatusReached(t)}
    /\ reached' # {}
    /\ awaiting' = awaiting \ reached'
    /\ UNCHANGED <<db, actorVars, watching, blocked, monMail, oracleVars,
                   chainVars, worldVars, failures>>

SendEvent(t) ==
    /\ up /\ ~blocked /\ t \in reached
    /\ \A u \in reached : ~ReportedBefore(u, t)
    /\ reached' = reached \ {t}
    /\ cfdMail' = Append(cfdMail, EventMsg(t))
    /\ blocked' = TRUE
    /\ UNCHANGED <<db, setup, proposal, job, watching, awaiting, monMail,
                   oracleVars, chainVars, worldVars, failures>>

-----------------------------------------------------------------------------
(* The oracle actor.  Each sync downloads the attestation of a pending     *)
(* event; a download that comes back is fanned out to both other actors.   *)

FetchAttestation ==
    /\ up /\ pending /\ attested /\ fetches < MaxFetches
    /\ fetches' = fetches + 1
    /\ UNCHANGED <<db, actorVars, monitorVars, pending, chainVars, worldVars,
                   failures>>

(* Mutant: the attestation is fanned out to the cfd actor only.            *)
NewAttestationFetchedOneWay ==
    /\ up /\ fetches > 0
    /\ fetches' = fetches - 1
    /\ pending' = FALSE
    /\ cfdMail' = Append(cfdMail, AttestationMsg)
    /\ UNCHANGED <<db, setup, proposal, job, monitorVars, chainVars,
                   worldVars, failures>>

NewAttestationFetched ==
    /\ up /\ fetches > 0
    /\ fetches' = fetches - 1
    /\ pending' = FALSE
    /\ cfdMail' = Append(cfdMail, AttestationMsg)
    /\ monMail' = Append(monMail, NewAttestation)
    /\ UNCHANGED <<db, setup, proposal, job, watching, awaiting, reached,
                   blocked, chainVars, worldVars, failures>>

-----------------------------------------------------------------------------
(* Crash and restart.                                                      *)

Crash ==
    /\ up /\ crashes < MaxCrashes
    /\ crashes' = crashes + 1
    /\ up' = FALSE
    /\ setup' = FALSE /\ proposal' = None /\ job' = Idle /\ cfdMail' = <<>>
    /\ watching' = FALSE /\ awaiting' = {} /\ reached' = {}
    /\ blocked' = FALSE /\ monMail' = <<>>
    /\ pending' = FALSE /\ fetches' = 0
    /\ UNCHANGED <<db, chainVars, attested, signed, released, proposals,
                   failures>>

(* Mutant: clean up every state without a dlc, final ones included.        *)
CleanedUpWithoutDlc(s) == IF ~HasDlc(s) THEN Bare("SetupFailed") ELSE s

(* transition_non_continue_cfds_to_setup_failed                            *)
CleanedUp(s) == IF s.kind \in CleanupKinds THEN Bare("SetupFailed") ELSE s

(* Mutant: the refund is not rebroadcast.                                  *)
RebroadcastsNoRefund(s) == CASE s.kind = "PendingOpen"   -> {"lock"}
                             [] s.kind = "PendingCommit" -> {"commit"}
                             [] s.kind = "PendingCet"    -> {"cet"}
                             [] OTHER                    -> {}

(* rebroadcast_transactions: the tx that belongs to a pending state.       *)
Rebroadcasts(s) == CASE s.kind = "PendingOpen"   -> {"lock"}
                     [] s.kind = "PendingRefund" -> {"refund"}
                     [] s.kind = "PendingCommit" -> {"commit"}
                     [] s.kind = "PendingCet"    -> {"cet"}
                     [] OTHER                    -> {}

(* Housekeeping first; then the actors start from the database.            *)
Restart ==
    /\ ~up /\ up' = TRUE
    /\ db' = CleanedUp(db)
    /\ IF Rebroadcasts(db) = {} THEN UNCHANGED <<chainVars, failures>>
       ELSE \E t \in Rebroadcasts(db) : BroadcastOk(t) \/ BroadcastErr(t)
    /\ awaiting' = TargetsAtStart(db')
    /\ watching' = (HasDlc(db') \/ db'.kind = "PendingRefund")
    /\ pending' = HasDlc(db')
    /\ UNCHANGED <<actorVars, reached, blocked, monMail, fetches, attested,
                   signed, released, proposals, crashes>>

-----------------------------------------------------------------------------
(* The world: blocks, the oracle and the counterparty.                     *)

(* A block confirms some of the mempool, parents first.                    *)
Mine ==
    /\ \E S \in SUBSET {t \in Txs : tx[t] = "mempool"} :
        /\ \A t \in S : \A p \in Spends(t) : Confirmed(p) \/ p \in S
        /\ tx' = [t \in Txs |-> IF t \in S THEN "confirmed" ELSE tx[t]]
        /\ age' = IF tx'["commit"] # "confirmed" \/ age = RefundTimelock
                  THEN age ELSE age + 1
        /\ S # {} \/ age' # age
    /\ UNCHANGED <<db, actorVars, monitorVars, oracleVars, worldVars,
                   failures>>

Attest ==
    /\ ~attested /\ attested' = TRUE
    /\ UNCHANGED <<db, actorVars, monitorVars, oracleVars, chainVars, up,
                   signed, released, proposals, crashes, failures>>

(* The counterparty can complete every transaction of the contract once    *)
(* our last set-up message left, whatever became of the set-up here.       *)
CounterpartyCanPublish(t) ==
    /\ signed
    /\ t = "cet" => attested
    /\ t \in Settlements => t \in released

CounterpartyPublishes(t) ==
    /\ CounterpartyCanPublish(t) /\ Acceptable(t)
    /\ tx' = [tx EXCEPT ![t] = "mempool"]
    /\ UNCHANGED <<db, actorVars, monitorVars, oracleVars, age, worldVars,
                   failures>>

-----------------------------------------------------------------------------
(* The set-up protocol has begun.  The taker's handle_order_accepted asks  *)
(* the oracle for the attestation before it, the maker only after the lock *)
(* tx is out.                                                              *)
Init ==
    /\ db = Bare("ContractSetup")
    /\ setup = TRUE /\ proposal = None /\ job = Idle /\ cfdMail = <<>>
    /\ watching = FALSE /\ awaiting = {} /\ reached = {}
    /\ blocked = FALSE /\ monMail = <<>>
    /\ pending = (Role = "taker") /\ fetches = 0
    /\ up = TRUE /\ tx = [t \in Txs |-> "unseen"] /\ age = 0
    /\ attested = FALSE /\ signed = FALSE /\ released = {}
    /\ proposals = 0 /\ crashes = 0 /\ failures = 0

CfdActorHandler ==
    \/ SetupCompleted \/ MonitoringEvent \/ OracleAttestation

CfdActorJob ==
    \/ PublishLock \/ RecordCommit \/ PublishCet \/ RecordCet
    \/ PublishRefund \/ PublishClose \/ RecordClose

UserAndPeer ==
    \/ SignLock \/ Commit \/ InitiateSettlement \/ SettlementAccepted
    \/ SettlementRejected \/ \E c \in Settlements : ProposeSettlement(c)

Monitor == MonitorMessage \/ Sync \/ \E t \in reached : SendEvent(t)

Oracle == FetchAttestation \/ NewAttestationFetched

World == Mine \/ Attest \/ \E t \in Txs : CounterpartyPublishes(t)

Next ==
    \/ CfdActorHandler \/ CfdActorJob \/ UserAndPeer
    \/ Monitor \/ Oracle \/ Crash \/ Restart \/ World

Spec == Init /\ [][Next]_vars

(* The actors are scheduled by the runtime (tokio), syncs are timers, the  *)
(* process is restarted, blocks are found.  Requests of users share the    *)
(* cfd actor's FIFO mailbox, so they cannot overtake a message for ever:   *)
(* its handlers are strongly fair.  Users and the counterparty owe nothing.*)
Fairness ==
    /\ SF_vars(CfdActorHandler) /\ WF_vars(CfdActorJob)
    /\ WF_vars(MonitorMessage) /\ WF_vars(Sync)
    /\ WF_vars(\E t \in reached : SendEvent(t))
    /\ WF_vars(FetchAttestation) /\ WF_vars(NewAttestationFetched)
    /\ WF_vars(Restart) /\ WF_vars(Mine)

FairSpec == Spec /\ Fairness

-----------------------------------------------------------------------------
(* Properties.                                                             *)

CfdMsgs == {AttestationMsg} \cup {EventMsg(t) : t \in Targets}
MonMsgs == {StartMonitoring, NewAttestation}
           \cup {MonitorClose(c) : c \in Settlements}
Jobs == {Job(st) : st \in {"idle", "publishLock", "recordCommit",
                           "publishCet", "recordCet", "publishRefund"}}
        \cup {JobOf(st, c) : st \in {"publishClose", "recordClose"},
                             c \in Settlements}

(* Every variable keeps its type; in particular handle always yields one   *)
(* of the variants of CfdState, with the payload that variant carries.     *)
TypeOK ==
    /\ db \in CfdStates
    /\ setup \in BOOLEAN /\ proposal \in Option(Settlements)
    /\ job \in Jobs /\ cfdMail \in Seq(CfdMsgs)
    /\ watching \in BOOLEAN /\ awaiting \subseteq Targets
    /\ reached \subseteq Targets /\ blocked \in BOOLEAN
    /\ monMail \in Seq(MonMsgs)
    /\ pending \in BOOLEAN /\ fetches \in 0..MaxFetches
    /\ up \in BOOLEAN /\ attested \in BOOLEAN /\ signed \in BOOLEAN
    /\ tx \in [Txs -> {"unseen", "mempool", "confirmed"}]
    /\ age \in 0..RefundTimelock
    /\ released \subseteq Settlements
    /\ proposals \in 0..MaxProposals
    /\ crashes \in 0..MaxCrashes /\ failures \in 0..MaxFailures

(* What the database says of the chain is true of the chain: a pending     *)
(* state is recorded only after its transaction was published, a committed *)
(* one only after the commit tx and the time lock of its CET status, a     *)
(* final one only after the transaction that pays out; an attestation only *)
(* after the oracle published it.                                          *)
TrueOfChain(s) ==
    /\ s.kind = "Open"          => Confirmed("lock")
    /\ s.kind = "PendingCommit" => Seen("commit")
    /\ s.kind = "OpenCommitted" => Confirmed("commit")
    /\ s.cet \in {"TimelockExpired", "Ready"} => age >= CetTimelock
    /\ s.kind = "PendingCet"    => Seen("cet")
    /\ s.kind = "PendingRefund" => age >= RefundTimelock
    /\ s.kind = "Refunded"      => Confirmed("refund")
    /\ s.att # None             => attested
    /\ s.kind = "Closed" =>
          \/ s.att # None /\ Confirmed("cet")
          \/ s.cc # None /\ \E c \in Settlements : Confirmed(c)

RecordedOnChain == TrueOfChain(db)

(* A target is looked after when the monitor awaits it or has yet to       *)
(* deliver it.                                                             *)
Undelivered(t) ==
    t \in reached \/ \E i \in DOMAIN cfdMail : cfdMail[i] = EventMsg(t)

Covered(t) ==
    \/ t \in awaiting \/ Undelivered(t)
    \/ t \in MonitorAll /\ \E i \in DOMAIN monMail :
                               monMail[i] = StartMonitoring

AttestationOnItsWay ==
    \/ pending \/ fetches > 0
    \/ \E i \in DOMAIN monMail : monMail[i] = NewAttestation

Watched == watching \/ \E i \in DOMAIN monMail : monMail[i] = StartMonitoring

(* No state of a watched CFD ever waits for a chain event nobody will      *)
(* report: the events that can still move it are awaited or on their way,  *)
(* across syncs, restarts and handlers that failed half-way.  The one      *)
(* exception is a close whose broadcast failed: it is monitored only after *)
(* a restart.                                                              *)
EventsCovered ==
    up /\ Watched =>
    /\ db.kind = "PendingOpen" => Covered(Target("LockFinality"))
    /\ db.kind \in {"PendingOpen", "Open", "PendingCommit"} =>
          \A t \in MonitorAll \ {Target("LockFinality")} : Covered(t)
    /\ db.cet \in {"Unprepared", "OracleSigned"} =>
          Covered(Target("CetTimelockExpired"))
    /\ db.kind = "OpenCommitted" =>
          \A t \in RefundTargets : Covered(t)
    /\ db.att # None /\ db.kind # "Closed" =>
          Covered(Target("CetFinality")) \/ AttestationOnItsWay
    /\ db.kind = "Open" /\ db.cc # None /\ Seen(db.cc) /\ failures = 0 =>
          \/ Covered(CloseTarget(db.cc))
          \/ job = JobOf("publishClose", db.cc)
          \/ \E i \in DOMAIN monMail : monMail[i] = MonitorClose(db.cc)

(* A final state is never left, whatever events are still in flight.       *)
FinalStatesAreFinal == [][db.kind \in FinalKinds => db' = db]_db

(* The abstract life cycle this daemon implements.                         *)
StageOf(s) ==
    CASE s.kind \in CleanupKinds                       -> "setup"
      [] s.kind \in {"SetupFailed", "Rejected"}        -> "failed"
      [] s.kind \in {"PendingOpen", "Open"}            -> "open"
      [] s.kind \in {"PendingCommit", "OpenCommitted"} -> "committed"
      [] s.kind = "PendingCet"                         -> "paying"
      [] s.kind = "PendingRefund"                      -> "refunding"
      [] s.kind = "Closed"                             -> "closed"
      [] s.kind = "Refunded"                           -> "refunded"

OutcomeOnChain ==
    CASE Confirmed("cet")    -> "cet"
      [] Confirmed("refund") -> "refund"
      [] OTHER -> IF \E c \in Settlements : Confirmed(c) THEN "close"
                                                        ELSE "none"

Lifecycle == INSTANCE CfdLifecycle WITH known   <- StageOf(db),
                                        outcome <- OutcomeOnChain

(* The daemon implements CfdLifecycle: through lost events, jumps ahead,   *)
(* crashes and failed broadcasts, what the database says of the CFD moves  *)
(* only forward, and Closed and Refunded are recorded only when the chain  *)
(* has paid out that way.                                                  *)
LifecycleRefined == Lifecycle!LifecycleSpec

(* An attested, mature contract is given up for a refund although the      *)
(* chain took neither of the two payouts.                                  *)
RefundOverCet ==
    db.cet = "Ready" /\ db'.kind = "PendingRefund" /\ ~Seen("cet") /\ ~Seen("refund")

(* That takes a crash or a failed broadcast: a daemon that stops between   *)
(* recording Ready and publishing the CET does not try again.              *)
NoRefundOverCetUndisturbed == [][crashes = 0 /\ failures = 0 => ~RefundOverCet]_db

(* Once the commit tx is confirmed the money does not stay locked: a CET   *)
(* or the refund gets confirmed, even if the counterparty does nothing,    *)
(* unless our set-up failed after our last message: the counterparty may   *)
(* then lock the money, and our part of the contract is gone.  A broadcast *)
(* that fails is not repeated before the next restart, so none fails here. *)
CommittedPaysOut ==
    [](failures = 0) =>
        (Confirmed("commit") ~>
            Confirmed("cet") \/ Confirmed("refund") \/ db.kind = "SetupFailed")

(* A CFD whose lock tx is confirmed does not stay PendingOpen, unless the  *)
(* daemon took a broadcast for failed: it then does not ask the monitor.   *)
LockedIsNoticed ==
    [](failures = 0) => (Confirmed("lock") ~> db.kind # "PendingOpen")

(* A CFD whose CET was published ends up Closed.                           *)
PublishedCetCloses == db.kind = "PendingCet" ~> db.kind = "Closed"

CloseConfirmed == \E c \in Settlements : Confirmed(c)

(* A confirmed collaborative close ends in Closed (handle CloseFinality)   *)
(* where no broadcast fails and no attestation arrives during the close:   *)
(* OracleAttestation replaces the Open state without its close, and        *)
(* CloseFinality is then refused.                                          *)
CloseIsNoticedUnlessAttested ==
    [](~attested /\ failures = 0) => (CloseConfirmed ~> db.kind = "Closed")

(* A confirmed refund is recorded as Refunded, the final state for it.     *)
RefundIsNoticed == Confirmed("refund") ~> db.kind = "Refunded"

=============================================================================
