-------------------------- MODULE CfdDaemonProofs --------------------------
(***************************************************************************)
(* What CfdDaemon guarantees for every contract, number of settlements,    *)
(* time lock, crash and failure bound.  In order: how a step may change    *)
(* the chain, type correctness, the inductive invariant behind             *)
(* RecordedOnChain, that final states are final, that the life cycle is    *)
(* implemented, that what can still move a watched CFD is followed, and    *)
(* that a CET which is ready is tried before the refund.                   *)
(***************************************************************************)

EXTENDS CfdDaemon, CfdStateProofs

-----------------------------------------------------------------------------
(* The chain.                                                              *)

Statuses == {"unseen", "mempool", "confirmed"}

ChainType == tx \in [Txs -> Statuses] /\ age \in 0..RefundTimelock

(* A transaction enters the mempool.                                       *)
Enters(t) ==
    /\ Acceptable(t)
    /\ tx' = [tx EXCEPT ![t] = "mempool"]
    /\ UNCHANGED age

(* A block is found (the chain's part of Mine).                            *)
Block ==
    \E S \in SUBSET {t \in Txs : tx[t] = "mempool"} :
        /\ \A t \in S : \A p \in Spends(t) : Confirmed(p) \/ p \in S
        /\ tx' = [t \in Txs |-> IF t \in S THEN "confirmed" ELSE tx[t]]
        /\ age' = IF tx'["commit"] # "confirmed" \/ age = RefundTimelock
                  THEN age ELSE age + 1

ChainStep == UNCHANGED chainVars \/ Block \/ \E t \in Txs : Enters(t)

LEMMA BroadcastSteps ==
    ASSUME ChainType, NEW t \in Txs, BroadcastOk(t) \/ BroadcastErr(t)
    PROVE  UNCHANGED chainVars \/ Enters(t)
  BY DEF ChainType, BroadcastOk, BroadcastErr, Enters, chainVars, Seen, Txs

LEMMA FailuresType ==
    ASSUME failures \in 0..MaxFailures, NEW t \in Txs,
           BroadcastOk(t) \/ BroadcastErr(t)
    PROVE  failures' \in 0..MaxFailures
  BY BoundAssumption DEF BroadcastOk, BroadcastErr

(* The jobs that carry a close.                                            *)
LEMMA CloseJobs ==
    ASSUME job \in Jobs, job.step \in {"publishClose", "recordClose"}
    PROVE  job.close \in Settlements
  BY DEF Jobs, Job, JobOf

LEMMA NextChainStep ==
    ASSUME ChainType, job \in Jobs, [Next]_vars
    PROVE  ChainStep
  <1> USE DEF ChainStep
  <1>1. CASE UNCHANGED vars
    BY <1>1 DEF vars
  <1>2. CASE PublishLock
    BY <1>2, BroadcastSteps DEF PublishLock, Txs
  <1>3. CASE Commit
    BY <1>3, BroadcastSteps DEF Commit, Txs
  <1>4. CASE PublishCet
    BY <1>4, BroadcastSteps DEF PublishCet, Txs
  <1>5. CASE PublishRefund
    BY <1>5, BroadcastSteps DEF PublishRefund, Txs
  <1>6. CASE PublishClose
    BY <1>6, BroadcastSteps, CloseJobs DEF PublishClose, Txs
  <1>7. CASE Restart
    <2>1. Rebroadcasts(db) \subseteq Txs
      BY DEF Rebroadcasts, Txs
    <2>2. CASE Rebroadcasts(db) = {}
      BY <1>7, <2>2 DEF Restart
    <2>3. CASE \E t \in Rebroadcasts(db) : BroadcastOk(t) \/ BroadcastErr(t)
      BY <2>1, <2>3, BroadcastSteps
    <2> QED BY <1>7, <2>2, <2>3 DEF Restart
  <1>8. CASE Mine
    BY <1>8 DEF Mine, Block
  <1>9. CASE \E t \in Txs : CounterpartyPublishes(t)
    BY <1>9 DEF CounterpartyPublishes, Enters
  <1>11. CASE CfdActorHandler
    BY <1>11 DEF CfdActorHandler, SetupCompleted, MonitoringEvent,
                 OracleAttestation, HandleMail
  <1>12. CASE RecordCommit \/ RecordCet \/ RecordClose
    BY <1>12 DEF RecordCommit, RecordCet, RecordClose
  <1>13. CASE SignLock \/ InitiateSettlement \/ SettlementAccepted
              \/ SettlementRejected \/ \E c \in Settlements : ProposeSettlement(c)
    BY <1>13 DEF SignLock, InitiateSettlement, SettlementAccepted,
                 SettlementRejected, ProposeSettlement
  <1>14. CASE Monitor \/ Oracle
    BY <1>14 DEF Monitor, MonitorMessage, Sync, SendEvent, Oracle,
                 FetchAttestation, NewAttestationFetched
  <1>15. CASE Crash \/ Attest
    BY <1>15 DEF Crash, Attest
  <1> QED BY <1>1, <1>2, <1>3, <1>4, <1>5, <1>6, <1>7, <1>8, <1>9, <1>11,
             <1>12, <1>13, <1>14, <1>15
          DEF Next, CfdActorJob, UserAndPeer, World

(* A step never takes anything back from the chain, and it keeps its type. *)
ChainGrows ==
    /\ \A t \in Txs : Seen(t) => Seen(t)'
    /\ \A t \in Txs : Confirmed(t) => Confirmed(t)'
    /\ age' >= age

LEMMA ChainStepGrows ==
    ASSUME ChainType, ChainStep
    PROVE  ChainType' /\ ChainGrows
  <1> USE TimelockAssumption DEF ChainType, ChainGrows, Seen, Confirmed, Statuses
  <1>1. CASE UNCHANGED chainVars
    BY <1>1 DEF chainVars
  <1>2. CASE Block
    <2>1. PICK S \in SUBSET {t \in Txs : tx[t] = "mempool"} :
            tx' = [t \in Txs |-> IF t \in S THEN "confirmed" ELSE tx[t]]
      BY <1>2 DEF Block
    <2>2. age' = age \/ (age # RefundTimelock /\ age' = age + 1)
      BY <1>2 DEF Block
    <2> QED BY <2>1, <2>2
  <1>3. ASSUME NEW t \in Txs, Enters(t)
        PROVE  ChainType' /\ ChainGrows
    BY <1>3 DEF Enters, Acceptable
  <1> QED BY <1>1, <1>2, <1>3 DEF ChainStep

(* The rules of the chain: an aged commit tx is confirmed, what spends its *)
(* output was published only afterwards, an output is spent once.          *)
ChainRules ==
    /\ age >= 1 => Confirmed("commit")
    /\ Seen("cet") \/ Seen("refund") => age >= 1
    /\ ~(Seen("cet") /\ Seen("refund"))
    /\ Seen("commit") => \A c \in Settlements : ~Seen(c)

LEMMA ChainRulesInit == Init => ChainType /\ ChainRules
  BY TimelockAssumption
     DEF Init, ChainType, ChainRules, Statuses, Seen, Confirmed, Txs

LEMMA ChainRulesStep ==
    ASSUME ChainType, ChainRules, ChainStep
    PROVE  ChainRules'
  <1> USE TimelockAssumption, SettlementTxs
      DEF ChainType, ChainRules, Seen, Confirmed, Statuses, Txs
  <1>1. CASE UNCHANGED chainVars
    BY <1>1 DEF chainVars
  <1>2. CASE Block
    <2>1. PICK S \in SUBSET {t \in Txs : tx[t] = "mempool"} :
            tx' = [t \in Txs |-> IF t \in S THEN "confirmed" ELSE tx[t]]
      BY <1>2 DEF Block
    <2>2. age' = age \/ tx'["commit"] = "confirmed"
      BY <1>2 DEF Block
    <2>3. \A t \in Txs : Seen(t)' <=> Seen(t)
      BY <2>1
    <2>4. age' >= age /\ age' \in 0..RefundTimelock /\ (Confirmed("commit") => Confirmed("commit")')
      BY <1>2, ChainStepGrows DEF ChainStep, ChainGrows
    <2>5. (age >= 1 => Confirmed("commit"))'
      BY <2>2, <2>4
    <2>6. (Seen("cet") \/ Seen("refund") => age >= 1)'
      BY <2>3, <2>4
    <2>7. (~(Seen("cet") /\ Seen("refund")))'
      BY <2>3
    <2>8. (Seen("commit") => \A c \in Settlements : ~Seen(c))'
      BY <2>3
    <2> QED BY <2>5, <2>6, <2>7, <2>8
  <1>3. ASSUME NEW t \in Txs, Enters(t)
        PROVE  ChainRules'
    <2>1. CASE t \in {"cet", "refund"}
      BY <1>3, <2>1 DEF Enters, Acceptable, Conflicts, Spends, Mature
    <2>2. CASE t = "commit"
      <3>1. \A c \in Settlements : c \in Conflicts("commit")
        BY DEF Conflicts, Spends
      <3> QED BY <1>3, <2>2, <3>1 DEF Enters, Acceptable
    <2>3. CASE t \in Settlements
      <3>1. "commit" \in Conflicts(t)
        BY <2>3 DEF Conflicts, Spends
      <3> QED BY <1>3, <2>3, <3>1 DEF Enters, Acceptable
    <2>4. CASE t = "lock"
      BY <1>3, <2>4 DEF Enters, Acceptable
    <2> QED BY <2>1, <2>2, <2>3, <2>4
  <1> QED BY <1>1, <1>2, <1>3 DEF ChainStep

-----------------------------------------------------------------------------
(* Types.                                                                  *)

(* What the handlers in progress know of the database.                     *)
Handlers ==
    /\ setup => db = Bare("ContractSetup")
    /\ ~up => ~setup /\ job = Idle
    /\ job.step = "recordClose" => db.kind = "Open"
    /\ job.step \in {"publishCet", "recordCet"} => db.cet = "Ready"

Typed == TypeOK /\ Handlers

LEMMA TypedInit == Init => Typed
  <1> SUFFICES ASSUME Init PROVE Typed
    OBVIOUS
  <1>1. Bare("ContractSetup") \in CfdStates
    BY ConstructorsClosed DEF BareKinds, CleanupKinds
  <1>2. Idle \in Jobs /\ Idle.step = "idle"
    BY DEF Idle, Job, Jobs
  <1>3. TypeOK
    <2>1. cfdMail \in Seq(CfdMsgs) /\ monMail \in Seq(MonMsgs)
      BY DEF Init
    <2>2. fetches \in 0..MaxFetches /\ proposals \in 0..MaxProposals
          /\ crashes \in 0..MaxCrashes /\ failures \in 0..MaxFailures
          /\ age \in 0..RefundTimelock
      BY TimelockAssumption, BoundAssumption DEF Init
    <2>3. db \in CfdStates /\ job \in Jobs
      BY <1>1, <1>2 DEF Init
    <2> QED BY <2>1, <2>2, <2>3 DEF Init, TypeOK, Option
  <1>4. Handlers
    BY <1>2 DEF Init, Handlers
  <1> QED BY <1>3, <1>4 DEF Typed

LEMMA JobTypes ==
    /\ Idle \in Jobs
    /\ Idle.step = "idle"
    /\ \A st \in {"publishLock", "recordCommit", "publishCet", "recordCet",
                  "publishRefund"} : Job(st) \in Jobs /\ Job(st).step = st
    /\ \A st \in {"publishClose", "recordClose"}, c \in Settlements :
          JobOf(st, c) \in Jobs /\ JobOf(st, c).step = st /\ JobOf(st, c).close = c
    /\ \A s : JobAfter(s) \in Jobs
    /\ \A s : JobAfter(s).step \in {"publishCet", "publishRefund", "idle"}
    /\ \A s : JobAfter(s).step = "publishCet" => s.kind = "OpenCommitted" /\ CanPublishCet(s)
  <1> USE DEF Idle, Job, Jobs, JobOf
  <1>1. \A st \in {"idle", "publishLock", "recordCommit", "publishCet",
                   "recordCet", "publishRefund"} :
          Job(st) \in Jobs /\ Job(st).step = st
    OBVIOUS
  <1>2. \A st \in {"publishClose", "recordClose"}, c \in Settlements :
          /\ JobOf(st, c) \in Jobs
          /\ JobOf(st, c).step = st /\ JobOf(st, c).close = c
    OBVIOUS
  <1>3. ASSUME NEW s
        PROVE  /\ JobAfter(s) \in {Idle, Job("publishRefund"), Job("publishCet")}
               /\ JobAfter(s) = Job("publishCet") =>
                      s.kind = "OpenCommitted" /\ CanPublishCet(s)
    BY DEF JobAfter
  <1> HIDE DEF Job, Jobs, JobOf
  <1> QED BY <1>1, <1>2, <1>3 DEF Idle

LEMMA MailTypes ==
    /\ AttestationMsg \in CfdMsgs
    /\ \A t \in Targets : EventMsg(t) \in CfdMsgs
    /\ StartMonitoring \in MonMsgs /\ NewAttestation \in MonMsgs
    /\ \A c \in Settlements : MonitorClose(c) \in MonMsgs
    /\ \A m \in CfdMsgs : m.type = "Event" => m.target \in Targets /\ m = EventMsg(m.target)
    /\ \A m \in MonMsgs : m.type = "CollaborativeSettlement" => m.close \in Settlements
    /\ \A t \in Targets : t.ev \in MonitorEvents
  <1>1. \A m \in CfdMsgs : m.type = "Event" =>
                             m.target \in Targets /\ m = EventMsg(m.target)
    BY DEF CfdMsgs, AttestationMsg, EventMsg
  <1>2. \A m \in MonMsgs : m.type = "CollaborativeSettlement" =>
                             m.close \in Settlements
    BY DEF MonMsgs, StartMonitoring, NewAttestation, MonitorClose
  <1>3. \A t \in Targets : t.ev \in MonitorEvents
    BY DEF Targets, Target, CloseTarget, MonitorEvents
  <1> QED BY <1>1, <1>2, <1>3 DEF CfdMsgs, MonMsgs

LEMMA TargetTypes ==
    /\ MonitorAll \subseteq Targets
    /\ \A c \in Settlements : CloseTarget(c) \in Targets
    /\ Target("CetFinality") \in Targets
    /\ \A s \in CfdStates : TargetsAtStart(s) \subseteq Targets
  <1>1. TimelockTargets \cup RefundTargets \cup MonitorAll \cup {Target("CetFinality"), Target("LockFinality")} \subseteq Targets
    BY DEF Targets, MonitorAll, RefundTargets, TimelockTargets, MonitorEvents
  <1>2. \A c \in Settlements : CloseTarget(c) \in Targets
    BY DEF Targets
  <1>3. ASSUME NEW s \in CfdStates
        PROVE TargetsAtStart(s) \subseteq Targets
    <2>1. s.cc \in Option(Settlements)
      BY StateCases DEF Option
    <2> QED BY <1>1, <1>2, <2>1 DEF TargetsAtStart, Option
  <1> QED BY <1>1, <1>2, <1>3

LEMMA ContractTypes == Dlc \in Dlcs /\ Attestation \in Attestations
  BY OneContract DEF Dlc, Attestation

LEMMA HandleMailTyped ==
    ASSUME Typed, CanStart, cfdMail # <<>>,
           NEW s \in Outcomes, setup => ~Changed(s), HandleMail(s)
    PROVE  Typed'
  <1> USE DEF Typed, TypeOK, HandleMail
  <1>1. cfdMail' \in Seq(CfdMsgs)
    OBVIOUS
  <1>2. CASE Changed(s)
    <2>1. s \in CfdStates
      BY <1>2, HandleType DEF Outcomes, Changed
    <2>2. job' = JobAfter(s) /\ job' \in Jobs /\ job'.step # "recordClose" /\ job'.step # "recordCet"
      BY <1>2, JobTypes
    <2>3. blocked' \in BOOLEAN
      BY <1>2 DEF EventQueued
    <2>4. TypeOK'
      BY <1>1, <1>2, <2>1, <2>2, <2>3
         DEF oracleVars, chainVars, worldVars
    <2>5. job'.step = "publishCet" => s.cet = "Ready"
      BY <2>2, JobTypes DEF CanPublishCet
    <2>6. Handlers'
      BY <1>2, <2>2, <2>5 DEF Handlers, CanStart, worldVars
    <2> QED BY <2>4, <2>6
  <1>3. CASE ~Changed(s)
    <2>1. job' = Idle /\ job' \in Jobs /\ job'.step = "idle"
      BY <1>3, JobTypes DEF Return
    <2>2. blocked' \in BOOLEAN
      BY <1>3 DEF Return, EventQueued
    <2>4. TypeOK'
      BY <1>1, <1>3, <2>1, <2>2 DEF oracleVars, chainVars, worldVars
    <2>6. Handlers'
      BY <1>3, <2>1 DEF Handlers, worldVars
    <2> QED BY <2>4, <2>6
  <1> QED BY <1>2, <1>3

LEMMA TypedActor ==
    ASSUME Typed, CfdActorHandler
    PROVE  Typed'
  <1>1. CASE SetupCompleted
    <2>1. PendingOpen(Dlc, None) \in CfdStates /\ Bare("SetupFailed") \in CfdStates
      BY Constructors, ConstructorsClosed, ContractTypes DEF Option, BareKinds
    <2>2. db' \in CfdStates /\ job' \in Jobs /\ job'.step \notin {"recordClose", "publishCet", "recordCet"}
          /\ setup' = FALSE
      BY <1>1, <2>1, JobTypes DEF SetupCompleted, CanStart
    <2>3. TypeOK'
      BY <1>1, <2>2 DEF SetupCompleted, Typed, TypeOK, monitorVars, oracleVars, chainVars, worldVars
    <2>4. Handlers'
      BY <1>1, <2>2 DEF SetupCompleted, CanStart, Handlers, worldVars
    <2> QED BY <2>3, <2>4 DEF Typed
  <1>2. CASE MonitoringEvent
    <2> DEFINE o == AfterMonitorEvent(db, Head(cfdMail).target.ev)
    <2>1. Head(cfdMail).target.ev \in MonitorEvents
      BY <1>2, MailTypes DEF MonitoringEvent, Typed, TypeOK
    <2>2. o \in Outcomes
      BY <2>1, AfterMonitorEventType DEF Typed, TypeOK
    <2>3. Handle(db, o) \in Outcomes
      BY <2>2, HandleType DEF Typed, TypeOK
    <2>4. setup => ~Changed(Handle(db, o))
      BY <2>1, BareStatesStay DEF Typed, TypeOK, Handlers, Bare, Variant, BareKinds, CleanupKinds, Handle, Changed
    <2> QED BY <1>2, <2>3, <2>4, HandleMailTyped DEF MonitoringEvent
  <1>3. CASE OracleAttestation
    <2> DEFINE o == IF HasDlc(db)
                    THEN Handle(db, AfterOracleAttestation(db, Attestation))
                    ELSE Ignored
    <2>1. AfterOracleAttestation(db, Attestation) \in Outcomes
      BY AfterTypes, ContractTypes DEF Typed, TypeOK
    <2>2. o \in Outcomes
      BY <2>1, HandleType DEF Typed, TypeOK, Outcomes
    <2>3. setup => ~Changed(o)
      BY BareStatesStay DEF Typed, TypeOK, Handlers, Bare, Variant, BareKinds, CleanupKinds, Changed
    <2> QED BY <1>3, <2>2, <2>3, HandleMailTyped DEF OracleAttestation
  <1> QED BY <1>1, <1>2, <1>3 DEF CfdActorHandler

LEMMA ReturnTypes ==
    ASSUME Return(cfdMail)
    PROVE  job' = Idle /\ job' \in Jobs /\ job'.step = "idle"
           /\ blocked' \in BOOLEAN
  BY JobTypes DEF Return, EventQueued

LEMMA ChainTyped ==
    ASSUME Typed, [Next]_vars
    PROVE  ChainType' /\ ChainGrows
  BY NextChainStep, ChainStepGrows
     DEF Typed, TypeOK, ChainType, Statuses

LEMMA TypedJob ==
    ASSUME Typed, CfdActorJob, ChainType'
    PROVE  Typed'
  <1> USE DEF Typed, ChainType, Statuses, monitorVars, oracleVars, chainVars, worldVars
  <1>1. CASE PublishLock
    <2>1. job' \in Jobs /\ job'.step = "idle" /\ job' = Idle /\ blocked' \in BOOLEAN
      BY <1>1, ReturnTypes DEF PublishLock
    <2>2. monMail' \in Seq(MonMsgs) /\ pending' \in BOOLEAN
      <3>1. \/ pending' = TRUE /\ monMail' = Append(monMail, StartMonitoring)
            \/ pending' = pending /\ monMail' = monMail
        BY <1>1 DEF PublishLock
      <3>2. Append(monMail, StartMonitoring) \in Seq(MonMsgs)
        BY MailTypes DEF TypeOK
      <3> QED BY <3>1, <3>2 DEF TypeOK
    <2>3. failures' \in 0..MaxFailures
      BY <1>1, FailuresType DEF PublishLock, TypeOK, Txs
    <2> QED BY <1>1, <2>1, <2>2, <2>3 DEF PublishLock, TypeOK, Handlers
  <1>2. CASE RecordCommit
    <2>1. job' \in Jobs /\ job'.step = "idle" /\ job' = Idle /\ blocked' \in BOOLEAN
      BY <1>2, ReturnTypes DEF RecordCommit
    <2>2. AfterCommitTxSent(db) \in Outcomes
      BY AfterTypes DEF TypeOK
    <2>3. db' \in CfdStates
      BY <1>2, <2>2, HandleType DEF RecordCommit, TypeOK
    <2>4. setup => db' = db
      BY <1>2, BareStatesStay
         DEF RecordCommit, TypeOK, Handlers, Handle, Changed, Bare, Variant, BareKinds, CleanupKinds
    <2> QED BY <1>2, <2>1, <2>3, <2>4 DEF RecordCommit, TypeOK, Handlers
  <1>3. CASE PublishCet
    <2>1. job' \in Jobs /\ job'.step \in {"idle", "recordCet"} /\ blocked' \in BOOLEAN
      BY <1>3, ReturnTypes, JobTypes DEF PublishCet, TypeOK
    <2>2. failures' \in 0..MaxFailures
      BY <1>3, FailuresType DEF PublishCet, TypeOK, Txs
    <2>3. job.step = "publishCet"
      BY <1>3, JobTypes DEF PublishCet
    <2> QED BY <1>3, <2>1, <2>2, <2>3 DEF PublishCet, TypeOK, Handlers
  <1>4. CASE RecordCet
    <2>1. job' \in Jobs /\ job'.step = "idle" /\ job' = Idle /\ blocked' \in BOOLEAN
      BY <1>4, ReturnTypes DEF RecordCet
    <2>2. AfterCetSent(db) \in Outcomes
      BY AfterTypes DEF TypeOK
    <2>3. db' \in CfdStates
      BY <1>4, <2>2, HandleType DEF RecordCet, TypeOK
    <2>4. setup => db' = db
      BY <1>4, BareStatesStay
         DEF RecordCet, TypeOK, Handlers, Handle, Changed, Bare, Variant, BareKinds, CleanupKinds
    <2> QED BY <1>4, <2>1, <2>3, <2>4 DEF RecordCet, TypeOK, Handlers
  <1>5. CASE PublishRefund
    <2>1. job' \in Jobs /\ job'.step = "idle" /\ job' = Idle /\ blocked' \in BOOLEAN
      BY <1>5, ReturnTypes DEF PublishRefund
    <2>2. failures' \in 0..MaxFailures
      BY <1>5, FailuresType DEF PublishRefund, TypeOK, Txs
    <2> QED BY <1>5, <2>1, <2>2 DEF PublishRefund, TypeOK, Handlers
  <1>6. CASE PublishClose
    <2>1. job' \in Jobs /\ job'.step = "idle" /\ job' = Idle /\ blocked' \in BOOLEAN
      BY <1>6, ReturnTypes DEF PublishClose
    <2>2. job.close \in Settlements
      BY <1>6, CloseJobs DEF PublishClose, TypeOK
    <2>3. failures' \in 0..MaxFailures
      BY <1>6, <2>2, FailuresType DEF PublishClose, TypeOK, Txs
    <2>4. monMail' \in Seq(MonMsgs) /\ proposal' \in Option(Settlements)
      <3>1. /\ proposal' \in {proposal, None}
            /\ monMail' \in {monMail, Append(monMail, MonitorClose(job.close))}
        BY <1>6 DEF PublishClose
      <3>2. /\ Append(monMail, MonitorClose(job.close)) \in Seq(MonMsgs)
            /\ monMail \in Seq(MonMsgs)
        BY <2>2, MailTypes DEF TypeOK
      <3>3. proposal \in Option(Settlements) /\ None \in Option(Settlements)
        BY DEF TypeOK, Option
      <3> HIDE DEF Typed
      <3> QED BY <3>1, <3>2, <3>3
    <2> QED BY <1>6, <2>1, <2>3, <2>4 DEF PublishClose, TypeOK, Handlers
  <1>7. CASE RecordClose
    <2>1. job' \in Jobs /\ job'.step = "idle" /\ job' = Idle /\ blocked' \in BOOLEAN
      BY <1>7, ReturnTypes DEF RecordClose
    <2>2. job.close \in Settlements /\ db.kind = "Open"
      BY <1>7, CloseJobs DEF RecordClose, TypeOK, Handlers
    <2>3. db' \in CfdStates
      BY <1>7, <2>2, Constructors, StateCases DEF RecordClose, AfterProposalSigned, TypeOK, BareKinds, CleanupKinds, Option
    <2>4. ~setup
      BY <2>2 DEF Handlers, Bare, Variant
    <2>5. monMail' \in Seq(MonMsgs) /\ proposal' \in Option(Settlements)
      <3>1. MonitorClose(job.close) \in MonMsgs
        BY <2>2, MailTypes
      <3>2. monMail' \in Seq(MonMsgs)
        BY <1>7, <3>1 DEF RecordClose, TypeOK
      <3>3. proposal' \in Option(Settlements)
        BY <1>7 DEF RecordClose, TypeOK, Option
      <3> QED BY <3>2, <3>3
    <2> QED BY <1>7, <2>1, <2>3, <2>4, <2>5 DEF RecordClose, TypeOK, Handlers
  <1> QED BY <1>1, <1>2, <1>3, <1>4, <1>5, <1>6, <1>7 DEF CfdActorJob

LEMMA TypedUser ==
    ASSUME Typed, UserAndPeer, ChainType'
    PROVE  Typed'
  <1> USE DEF Typed, ChainType, Statuses, monitorVars, oracleVars, chainVars,
              worldVars
  <1>1. CASE SignLock
    BY <1>1 DEF SignLock, actorVars, TypeOK, Handlers
  <1>2. CASE Commit
    <2>1. job' \in Jobs /\ job'.step = "recordCommit"
      BY <1>2, JobTypes DEF Commit
    <2>2. failures' \in 0..MaxFailures
      BY <1>2, FailuresType DEF Commit, TypeOK, Txs
    <2> QED BY <1>2, <2>1, <2>2 DEF Commit, CanStart, TypeOK, Handlers
  <1>3. CASE InitiateSettlement
    <2>1. proposal \in Settlements
      BY <1>3 DEF InitiateSettlement, TypeOK, Option
    <2>2. job' \in Jobs /\ job'.step = "publishClose"
      BY <1>3, <2>1, JobTypes DEF InitiateSettlement
    <2>3. db' \in CfdStates
      BY <1>3, <2>1, Constructors, StateCases
         DEF InitiateSettlement, AfterProposalSigned, TypeOK, BareKinds,
             CleanupKinds, Option
    <2>4. ~setup
      BY <1>3 DEF InitiateSettlement, Handlers, Bare, Variant
    <2> QED BY <1>3, <2>2, <2>3, <2>4
            DEF InitiateSettlement, CanStart, TypeOK, Handlers
  <1>4. CASE SettlementAccepted
    <2>1. proposal \in Settlements
      BY <1>4 DEF SettlementAccepted, TypeOK, Option
    <2>2. job' \in Jobs /\ job'.step = "recordClose"
      BY <1>4, <2>1, JobTypes DEF SettlementAccepted
    <2> QED BY <1>4, <2>1, <2>2
            DEF SettlementAccepted, CanStart, TypeOK, Handlers
  <1>5. CASE SettlementRejected
    BY <1>5 DEF SettlementRejected, TypeOK, Handlers, Option
  <1>6. CASE \E c \in Settlements : ProposeSettlement(c)
    BY <1>6, BoundAssumption DEF ProposeSettlement, TypeOK, Handlers, Option
  <1> QED BY <1>1, <1>2, <1>3, <1>4, <1>5, <1>6 DEF UserAndPeer

LEMMA TypedMonitor ==
    ASSUME Typed, Monitor
    PROVE  Typed'
  <1> USE DEF Typed, actorVars, oracleVars, chainVars, worldVars
  <1>1. CASE MonitorMessage
    <2>1. monMail' \in Seq(MonMsgs) /\ Head(monMail) \in MonMsgs
      BY <1>1 DEF MonitorMessage, TypeOK
    <2>2. awaiting' \subseteq Targets /\ watching' \in BOOLEAN
      BY <1>1, <2>1, MailTypes, TargetTypes DEF MonitorMessage, TypeOK
    <2> QED BY <1>1, <2>1, <2>2 DEF MonitorMessage, TypeOK, Handlers
  <1>2. CASE Sync
    BY <1>2 DEF Sync, TypeOK, Handlers
  <1>3. CASE \E t \in reached : SendEvent(t)
    BY <1>3, MailTypes DEF SendEvent, TypeOK, Handlers
  <1> QED BY <1>1, <1>2, <1>3 DEF Monitor

LEMMA TypedOracle ==
    ASSUME Typed, Oracle
    PROVE  Typed'
  <1> USE BoundAssumption
      DEF Typed, actorVars, monitorVars, chainVars, worldVars, TypeOK, Handlers
  <1>1. CASE FetchAttestation
    BY <1>1 DEF FetchAttestation
  <1>2. CASE NewAttestationFetched
    <2>1. cfdMail' \in Seq(CfdMsgs) /\ monMail' \in Seq(MonMsgs)
      BY <1>2, MailTypes DEF NewAttestationFetched
    <2>2. fetches' \in 0..MaxFetches /\ pending' = FALSE
      BY <1>2 DEF NewAttestationFetched
    <2> QED BY <1>2, <2>1, <2>2 DEF NewAttestationFetched
  <1> QED BY <1>1, <1>2 DEF Oracle

LEMMA TypedCrash ==
    ASSUME Typed, Crash
    PROVE  Typed'
  <1>1. cfdMail' \in Seq(CfdMsgs) /\ monMail' \in Seq(MonMsgs)
    BY DEF Crash
  <1>2. fetches' \in 0..MaxFetches /\ crashes' \in 0..MaxCrashes
    BY BoundAssumption DEF Crash, Typed, TypeOK
  <1>3. proposal' \in Option(Settlements) /\ job' \in Jobs /\ job' = Idle
    BY JobTypes DEF Crash, Option
  <1>4. TypeOK'
    BY <1>1, <1>2, <1>3 DEF Crash, Typed, TypeOK, chainVars
  <1> QED BY <1>3, <1>4, JobTypes DEF Crash, Typed, Handlers

LEMMA TypedRestart ==
    ASSUME Typed, Restart, ChainType'
    PROVE  Typed'
  <1>1. Bare("SetupFailed") \in CfdStates
    BY ConstructorsClosed DEF BareKinds
  <1>2. db' \in CfdStates
    BY <1>1 DEF Restart, CleanedUp, Typed, TypeOK
  <1>3. awaiting' \subseteq Targets
    BY <1>2, TargetTypes DEF Restart
  <1>4. failures' \in 0..MaxFailures
    <2>1. Rebroadcasts(db) \subseteq Txs
      BY DEF Rebroadcasts, Txs
    <2> QED BY <2>1, FailuresType DEF Restart, Typed, TypeOK
  <1>5. ~setup /\ job = Idle /\ UNCHANGED <<setup, proposal, job, cfdMail>>
    BY DEF Restart, actorVars, Typed, Handlers
  <1>6. watching' \in BOOLEAN /\ pending' \in BOOLEAN
    BY DEF Restart, HasDlc
  <1>7. TypeOK'
    BY <1>2, <1>3, <1>4, <1>5, <1>6
    DEF Restart, Typed, TypeOK, ChainType, Statuses
  <1> QED BY <1>5, <1>7, JobTypes DEF Restart, Typed, Handlers

LEMMA TypedWorld ==
    ASSUME Typed, World, ChainType'
    PROVE  Typed'
  <1> USE DEF Typed, TypeOK, Handlers, ChainType, Statuses, actorVars,
              monitorVars, oracleVars, worldVars, chainVars
  <1>1. CASE Mine
    BY <1>1 DEF Mine
  <1>2. CASE Attest
    BY <1>2 DEF Attest
  <1>3. CASE \E t \in Txs : CounterpartyPublishes(t)
    BY <1>3 DEF CounterpartyPublishes
  <1> QED BY <1>1, <1>2, <1>3 DEF World

LEMMA TypedStep == Typed /\ [Next]_vars => Typed'
  <1> SUFFICES ASSUME Typed, [Next]_vars PROVE Typed'
    OBVIOUS
  <1>1. ChainType'
    BY ChainTyped
  <1>2. CASE UNCHANGED vars
    BY <1>2 DEF vars, actorVars, monitorVars, oracleVars, chainVars,
                worldVars, Typed, TypeOK, Handlers
  <1>3. CASE Next
    BY <1>1, <1>3, TypedActor, TypedJob, TypedUser, TypedMonitor, TypedOracle,
       TypedCrash, TypedRestart, TypedWorld DEF Next
  <1> QED BY <1>2, <1>3

(* Every variable keeps its type in every reachable state: in particular  *)
(* Cfd::handle never leaves the variants of CfdState, whatever events the  *)
(* monitor and the oracle deliver, and a handler's job always fits its     *)
(* state.                                                                  *)
THEOREM TypeCorrect == Spec => []TypeOK
  <1>1. Typed => TypeOK
    BY DEF Typed
  <1> QED BY <1>1, TypedInit, TypedStep, PTL DEF Spec

-----------------------------------------------------------------------------
(* The database tells the truth about the chain.  RecordedOnChain is not   *)
(* inductive: a handler trusts the message it is given, so what is in the  *)
(* mailbox, found by the monitor or downloaded must be true as well, and a *)
(* handler that resumes after an await must have published what it records.*)

JustifiedMsgs ==
    {EventMsg(t) : t \in {u \in Targets : StatusReached(u)}}
    \cup {m \in {AttestationMsg} : attested}

Justified ==
    /\ \A t \in reached : StatusReached(t)
    /\ cfdMail \in Seq(JustifiedMsgs)
    /\ fetches > 0 => attested
    /\ job.step = "recordCommit" => Seen("commit")
    /\ job.step = "recordCet"    => Seen("cet")

Truth == Typed /\ ChainRules /\ Justified /\ RecordedOnChain

LEMMA AttestedStays ==
    ASSUME [Next]_vars, attested
    PROVE  attested'
  <1> USE DEF worldVars
  <1>1. CASE UNCHANGED vars
    BY <1>1 DEF vars
  <1>2. CASE CfdActorHandler
    BY <1>2 DEF CfdActorHandler, SetupCompleted, MonitoringEvent,
                OracleAttestation, HandleMail
  <1>3. CASE CfdActorJob
    BY <1>3 DEF CfdActorJob, PublishLock, RecordCommit, PublishCet, RecordCet,
                PublishRefund, PublishClose, RecordClose
  <1>4. CASE UserAndPeer
    BY <1>4 DEF UserAndPeer, SignLock, Commit, InitiateSettlement,
                SettlementAccepted, SettlementRejected, ProposeSettlement
  <1>5. CASE Monitor \/ Oracle
    BY <1>5 DEF Monitor, MonitorMessage, Sync, SendEvent, Oracle,
                FetchAttestation, NewAttestationFetched
  <1>6. CASE Crash \/ Restart
    BY <1>6 DEF Crash, Restart
  <1>7. CASE World
    BY <1>7 DEF World, Mine, Attest, CounterpartyPublishes
  <1> QED BY <1>1, <1>2, <1>3, <1>4, <1>5, <1>6, <1>7 DEF Next

LEMMA TargetEvents ==
    ASSUME NEW t \in Targets
    PROVE  \/ t.ev \in MonitorEvents \ {"CloseFinality"}
           \/ t.ev = "CloseFinality" /\ t.close \in Settlements
  BY DEF Targets, Target, CloseTarget

(* What was true of the chain stays true.                                  *)
LEMMA TruthStays ==
    ASSUME ChainType, ChainGrows, ChainType', attested => attested'
    PROVE  /\ \A t \in Targets : StatusReached(t) => StatusReached(t)'
           /\ \A s : TrueOfChain(s) => TrueOfChain(s)'
           /\ \A m \in Seq(JustifiedMsgs) : m \in Seq(JustifiedMsgs')
  <1>a. /\ age >= 1 => age' >= 1
        /\ age >= CetTimelock => age' >= CetTimelock
        /\ age >= RefundTimelock => age' >= RefundTimelock
    BY TimelockAssumption DEF ChainType, ChainGrows
  <1>b. /\ \A t \in {"commit", "cet"} : Seen(t) => Seen(t)'
        /\ \A t \in {"lock", "commit", "cet", "refund"} \cup Settlements :
              Confirmed(t) => Confirmed(t)'
    BY DEF ChainGrows, Txs
  <1>1. ASSUME NEW t \in Targets, StatusReached(t)
        PROVE  StatusReached(t)'
    <2>1. CASE t.ev = "CloseFinality"
      BY <1>1, <1>b, <2>1, TargetEvents DEF StatusReached
    <2>2. CASE t.ev \in MonitorEvents \ {"CloseFinality"}
      BY <1>1, <1>a, <1>b, <2>2 DEF StatusReached, MonitorEvents
    <2> QED BY <2>1, <2>2, TargetEvents
  <1>2. ASSUME NEW s, TrueOfChain(s)
        PROVE  TrueOfChain(s)'
    BY <1>2, <1>a, <1>b DEF TrueOfChain
  <1>3. JustifiedMsgs \subseteq JustifiedMsgs'
    BY <1>1 DEF JustifiedMsgs
  <1>4. \A m \in Seq(JustifiedMsgs) : m \in Seq(JustifiedMsgs')
    <2>1. \A S, T : S \subseteq T => \A m \in Seq(S) : m \in Seq(T)
      OBVIOUS
    <2> QED BY <1>3, <2>1
  <1> QED BY <1>1, <1>2, <1>4

(* A true event makes a true state of a true state.                        *)
LEMMA EventsTellTheTruth ==
    ASSUME ChainType, ChainRules, NEW s \in CfdStates, TrueOfChain(s),
           NEW t \in Targets, StatusReached(t),
           AfterMonitorEvent(s, t.ev) # Bail
    PROVE  TrueOfChain(AfterMonitorEvent(s, t.ev))
  <1> USE StateCases, TimelockAssumption, NoneAssumption
      DEF ChainType, TrueOfChain, StatusReached, AfterMonitorEvent
  <1>1. CASE t.ev = "LockFinality"
    BY <1>1 DEF AfterLockFinality, Open, Variant, NoCet
  <1>2. CASE t.ev = "CommitFinality"
    BY <1>2 DEF AfterCommitFinality, OpenCommitted, Variant, ChainRules
  <1>3. CASE t.ev = "CloseFinality"
    BY <1>3, TargetEvents
       DEF AfterCloseFinality, HasCollaborativeClose, ClosedCollaboratively,
           Variant, NoCet, MonitorEvents
  <1>4. CASE t.ev = "CetTimelockExpired"
    BY <1>4 DEF AfterCetTimelockExpired, OpenCommitted, Variant, ChainRules
  <1>5. CASE t.ev = "RefundTimelockExpired"
    BY <1>5 DEF AfterRefundTimelockExpired, PendingRefund, Variant, NoCet
  <1>6. CASE t.ev = "RefundFinality"
    BY <1>6 DEF AfterRefundFinality, Refunded, Variant, NoCet
  <1>7. CASE t.ev = "CetFinality"
    BY <1>7 DEF AfterCetFinality, HasAttestation, ClosedByCet, Variant, NoCet
  <1> QED BY <1>1, <1>2, <1>3, <1>4, <1>5, <1>6, <1>7, TargetEvents
          DEF MonitorEvents

LEMMA AttestationsTellTheTruth ==
    ASSUME NEW s \in CfdStates, TrueOfChain(s), attested,
           NEW a \in Attestations, AfterOracleAttestation(s, a) # Bail
    PROVE  TrueOfChain(AfterOracleAttestation(s, a))
  BY StateCases, NoneAssumption
  DEF TrueOfChain, AfterOracleAttestation, PendingOpen, Open, PendingCommit,
      OpenCommitted, Variant, NoCet, BareKinds, CleanupKinds

LEMMA BroadcastsTellTheTruth ==
    ASSUME NEW s \in CfdStates, TrueOfChain(s)
    PROVE  /\ Seen("commit") /\ AfterCommitTxSent(s) # Bail =>
                 TrueOfChain(AfterCommitTxSent(s))
           /\ Seen("cet") /\ AfterCetSent(s) # Bail =>
                 TrueOfChain(AfterCetSent(s))
           /\ \A c \in Settlements : s.kind = "Open" =>
                 TrueOfChain(AfterProposalSigned(s, c))
  <1> USE StateCases, NoneAssumption DEF TrueOfChain, Variant, NoCet
  <1>1. Seen("commit") /\ AfterCommitTxSent(s) # Bail =>
            TrueOfChain(AfterCommitTxSent(s))
    BY DEF AfterCommitTxSent, PendingCommit
  <1>2. Seen("cet") /\ AfterCetSent(s) # Bail => TrueOfChain(AfterCetSent(s))
    BY DEF AfterCetSent, PendingCet
  <1>3. ASSUME NEW c \in Settlements, s.kind = "Open"
        PROVE  TrueOfChain(AfterProposalSigned(s, c))
    BY <1>3 DEF AfterProposalSigned, Open
  <1> QED BY <1>1, <1>2, <1>3

LEMMA TruthInit == Init => Truth
  <1> SUFFICES ASSUME Init PROVE Truth
    OBVIOUS
  <1>1. Typed /\ ChainRules
    BY TypedInit, ChainRulesInit
  <1>2. Justified
    BY JobTypes DEF Init, Justified
  <1>3. RecordedOnChain
    BY DEF Init, RecordedOnChain, TrueOfChain, Bare, Variant, NoCet
  <1> QED BY <1>1, <1>2, <1>3 DEF Truth

(* What a step leaves alone stays justified.                               *)
LEMMA TruthKept ==
    ASSUME Truth, [Next]_vars
    PROVE  /\ Typed' /\ ChainRules'
           /\ db' = db => RecordedOnChain'
           /\ reached' \subseteq reached => \A t \in reached' : StatusReached(t)'
           /\ cfdMail \in Seq(JustifiedMsgs')
           /\ fetches > 0 => attested'
           /\ job' = job => /\ job'.step = "recordCommit" => Seen("commit")'
                            /\ job'.step = "recordCet" => Seen("cet")'
           /\ attested => attested'
  <1>1. ChainType /\ ChainStep /\ ChainType' /\ ChainGrows
    BY NextChainStep, ChainTyped
       DEF Truth, Typed, TypeOK, ChainType, Statuses
  <1>2. Typed' /\ ChainRules'
    BY <1>1, TypedStep, ChainRulesStep DEF Truth
  <1>3. attested => attested'
    BY AttestedStays
  <1>4. /\ \A t \in Targets : StatusReached(t) => StatusReached(t)'
        /\ \A s : TrueOfChain(s) => TrueOfChain(s)'
        /\ \A m \in Seq(JustifiedMsgs) : m \in Seq(JustifiedMsgs')
    BY <1>1, <1>3, TruthStays
  <1>5. ASSUME db' = db
        PROVE  RecordedOnChain'
    BY <1>4, <1>5 DEF Truth, RecordedOnChain, TrueOfChain
  <1>6. ASSUME reached' \subseteq reached
        PROVE  \A t \in reached' : StatusReached(t)'
    BY <1>4, <1>6 DEF Truth, Justified, Typed, TypeOK
  <1>7. ASSUME job' = job
        PROVE  /\ job'.step = "recordCommit" => Seen("commit")'
               /\ job'.step = "recordCet" => Seen("cet")'
    BY <1>1, <1>7 DEF Truth, Justified, ChainGrows, Txs
  <1> QED BY <1>2, <1>3, <1>4, <1>5, <1>6, <1>7 DEF Truth, Justified

(* The cases of a message handled, relative to its outcome.                *)
LEMMA TruthHandleMail ==
    ASSUME Truth, [Next]_vars, cfdMail # <<>>,
           NEW s \in Outcomes, Changed(s) => TrueOfChain(s), HandleMail(s)
    PROVE  Truth'
  <1> USE DEF HandleMail, oracleVars, chainVars, worldVars
  <1>1. cfdMail' \in Seq(JustifiedMsgs')
    BY TruthKept
  <1>2. job'.step \notin {"recordCommit", "recordCet"}
    BY JobTypes DEF Return
  <1>3. Justified'
    BY <1>1, <1>2, TruthKept DEF Justified
  <1>4. RecordedOnChain'
    BY TruthKept DEF RecordedOnChain, TrueOfChain, Seen, Confirmed
  <1> QED BY <1>3, <1>4, TruthKept DEF Truth

LEMMA TruthActor ==
    ASSUME Truth, [Next]_vars, CfdActorHandler
    PROVE  Truth'
  <1>1. CASE SetupCompleted
    <2>1. RecordedOnChain'
      BY <1>1 DEF SetupCompleted, RecordedOnChain, TrueOfChain, PendingOpen,
                  Bare, Variant, NoCet
    <2>2. job'.step \notin {"recordCommit", "recordCet"}
      BY <1>1, JobTypes DEF SetupCompleted, CanStart
    <2>3. Justified'
      BY <1>1, <2>2, TruthKept
         DEF SetupCompleted, Justified, monitorVars, oracleVars, chainVars,
             worldVars
    <2> QED BY <2>1, <2>3, TruthKept DEF Truth
  <1>2. CASE MonitoringEvent
    <2> DEFINE o == AfterMonitorEvent(db, Head(cfdMail).target.ev)
    <2>1. Head(cfdMail) \in JustifiedMsgs
      BY <1>2 DEF MonitoringEvent, Truth, Justified
    <2>2. PICK t \in Targets : StatusReached(t) /\ Head(cfdMail) = EventMsg(t)
      BY <1>2, <2>1 DEF MonitoringEvent, JustifiedMsgs, AttestationMsg
    <2>3. o \in Outcomes /\ Handle(db, o) \in Outcomes
      BY <2>2, AfterMonitorEventType, TargetEvents, HandleType
         DEF Truth, Typed, TypeOK, EventMsg, MonitorEvents
    <2>4. ASSUME Changed(Handle(db, o))
          PROVE  TrueOfChain(Handle(db, o))
      <3>1. Handle(db, o) = o /\ o # Bail /\ o = AfterMonitorEvent(db, t.ev)
        BY <2>2, <2>3, <2>4, HandleType
           DEF Truth, Typed, TypeOK, EventMsg, Changed
      <3> HIDE DEF o
      <3> QED BY <2>2, <3>1, EventsTellTheTruth
              DEF Truth, Typed, TypeOK, RecordedOnChain, ChainType, Statuses
    <2> QED BY <1>2, <2>3, <2>4, TruthHandleMail DEF MonitoringEvent
  <1>3. CASE OracleAttestation
    <2> DEFINE o == AfterOracleAttestation(db, Attestation)
               h == IF HasDlc(db) THEN Handle(db, o) ELSE Ignored
    <2>1. attested
      BY <1>3 DEF OracleAttestation, Truth, Justified, JustifiedMsgs, EventMsg
    <2>2. o \in Outcomes /\ Handle(db, o) \in Outcomes /\ h \in Outcomes
      BY AfterTypes, ContractTypes, HandleType
         DEF Truth, Typed, TypeOK, Outcomes
    <2>3. ASSUME Changed(h)
          PROVE  TrueOfChain(h)
      <3>1. h = o /\ o # Bail
        BY <2>2, <2>3, HandleType DEF Truth, Typed, TypeOK, Changed
      <3> QED BY <2>1, <3>1, AttestationsTellTheTruth, ContractTypes
              DEF Truth, Typed, TypeOK, RecordedOnChain
    <2> HIDE DEF o
    <2> QED BY <1>3, <2>2, <2>3, TruthHandleMail DEF OracleAttestation, o
  <1> QED BY <1>1, <1>2, <1>3 DEF CfdActorHandler

LEMMA TruthJob ==
    ASSUME Truth, [Next]_vars, CfdActorJob
    PROVE  Truth'
  <1> USE DEF monitorVars, oracleVars, chainVars, worldVars
  <1>1. CASE PublishLock \/ PublishRefund \/ PublishClose
    <2>1. job'.step = "idle" /\ UNCHANGED <<db, cfdMail, reached, fetches>>
      BY <1>1, JobTypes DEF PublishLock, PublishRefund, PublishClose, Return
    <2>2. Justified'
      BY <2>1, TruthKept DEF Justified
    <2> QED BY <2>1, <2>2, TruthKept DEF Truth
  <1>2. CASE PublishCet
    <2>1. /\ UNCHANGED <<db, cfdMail, reached, fetches>>
          /\ \/ job'.step = "idle"
             \/ job'.step = "recordCet" /\ BroadcastOk("cet")
      BY <1>2, JobTypes DEF PublishCet, Return
    <2>2. BroadcastOk("cet") => Seen("cet")'
      BY DEF BroadcastOk, Seen, Txs, Truth, Typed, TypeOK
    <2>3. Justified'
      BY <2>1, <2>2, TruthKept DEF Justified
    <2> QED BY <2>1, <2>3, TruthKept DEF Truth
  <1>3. CASE RecordCommit
    <2> DEFINE o == AfterCommitTxSent(db)
    <2>1. job'.step = "idle"
          /\ UNCHANGED <<cfdMail, reached, fetches, tx, age, attested>>
      BY <1>3, JobTypes DEF RecordCommit, Return
    <2>2. Seen("commit")
      BY <1>3, JobTypes DEF RecordCommit, Truth, Justified
    <2>3. db' = db \/ (db' = o /\ o # Bail)
      BY <1>3 DEF RecordCommit, Handle, Changed
    <2>4. db' = o /\ o # Bail => TrueOfChain(db')
      BY <2>2, BroadcastsTellTheTruth
         DEF Truth, Typed, TypeOK, RecordedOnChain
    <2>5. RecordedOnChain'
      BY <2>1, <2>3, <2>4, TruthKept
         DEF RecordedOnChain, TrueOfChain, Seen, Confirmed
    <2>6. Justified'
      BY <2>1, TruthKept DEF Justified
    <2> QED BY <2>5, <2>6, TruthKept DEF Truth
  <1>4. CASE RecordCet
    <2> DEFINE o == AfterCetSent(db)
    <2>1. job'.step = "idle"
          /\ UNCHANGED <<cfdMail, reached, fetches, tx, age, attested>>
      BY <1>4, JobTypes DEF RecordCet, Return
    <2>2. Seen("cet")
      BY <1>4, JobTypes DEF RecordCet, Truth, Justified
    <2>3. db' = db \/ (db' = o /\ o # Bail)
      BY <1>4 DEF RecordCet, Handle, Changed
    <2>4. db' = o /\ o # Bail => TrueOfChain(db')
      BY <2>2, BroadcastsTellTheTruth
         DEF Truth, Typed, TypeOK, RecordedOnChain
    <2>5. RecordedOnChain'
      BY <2>1, <2>3, <2>4, TruthKept
         DEF RecordedOnChain, TrueOfChain, Seen, Confirmed
    <2>6. Justified'
      BY <2>1, TruthKept DEF Justified
    <2> QED BY <2>5, <2>6, TruthKept DEF Truth
  <1>5. CASE RecordClose
    <2>1. job'.step = "idle"
          /\ UNCHANGED <<cfdMail, reached, fetches, tx, age, attested>>
      BY <1>5, JobTypes DEF RecordClose, Return
    <2>2. job.close \in Settlements /\ db.kind = "Open"
      BY <1>5, CloseJobs DEF RecordClose, Truth, Typed, TypeOK, Handlers
    <2>3. TrueOfChain(db')
      BY <1>5, <2>2, BroadcastsTellTheTruth
         DEF RecordClose, Truth, Typed, TypeOK, RecordedOnChain
    <2>4. RecordedOnChain'
      BY <2>1, <2>3 DEF RecordedOnChain, TrueOfChain, Seen, Confirmed
    <2>5. Justified'
      BY <2>1, TruthKept DEF Justified
    <2> QED BY <2>4, <2>5, TruthKept DEF Truth
  <1> QED BY <1>1, <1>2, <1>3, <1>4, <1>5 DEF CfdActorJob

LEMMA TruthUser ==
    ASSUME Truth, [Next]_vars, UserAndPeer
    PROVE  Truth'
  <1> USE DEF monitorVars, oracleVars, chainVars, worldVars, actorVars
  <1>1. CASE Commit
    <2>1. /\ UNCHANGED <<db, cfdMail, reached, fetches>>
          /\ job'.step = "recordCommit" /\ BroadcastOk("commit")
      BY <1>1, JobTypes DEF Commit
    <2>2. Seen("commit")'
      BY <2>1 DEF BroadcastOk, Seen, Txs, Truth, Typed, TypeOK
    <2>3. Justified'
      BY <2>1, <2>2, TruthKept DEF Justified
    <2> QED BY <2>1, <2>3, TruthKept DEF Truth
  <1>2. CASE InitiateSettlement
    <2>1. /\ UNCHANGED <<cfdMail, reached, fetches, tx, age, attested>>
          /\ proposal \in Settlements /\ db.kind = "Open"
      BY <1>2 DEF InitiateSettlement, Truth, Typed, TypeOK, Option
    <2>2. job'.step = "publishClose"
      BY <1>2, <2>1, JobTypes DEF InitiateSettlement
    <2>3. TrueOfChain(db')
      BY <1>2, <2>1, BroadcastsTellTheTruth
         DEF InitiateSettlement, Truth, Typed, TypeOK, RecordedOnChain
    <2>4. RecordedOnChain'
      BY <2>1, <2>3 DEF RecordedOnChain, TrueOfChain, Seen, Confirmed
    <2>5. Justified'
      BY <2>1, <2>2, TruthKept DEF Justified
    <2> QED BY <2>4, <2>5, TruthKept DEF Truth
  <1>3. CASE SettlementAccepted
    <2>1. /\ UNCHANGED <<db, cfdMail, reached, fetches>>
          /\ proposal \in Settlements
      BY <1>3 DEF SettlementAccepted, Truth, Typed, TypeOK, Option
    <2>2. job'.step = "recordClose"
      BY <1>3, <2>1, JobTypes DEF SettlementAccepted
    <2>3. Justified'
      BY <2>1, <2>2, TruthKept DEF Justified
    <2> QED BY <2>1, <2>3, TruthKept DEF Truth
  <1>4. CASE SignLock \/ SettlementRejected
             \/ \E c \in Settlements : ProposeSettlement(c)
    <2>1. UNCHANGED <<db, cfdMail, reached, fetches, job>>
      BY <1>4 DEF SignLock, SettlementRejected, ProposeSettlement
    <2>2. Justified'
      BY <2>1, TruthKept DEF Justified
    <2> QED BY <2>1, <2>2, TruthKept DEF Truth
  <1> QED BY <1>1, <1>2, <1>3, <1>4 DEF UserAndPeer

LEMMA TruthMonitor ==
    ASSUME Truth, [Next]_vars, Monitor
    PROVE  Truth'
  <1> USE DEF actorVars, oracleVars, chainVars, worldVars
  <1>1. CASE MonitorMessage
    <2>1. UNCHANGED <<db, cfdMail, reached, fetches, job>>
      BY <1>1 DEF MonitorMessage
    <2>2. Justified'
      BY <2>1, TruthKept DEF Justified
    <2> QED BY <2>1, <2>2, TruthKept DEF Truth
  <1>2. CASE Sync
    <2>1. UNCHANGED <<db, cfdMail, fetches, job, tx, age>>
      BY <1>2 DEF Sync
    <2>2. \A t \in reached' : StatusReached(t)'
      BY <1>2, <2>1 DEF Sync, StatusReached, Confirmed
    <2>3. Justified'
      BY <2>1, <2>2, TruthKept DEF Justified
    <2> QED BY <2>1, <2>3, TruthKept DEF Truth
  <1>3. ASSUME NEW t \in reached, SendEvent(t)
        PROVE  Truth'
    <2>1. /\ UNCHANGED <<db, fetches, job, tx, age, attested>>
          /\ reached' \subseteq reached
          /\ cfdMail' = Append(cfdMail, EventMsg(t))
      BY <1>3 DEF SendEvent
    <2>2. StatusReached(t)' /\ t \in Targets
      BY <2>1 DEF Truth, Justified, Typed, TypeOK, StatusReached, Confirmed
    <2>3. EventMsg(t) \in JustifiedMsgs'
      BY <2>2 DEF JustifiedMsgs, EventMsg, Target
    <2>4. cfdMail' \in Seq(JustifiedMsgs')
      <3>1. cfdMail \in Seq(JustifiedMsgs')
        BY TruthKept
      <3> QED BY <2>1, <2>3, <3>1
    <2>5. Justified'
      BY <2>1, <2>4, TruthKept DEF Justified
    <2> QED BY <2>1, <2>5, TruthKept DEF Truth
  <1> QED BY <1>1, <1>2, <1>3 DEF Monitor

LEMMA TruthOracle ==
    ASSUME Truth, [Next]_vars, Oracle
    PROVE  Truth'
  <1> USE DEF actorVars, monitorVars, chainVars, worldVars
  <1>1. CASE FetchAttestation
    <2>1. UNCHANGED <<db, cfdMail, reached, job>> /\ attested
      BY <1>1 DEF FetchAttestation
    <2>2. Justified'
      BY <2>1, TruthKept DEF Justified
    <2> QED BY <2>1, <2>2, TruthKept DEF Truth
  <1>2. CASE NewAttestationFetched
    <2>1. /\ UNCHANGED <<db, reached, job>> /\ attested'
          /\ cfdMail' = Append(cfdMail, AttestationMsg)
      BY <1>2, TruthKept DEF NewAttestationFetched, Truth, Justified
    <2>2. AttestationMsg \in JustifiedMsgs'
      BY <2>1 DEF JustifiedMsgs, AttestationMsg, Target
    <2>3. cfdMail' \in Seq(JustifiedMsgs')
      <3>1. cfdMail \in Seq(JustifiedMsgs')
        BY TruthKept
      <3> QED BY <2>1, <2>2, <3>1
    <2>4. Justified'
      BY <2>1, <2>3, TruthKept DEF Justified
    <2> QED BY <2>1, <2>4, TruthKept DEF Truth
  <1> QED BY <1>1, <1>2 DEF Oracle

LEMMA TruthCrash ==
    ASSUME Truth, [Next]_vars, Crash \/ Restart
    PROVE  Truth'
  <1>1. CASE Crash
    <2>1. /\ db' = db /\ cfdMail' = <<>> /\ reached' = {} /\ fetches' = 0
          /\ job' = Idle
      BY <1>1 DEF Crash
    <2>2. Justified'
      BY <2>1, JobTypes DEF Justified
    <2> QED BY <2>1, <2>2, TruthKept DEF Truth
  <1>2. CASE Restart
    <2>1. UNCHANGED <<cfdMail, reached, fetches, job>>
      BY <1>2 DEF Restart, actorVars
    <2>2. db' = db \/ db' = Bare("SetupFailed")
      BY <1>2 DEF Restart, CleanedUp
    <2>3. RecordedOnChain'
      BY <2>2, TruthKept
         DEF RecordedOnChain, TrueOfChain, Bare, Variant, NoCet
    <2>4. Justified'
      BY <2>1, TruthKept DEF Justified
    <2> QED BY <2>3, <2>4, TruthKept DEF Truth
  <1> QED BY <1>1, <1>2

LEMMA TruthWorld ==
    ASSUME Truth, [Next]_vars, World \/ UNCHANGED vars
    PROVE  Truth'
  <1>1. UNCHANGED <<db, cfdMail, reached, fetches, job>>
    BY DEF World, Mine, Attest, CounterpartyPublishes, actorVars, monitorVars,
           oracleVars, vars
  <1>2. Justified'
    BY <1>1, TruthKept DEF Justified
  <1> QED BY <1>1, <1>2, TruthKept DEF Truth

LEMMA TruthStep == Truth /\ [Next]_vars => Truth'
  BY TruthActor, TruthJob, TruthUser, TruthMonitor, TruthOracle, TruthCrash,
     TruthWorld DEF Next

LEMMA TruthInvariant == Spec => []Truth
  BY TruthInit, TruthStep, PTL DEF Spec

(* The database never claims of the chain what is not so, whatever events, *)
(* crashes, failed broadcasts and counterparty moves come before.          *)
THEOREM RecordsAreTrue == Spec => []RecordedOnChain
  <1>1. Truth => RecordedOnChain
    BY DEF Truth
  <1> QED BY <1>1, TruthInvariant, PTL

-----------------------------------------------------------------------------
(* What a step can do to the database: one lemma for all uses.             *)

(* db' is db, or the outcome of one event in a state where that event      *)
(* happens.                                                                *)
RecordStep ==
    \/ db' = db
    \/ /\ db = Bare("ContractSetup")
       /\ db' \in {PendingOpen(Dlc, None), Bare("SetupFailed")}
    \/ /\ db.kind \notin FinalKinds
       /\ \/ \E ev \in MonitorEvents :
                 db' = AfterMonitorEvent(db, ev) /\ db' # Bail
          \/ db' = AfterOracleAttestation(db, Attestation) /\ db' # Bail
          \/ db' = AfterCommitTxSent(db) /\ db' # Bail
          \/ db.cet = "Ready" /\ db' = AfterCetSent(db) /\ db' # Bail
          \/ /\ db.kind = "Open"
             /\ \E c \in Settlements : db' = AfterProposalSigned(db, c)
    \/ db.kind \in CleanupKinds /\ db' = Bare("SetupFailed")

LEMMA RecordSteps ==
    ASSUME Typed, [Next]_vars
    PROVE  RecordStep /\ (db' = db \/ tx' = tx)
  <1> USE DEF Typed, TypeOK, RecordStep, actorVars, monitorVars, oracleVars,
              chainVars, worldVars
  <1>1. CASE SetupCompleted
    BY <1>1 DEF SetupCompleted, Handlers
  <1>2. CASE MonitoringEvent
    <2>1. Head(cfdMail).target.ev \in MonitorEvents
      BY <1>2, MailTypes DEF MonitoringEvent
    <2>2. db' = db \/ /\ db' = AfterMonitorEvent(db, Head(cfdMail).target.ev)
                      /\ db.kind \notin FinalKinds /\ db' # Bail
      BY <1>2 DEF MonitoringEvent, HandleMail, Handle, Changed
    <2> QED BY <1>2, <2>1, <2>2 DEF MonitoringEvent, HandleMail
  <1>3. CASE OracleAttestation
    BY <1>3 DEF OracleAttestation, HandleMail, Handle, Changed
  <1>4. CASE RecordCommit
    BY <1>4 DEF RecordCommit, Handle, Changed
  <1>5. CASE RecordCet
    <2>1. db.cet = "Ready"
      BY <1>5, JobTypes DEF RecordCet, Handlers
    <2> QED BY <1>5, <2>1 DEF RecordCet, Handle, Changed
  <1>6. CASE RecordClose
    <2>1. job.close \in Settlements /\ db.kind = "Open"
      BY <1>6, CloseJobs DEF RecordClose, Handlers
    <2> QED BY <1>6, <2>1 DEF RecordClose, FinalKinds
  <1>7. CASE InitiateSettlement
    BY <1>7 DEF InitiateSettlement, Option, FinalKinds
  <1>8. CASE Restart
    <2>1. db' = db \/ (db.kind \in CleanupKinds /\ db' = Bare("SetupFailed"))
      BY <1>8 DEF Restart, CleanedUp
    <2>2. db.kind \in CleanupKinds => tx' = tx
      BY <1>8 DEF Restart, Rebroadcasts, CleanupKinds
    <2> QED BY <2>1, <2>2
  <1>9. CASE PublishLock \/ PublishCet \/ PublishRefund \/ PublishClose
    BY <1>9 DEF PublishLock, PublishCet, PublishRefund, PublishClose
  <1>10. CASE SignLock \/ Commit \/ SettlementAccepted \/ SettlementRejected
              \/ \E c \in Settlements : ProposeSettlement(c)
    BY <1>10 DEF SignLock, Commit, SettlementAccepted, SettlementRejected,
                 ProposeSettlement
  <1>11. CASE Monitor \/ Oracle \/ Crash
    BY <1>11 DEF Monitor, MonitorMessage, Sync, SendEvent, Oracle,
                 FetchAttestation, NewAttestationFetched, Crash
  <1>12. CASE World \/ UNCHANGED vars
    BY <1>12 DEF World, Mine, Attest, CounterpartyPublishes, vars
  <1> QED BY <1>1, <1>2, <1>3, <1>4, <1>5, <1>6, <1>7, <1>8, <1>9, <1>10,
             <1>11, <1>12
          DEF Next, CfdActorHandler, CfdActorJob, UserAndPeer

(* No event, late or repeated, and no restart moves a CFD out of a final   *)
(* state.                                                                  *)
THEOREM FinalIsFinal == Spec => FinalStatesAreFinal
  <1>1. Typed /\ [Next]_vars => [db.kind \in FinalKinds => db' = db]_db
    <2> SUFFICES ASSUME Typed, [Next]_vars, db.kind \in FinalKinds
                 PROVE  db' = db
      OBVIOUS
    <2> QED BY RecordSteps
            DEF RecordStep, Bare, Variant, FinalKinds, CleanupKinds
  <1> QED BY <1>1, TypedInit, TypedStep, PTL DEF Spec, FinalStatesAreFinal

-----------------------------------------------------------------------------
(* The daemon implements CfdLifecycle.                                     *)

(* A report moves forward or stays.                                        *)
Moves(s, o) ==
    \/ StageOf(o) = StageOf(s)
    \/ StageOf(o) \in Lifecycle!Forward[StageOf(s)]

LEMMA StagesMove ==
    ASSUME Typed, RecordStep
    PROVE  Moves(db, db')
  <1> USE DEF Typed, TypeOK, Moves
  <1>1. CASE db' = db
    BY <1>1
  <1>2. CASE db = Bare("ContractSetup")
             /\ db' \in {PendingOpen(Dlc, None), Bare("SetupFailed")}
    BY <1>2 DEF StageOf, PendingOpen, Bare, Variant, CleanupKinds,
                Lifecycle!Forward
  <1>3. ASSUME NEW ev \in MonitorEvents, db.kind \notin FinalKinds,
               db' = AfterMonitorEvent(db, ev), db' # Bail
        PROVE  Moves(db, db')
    <2> USE <1>3, StateCases
        DEF StageOf, Variant, AfterMonitorEvent, Lifecycle!Forward,
            FinalKinds, CleanupKinds, BareKinds
    <2>1. CASE ev = "LockFinality"
      BY <2>1 DEF AfterLockFinality, Open
    <2>2. CASE ev = "CommitFinality"
      BY <2>2 DEF AfterCommitFinality, OpenCommitted
    <2>3. CASE ev = "CloseFinality"
      BY <2>3 DEF AfterCloseFinality, HasCollaborativeClose,
                  ClosedCollaboratively
    <2>4. CASE ev = "CetTimelockExpired"
      BY <2>4 DEF AfterCetTimelockExpired, OpenCommitted
    <2>5. CASE ev = "RefundTimelockExpired"
      BY <2>5 DEF AfterRefundTimelockExpired, PendingRefund
    <2>6. CASE ev = "RefundFinality"
      BY <2>6 DEF AfterRefundFinality, HasDlc, Refunded
    <2>7. CASE ev = "CetFinality"
      BY <2>7 DEF AfterCetFinality, HasAttestation, ClosedByCet
    <2> QED BY <2>1, <2>2, <2>3, <2>4, <2>5, <2>6, <2>7 DEF MonitorEvents
  <1>4. CASE db' = AfterOracleAttestation(db, Attestation) /\ db' # Bail
    BY <1>4, StateCases
       DEF StageOf, AfterOracleAttestation, PendingOpen, Open, PendingCommit,
           OpenCommitted, Variant, BareKinds, CleanupKinds, NoCet
  <1>5. CASE db' = AfterCommitTxSent(db) /\ db' # Bail
    BY <1>5 DEF StageOf, AfterCommitTxSent, PendingCommit, Variant,
                Lifecycle!Forward, CleanupKinds
  <1>6. CASE db.cet = "Ready" /\ db' = AfterCetSent(db) /\ db' # Bail
    BY <1>6, StateCases
       DEF StageOf, AfterCetSent, PendingCet, Variant, Lifecycle!Forward,
           NoCet, CleanupKinds
  <1>7. CASE /\ db.kind = "Open"
             /\ \E c \in Settlements : db' = AfterProposalSigned(db, c)
    BY <1>7 DEF StageOf, AfterProposalSigned, Open, Variant, CleanupKinds
  <1>8. CASE db.kind \in CleanupKinds /\ db' = Bare("SetupFailed")
    BY <1>8 DEF StageOf, Bare, Variant, Lifecycle!Forward, CleanupKinds
  <1> QED BY <1>1, <1>2, <1>3, <1>4, <1>5, <1>6, <1>7, <1>8 DEF RecordStep

(* A final report is made of the state of that name only.                  *)
LEMMA FinalStages ==
    ASSUME NEW s \in CfdStates
    PROVE  /\ StageOf(s) = "closed" => s.kind = "Closed"
           /\ StageOf(s) = "refunded" => s.kind = "Refunded"
  <1>1. s.kind \in BareKinds \cup {"PendingOpen", "Open", "PendingCommit",
                "OpenCommitted", "PendingCet", "Closed", "PendingRefund",
                "Refunded"}
    BY StateCases
  <1>2. CASE s.kind \in BareKinds
    BY <1>2 DEF StageOf, BareKinds, CleanupKinds
  <1>3. CASE s.kind \in {"PendingOpen", "Open", "PendingCommit",
                "OpenCommitted", "PendingCet", "PendingRefund"}
    BY <1>3 DEF StageOf, CleanupKinds
  <1>4. CASE s.kind \in {"Closed", "Refunded"}
    BY <1>4 DEF StageOf, CleanupKinds
  <1> QED BY <1>1, <1>2, <1>3, <1>4

(* How the chain paid out, and that it does so once.                       *)
OutcomeByTx ==
    /\ Confirmed("cet") => OutcomeOnChain = "cet"
    /\ Confirmed("refund") => OutcomeOnChain = "refund"
    /\ (\E c \in Settlements : Confirmed(c)) => OutcomeOnChain = "close"
    /\ OutcomeOnChain \in Lifecycle!Outcomes

LEMMA OutcomeCases == ChainType /\ ChainRules => OutcomeByTx
  <1> SUFFICES ASSUME ChainType, ChainRules PROVE OutcomeByTx
    OBVIOUS
  <1>1. \A t \in Txs : Confirmed(t) => Seen(t)
    BY DEF Confirmed, Seen
  <1>2. Confirmed("cet") => ~Confirmed("refund")
    BY <1>1 DEF ChainRules, Txs
  <1>3. ASSUME NEW c \in Settlements, Confirmed(c)
        PROVE  ~Confirmed("cet") /\ ~Confirmed("refund")
    BY <1>1, <1>3 DEF ChainRules, Txs
  <1> QED BY <1>2, <1>3 DEF OutcomeByTx, OutcomeOnChain, Lifecycle!Outcomes

LEMMA PaidOutOnce ==
    ASSUME ChainType, ChainRules, ChainType', ChainRules', ChainGrows
    PROVE  OutcomeOnChain' = OutcomeOnChain \/ OutcomeOnChain = "none"
  <1>1. OutcomeByTx'
    BY OutcomeCases, PTL
  <1>2. \A t \in {"cet", "refund"} \cup Settlements :
            Confirmed(t) => Confirmed(t)'
    BY DEF ChainGrows, Txs
  <1>3. CASE Confirmed("cet")
    BY <1>1, <1>2, <1>3 DEF OutcomeByTx, OutcomeOnChain
  <1>4. CASE Confirmed("refund")
    BY <1>1, <1>2, <1>4, OutcomeCases DEF OutcomeByTx
  <1>5. CASE \E c \in Settlements : Confirmed(c)
    <2>1. PICK c \in Settlements : Confirmed(c)
      BY <1>5
    <2>2. \E d \in Settlements : Confirmed(d)'
      BY <1>2, <2>1
    <2>3. OutcomeOnChain' = "close"
      BY <1>1, <2>2 DEF OutcomeByTx
    <2>4. OutcomeOnChain = "close"
      BY <1>5, OutcomeCases DEF OutcomeByTx
    <2> QED BY <2>3, <2>4
  <1> QED BY <1>3, <1>4, <1>5 DEF OutcomeOnChain

(* Every step of the daemon and its world is a report, a payout or nothing.*)
LEMMA LifecycleStep ==
    ASSUME Truth, Truth', [Next]_vars
    PROVE  [Lifecycle!LifecycleNext]_(Lifecycle!lifecycleVars)
  <1> USE DEF Lifecycle!LifecycleNext, Lifecycle!lifecycleVars
  <1>1. ChainType /\ ChainType' /\ ChainGrows
    BY ChainTyped DEF Truth, Typed, TypeOK, ChainType, Statuses
  <1>2. CASE db' = db
    <2>1. StageOf(db)' = StageOf(db)
      BY <1>2 DEF StageOf
    <2>2. OutcomeOnChain' = OutcomeOnChain \/ OutcomeOnChain = "none"
      BY <1>1, PaidOutOnce DEF Truth
    <2>3. OutcomeOnChain' \in Lifecycle!Outcomes
      <3>1. ChainRules'
        BY DEF Truth
      <3>2. OutcomeByTx'
        BY <1>1, <3>1, OutcomeCases, PTL
      <3> QED BY <3>2 DEF OutcomeByTx
    <2> QED BY <2>1, <2>2, <2>3 DEF Lifecycle!PayOut
  <1>3. CASE db' # db
    <2>1. tx' = tx /\ Moves(db, db')
      BY <1>3, RecordSteps, StagesMove DEF Truth
    <2>2. OutcomeOnChain' = OutcomeOnChain
      BY <2>1 DEF OutcomeOnChain, Confirmed
    <2>3. StageOf(db') = "closed" => OutcomeOnChain \in {"close", "cet"}
      <3>1. StageOf(db') = "closed" => db'.kind = "Closed"
        BY FinalStages DEF Truth, Typed, TypeOK
      <3>2. db'.kind = "Closed" =>
                Confirmed("cet") \/ \E c \in Settlements : Confirmed(c)
        BY <2>1 DEF Truth, RecordedOnChain, TrueOfChain, Confirmed
      <3> QED BY <1>1, <3>1, <3>2, OutcomeCases DEF Truth, OutcomeByTx
    <2>4. StageOf(db') = "refunded" => OutcomeOnChain = "refund"
      <3>1. StageOf(db') = "refunded" => db'.kind = "Refunded"
        BY FinalStages DEF Truth, Typed, TypeOK
      <3>2. db'.kind = "Refunded" => Confirmed("refund")
        BY <2>1 DEF Truth, RecordedOnChain, TrueOfChain, Confirmed
      <3> QED BY <1>1, <3>1, <3>2, OutcomeCases DEF Truth, OutcomeByTx
    <2>5. StageOf(db') \in Lifecycle!Stages
      BY StateCases
         DEF Truth, Typed, TypeOK, StageOf, Lifecycle!Stages, BareKinds
    <2> QED BY <2>1, <2>2, <2>3, <2>4, <2>5 DEF Moves, Lifecycle!Report
  <1> QED BY <1>2, <1>3

(* The daemon implements the abstract life cycle: its records only move    *)
(* forward, the money is paid out once, and a record of a payout follows   *)
(* that payout.                                                            *)
THEOREM ImplementsLifecycle == Spec => LifecycleRefined
  <1>1. Init => Lifecycle!LifecycleInit
    BY DEF Init, Lifecycle!LifecycleInit, StageOf, Bare, Variant,
           CleanupKinds, OutcomeOnChain, Confirmed, Txs
  <1> QED BY <1>1, TruthInvariant, LifecycleStep, PTL
          DEF Spec, LifecycleRefined, Lifecycle!LifecycleSpec

-----------------------------------------------------------------------------
(* No state of a watched CFD waits for an event nobody will report.        *)
(* EventsCovered alone is not inductive: that the refund's time lock       *)
(* cannot be reported to a CFD in PendingCommit, which would drop it, and  *)
(* that an attestation recorded later finds its CET monitored, depend on   *)
(* the order in which the two mailboxes hold what they hold.               *)

Holds(mail, m) == \E i \in DOMAIN mail : mail[i] = m

(* No two of the messages in S.                                            *)
AtMostOne(mail, S) == \A i, j \in DOMAIN mail : mail[i] \in S /\ mail[j] \in S => i = j

EventMsgs == {EventMsg(t) : t \in Targets}

Queued(m) == Holds(cfdMail, m)
Sent(m)   == Holds(monMail, m)

PublishingLock == job = Job("publishLock")

CommitFinality       == Target("CommitFinality")
RefundTimelockPassed == Target("RefundTimelockExpired")
CetFinality          == Target("CetFinality")

(* A process that is down has lost what was under way.                     *)
Down == ~up => cfdMail = <<>> /\ monMail = <<>> /\ reached = {} /\ ~blocked

(* The monitor sends one event at a time and waits for its answer.         *)
OneEvent ==
    /\ AtMostOne(cfdMail, EventMsgs)
    /\ \A t \in Targets : Queued(EventMsg(t)) => blocked

(* Monitoring is started once, after the set-up.                           *)
StartsOnce ==
    /\ setup \/ PublishingLock => ~watching /\ ~Sent(StartMonitoring)
    /\ PublishingLock => ~setup
    /\ Sent(StartMonitoring) => ~watching
    /\ AtMostOne(monMail, {StartMonitoring})

(* Before it is, nothing is monitored and no close is agreed; a close is   *)
(* published while it is the one in the database.                          *)
Unwatched ==
    /\ up /\ ~watching =>
          /\ awaiting = {} /\ reached = {}
          /\ \A t \in Targets : ~Queued(EventMsg(t))
          /\ db.kind # "Open"
          /\ \A c \in Settlements : ~Sent(MonitorClose(c))
    /\ job.step = "publishClose" => db.kind = "Open" /\ db.cc = job.close

(* The refund's time lock is never reported before the commit tx.          *)
InOrder ==
    /\ Undelivered(RefundTimelockPassed) => CommitFinality \notin awaiting
    /\ Queued(EventMsg(RefundTimelockPassed)) => CommitFinality \notin reached

(* The targets that can still move state s.                                *)
NeededTargets(s) ==
    CASE s.kind = "PendingOpen" -> MonitorAll
      [] s.kind \in {"Open", "PendingCommit"} ->
            MonitorAll \ {Target("LockFinality")}
      [] s.cet \in {"Unprepared", "OracleSigned"} ->
            RefundTargets \cup {Target("CetTimelockExpired")}
      [] s.cet \in {"TimelockExpired", "Ready"} -> RefundTargets
      [] OTHER -> {}

StateFollowed == up /\ Watched => \A t \in NeededTargets(db) : Covered(t)

(* The attestation will reach a monitor that watches the CFD by then.      *)
OnItsWayToMonitor ==
    \/ pending \/ fetches > 0
    \/ \E j \in DOMAIN monMail :
          /\ monMail[j] = NewAttestation
          /\ \/ watching
             \/ \E k \in DOMAIN monMail : k < j /\ monMail[k] = StartMonitoring

CetFollowed == OnItsWayToMonitor \/ CetFinality \in awaiting \cup reached

(* The CET of a recorded attestation is followed, and that of one in the   *)
(* mailbox as well, by something that comes later.                         *)
AttestationFollowed ==
    up /\ Watched /\ HasDlc(db) =>
    /\ db.att # None => CetFollowed \/ Queued(EventMsg(CetFinality))
    /\ \A i \in DOMAIN cfdMail : cfdMail[i] = AttestationMsg =>
          \/ CetFollowed
          \/ \E j \in DOMAIN cfdMail : j > i /\ cfdMail[j] = EventMsg(CetFinality)

FollowedClose(c) ==
    \/ Covered(CloseTarget(c)) \/ job = JobOf("publishClose", c)
    \/ Sent(MonitorClose(c))

(* The agreed close is followed once it is on the chain; the taker's is    *)
(* from the moment it is recorded, for the maker may publish it.           *)
CloseFollowed ==
    /\ Role = "maker" => released = {}
    /\ job.step = "publishClose" => Role = "maker"
    /\ \A c \in Settlements :
          /\ up /\ db.kind = "Open" /\ db.cc = c /\ failures = 0
          /\ Seen(c) \/ Role = "taker"
          => FollowedClose(c)

Followed ==
    /\ Down /\ OneEvent /\ StartsOnce /\ Unwatched /\ InOrder
    /\ StateFollowed /\ AttestationFollowed /\ CloseFollowed

(* Mailboxes.                                                              *)
LEMMA AppendHas ==
    ASSUME NEW S, NEW q \in Seq(S), NEW m \in S, NEW r, r = Append(q, m)
    PROVE  /\ \A i \in DOMAIN q : i \in DOMAIN r /\ r[i] = q[i]
           /\ Len(q) + 1 \in DOMAIN r /\ r[Len(q) + 1] = m
           /\ \A i \in DOMAIN q : i < Len(q) + 1
           /\ \A i \in DOMAIN r : \/ i \in DOMAIN q /\ r[i] = q[i]
                                  \/ i = Len(q) + 1 /\ r[i] = m
  OBVIOUS

LEMMA TailHas ==
    ASSUME NEW S, NEW q \in Seq(S), q # <<>>, NEW r, r = Tail(q)
    PROVE  /\ 1 \in DOMAIN q /\ q[1] = Head(q) /\ Head(q) \in S
           /\ \A i \in DOMAIN q : i = 1 \/ (i - 1 \in DOMAIN r /\ r[i - 1] = q[i])
           /\ \A i \in DOMAIN r : i + 1 \in DOMAIN q /\ r[i] = q[i + 1]
           /\ \A i \in DOMAIN q : i \in Nat
           /\ \A i \in DOMAIN r : i \in Nat
  OBVIOUS

LEMMA AppendKeeps ==
    ASSUME NEW S, NEW q \in Seq(S), NEW m \in S, NEW x
    PROVE  Holds(Append(q, m), x) <=> x = m \/ Holds(q, x)
  <1> DEFINE r == Append(q, m)
  <1>1. /\ \A i \in DOMAIN q : i \in DOMAIN r /\ r[i] = q[i]
        /\ Len(q) + 1 \in DOMAIN r /\ r[Len(q) + 1] = m
        /\ \A i \in DOMAIN r : \/ i \in DOMAIN q /\ r[i] = q[i]
                               \/ i = Len(q) + 1 /\ r[i] = m
    BY AppendHas
  <1> HIDE DEF r
  <1>2. Holds(r, x) <=> x = m \/ Holds(q, x)
    BY <1>1 DEF Holds
  <1> QED BY <1>2 DEF r

LEMMA TailKeeps ==
    ASSUME NEW S, NEW q \in Seq(S), q # <<>>, NEW x
    PROVE  Holds(q, x) <=> x = Head(q) \/ Holds(Tail(q), x)
  <1>1. ASSUME NEW i \in DOMAIN q, q[i] = x
        PROVE  x = Head(q) \/ Holds(Tail(q), x)
    <2>1. i = 1 \/ (i - 1 \in DOMAIN Tail(q) /\ Tail(q)[i - 1] = q[i])
      BY TailHas
    <2>2. q[1] = Head(q)
      BY TailHas
    <2> QED BY <1>1, <2>1, <2>2 DEF Holds
  <1>2. ASSUME NEW j \in DOMAIN Tail(q), Tail(q)[j] = x
        PROVE  Holds(q, x)
    <2>1. j + 1 \in DOMAIN q /\ q[j + 1] = x
      BY <1>2, TailHas
    <2> QED BY <2>1 DEF Holds
  <1>3. x = Head(q) => Holds(q, x)
    BY TailHas DEF Holds
  <1> QED BY <1>1, <1>2, <1>3 DEF Holds

LEMMA AtMostOneAppend ==
    ASSUME NEW T, NEW q \in Seq(T), NEW m \in T, NEW S, AtMostOne(q, S),
           m \in S => \A x \in S : ~Holds(q, x)
    PROVE  AtMostOne(Append(q, m), S)
  <1> DEFINE r == Append(q, m)
  <1>1. \A i \in DOMAIN r : \/ i \in DOMAIN q /\ r[i] = q[i]
                            \/ i = Len(q) + 1 /\ r[i] = m
    BY AppendHas
  <1> HIDE DEF r
  <1>2. AtMostOne(r, S)
    BY <1>1 DEF AtMostOne, Holds
  <1> QED BY <1>2 DEF r

LEMMA AtMostOneTail ==
    ASSUME NEW T, NEW q \in Seq(T), q # <<>>, NEW S, AtMostOne(q, S)
    PROVE  /\ AtMostOne(Tail(q), S)
           /\ Head(q) \in S => \A x \in S : ~Holds(Tail(q), x)
  <1> DEFINE r == Tail(q)
  <1>1. /\ 1 \in DOMAIN q /\ q[1] = Head(q)
        /\ \A i \in DOMAIN r : i + 1 \in DOMAIN q /\ r[i] = q[i + 1]
        /\ \A i \in DOMAIN r : i \in Nat /\ i >= 1
    BY TailHas
  <1> HIDE DEF r
  <1>2. AtMostOne(r, S)
    <2> SUFFICES ASSUME NEW i \in DOMAIN r, NEW j \in DOMAIN r, r[i] \in S, r[j] \in S
                 PROVE  i = j
      BY DEF AtMostOne
    <2>1. i + 1 = j + 1
      BY <1>1 DEF AtMostOne
    <2> QED BY <1>1, <2>1
  <1>3. ASSUME Head(q) \in S, NEW x \in S, Holds(r, x)
        PROVE  FALSE
    <2>1. PICK i \in DOMAIN r : r[i] = x
      BY <1>3 DEF Holds
    <2>2. i + 1 = 1
      BY <1>1, <1>3, <2>1 DEF AtMostOne
    <2> QED BY <1>1, <2>1, <2>2
  <1> QED BY <1>2, <1>3 DEF r

LEMMA QueuedAppend ==
    ASSUME Typed, NEW m \in CfdMsgs, cfdMail' = Append(cfdMail, m), NEW x
    PROVE  Queued(x)' <=> x = m \/ Queued(x)
  BY AppendKeeps DEF Queued, Typed, TypeOK

LEMMA QueuedTail ==
    ASSUME Typed, cfdMail # <<>>, cfdMail' = Tail(cfdMail), NEW x
    PROVE  Queued(x) <=> x = Head(cfdMail) \/ Queued(x)'
  BY TailKeeps DEF Queued, Typed, TypeOK

LEMMA SentAppend ==
    ASSUME Typed, NEW m \in MonMsgs, monMail' = Append(monMail, m), NEW x
    PROVE  Sent(x)' <=> x = m \/ Sent(x)
  BY AppendKeeps DEF Sent, Typed, TypeOK

LEMMA SentTail ==
    ASSUME Typed, monMail # <<>>, monMail' = Tail(monMail), NEW x
    PROVE  Sent(x) <=> x = Head(monMail) \/ Sent(x)'
  BY TailKeeps DEF Sent, Typed, TypeOK

(* What tells the messages, the targets and the jobs apart.                *)
LEMMA Distinct ==
    /\ \A t, u : EventMsg(t) = EventMsg(u) => t = u
    /\ \A t : EventMsg(t).type = "Event" /\ EventMsg(t).target = t /\ EventMsg(t) # AttestationMsg
    /\ AttestationMsg.type = "Attestation"
    /\ StartMonitoring # NewAttestation
    /\ StartMonitoring.type = "StartMonitoring"
    /\ NewAttestation.type = "Attestation"
    /\ \A c : /\ MonitorClose(c) \notin {StartMonitoring, NewAttestation}
              /\ MonitorClose(c).type = "CollaborativeSettlement"
              /\ MonitorClose(c).close = c
    /\ \A c, d : MonitorClose(c) = MonitorClose(d) => c = d
    /\ \A c : CloseTarget(c) \notin MonitorAll
    /\ \A c, d : CloseTarget(c) = CloseTarget(d) => c = d
    /\ \A st, c, d : JobOf(st, c) = JobOf(st, d) => c = d
  <1>1. \A t, u : EventMsg(t) = EventMsg(u) => t = u
    BY DEF EventMsg
  <1>2. \A t : EventMsg(t).type = "Event" /\ EventMsg(t).target = t /\ EventMsg(t) # AttestationMsg
    BY DEF EventMsg, AttestationMsg
  <1>3. AttestationMsg.type = "Attestation"
    BY DEF AttestationMsg
  <1>4. /\ StartMonitoring # NewAttestation
        /\ StartMonitoring.type = "StartMonitoring"
        /\ NewAttestation.type = "Attestation"
    BY DEF StartMonitoring, NewAttestation
  <1>5. \A c : /\ MonitorClose(c) \notin {StartMonitoring, NewAttestation}
               /\ MonitorClose(c).type = "CollaborativeSettlement"
               /\ MonitorClose(c).close = c
    BY DEF StartMonitoring, NewAttestation, MonitorClose
  <1>6. \A c, d : CloseTarget(c) = CloseTarget(d) => c = d
    BY DEF CloseTarget
  <1>7. \A c : CloseTarget(c) \notin MonitorAll
    BY DEF CloseTarget, MonitorAll, Target, TimelockTargets, RefundTargets
  <1>8. \A st, c, d : JobOf(st, c) = JobOf(st, d) => c = d
    BY DEF JobOf
  <1> QED BY <1>1, <1>2, <1>3, <1>4, <1>5, <1>6, <1>7, <1>8

LEMMA EventsQueued ==
    ASSUME NEW mail, NEW t, Holds(mail, EventMsg(t))
    PROVE  EventQueued(mail)
  BY Distinct DEF Holds, EventQueued

LEMMA FollowedInit == Init => Followed
  <1> SUFFICES ASSUME Init PROVE Followed
    OBVIOUS
  <1> USE DEF Init
  <1>1. Idle # Job("publishLock") /\ Idle.step = "idle"
    BY DEF Idle, Job
  <1>2. ~Watched /\ ~HasDlc(db) /\ db.kind # "Open"
    BY DEF Watched, HasDlc, Bare, Variant
  <1>3. Down /\ OneEvent /\ StartsOnce
    BY <1>1 DEF Down, OneEvent, StartsOnce, PublishingLock, Queued, Sent, Holds, AtMostOne
  <1>4. Unwatched /\ InOrder
    BY <1>1, <1>2 DEF Unwatched, InOrder, Sent, Undelivered, Queued, Holds
  <1>5. StateFollowed /\ AttestationFollowed /\ CloseFollowed
    BY <1>1, <1>2 DEF StateFollowed, AttestationFollowed, CloseFollowed
  <1> QED BY <1>3, <1>4, <1>5 DEF Followed

(* A step that leaves alone what is followed and what follows it.          *)
Rests ==
    /\ UNCHANGED <<db, cfdMail, watching, awaiting, reached, monMail, up>>
    /\ pending' = pending /\ fetches' >= fetches
    /\ \A t \in Targets : Queued(EventMsg(t)) /\ blocked => blocked'
    /\ ~up => blocked' = blocked
    /\ setup' = setup
    /\ PublishingLock' => PublishingLock
    /\ job'.step = "publishClose" => job' = job

LEMMA RestSteps ==
    ASSUME Typed, up \/ job = Idle,
           \/ SignLock \/ Commit \/ PublishCet \/ PublishRefund
           \/ SettlementAccepted \/ SettlementRejected
           \/ \E c \in Settlements : ProposeSettlement(c)
           \/ FetchAttestation \/ World \/ UNCHANGED vars
           \/ PublishLock /\ monMail' = monMail
           \/ PublishClose /\ monMail' = monMail
    PROVE  Rests
  <1> USE DEF Rests, PublishingLock, actorVars, monitorVars, oracleVars, worldVars, Typed, TypeOK
  <1>j. /\ Idle # Job("publishLock") /\ Idle.step = "idle"
        /\ \A st \in {"recordCommit", "recordCet"} :
              Job(st) # Job("publishLock") /\ Job(st).step = st
        /\ \A c \in Settlements :
              JobOf("recordClose", c) # Job("publishLock") /\ JobOf("recordClose", c).step = "recordClose"
    BY DEF Idle, Job, JobOf
  <1>f. /\ fetches \in Nat /\ fetches >= fetches
        /\ \A t : Queued(EventMsg(t)) => EventQueued(cfdMail)
    BY BoundAssumption, EventsQueued DEF Queued
  <1>1. CASE SignLock
    BY <1>1, <1>f DEF SignLock
  <1>2. CASE Commit
    BY <1>2, <1>f, <1>j DEF Commit
  <1>3. CASE PublishCet
    <2>1. blocked' = blocked \/ blocked' = EventQueued(cfdMail)
      BY <1>3 DEF PublishCet, Return
    <2>2. job' = Idle \/ job' = Job("recordCet")
      BY <1>3 DEF PublishCet, Return
    <2>3. PublishingLock' = (job' = Job("publishLock"))
      OBVIOUS
    <2> QED BY <1>3, <1>f, <1>j, <2>1, <2>2, <2>3 DEF PublishCet
  <1>4. CASE PublishRefund
    BY <1>4, <1>f, <1>j DEF PublishRefund, Return
  <1>5. CASE SettlementAccepted
    BY <1>5, <1>f, <1>j DEF SettlementAccepted, Option
  <1>6. CASE SettlementRejected \/ \E c \in Settlements : ProposeSettlement(c)
    BY <1>6, <1>f DEF SettlementRejected, ProposeSettlement
  <1>7. CASE FetchAttestation
    BY <1>7, <1>f DEF FetchAttestation
  <1>8. CASE World
    BY <1>8, <1>f DEF World, Mine, Attest, CounterpartyPublishes
  <1>9. CASE UNCHANGED vars
    BY <1>9, <1>f DEF vars
  <1>10. CASE PublishLock /\ monMail' = monMail
    <2>1. Append(monMail, StartMonitoring) # monMail
      OBVIOUS
    <2>2. pending' = pending
      BY <1>10, <2>1 DEF PublishLock
    <2> QED BY <1>10, <1>f, <1>j, <2>2 DEF PublishLock, Return
  <1>11. CASE PublishClose /\ monMail' = monMail
    BY <1>11, <1>f, <1>j DEF PublishClose, Return
  <1> QED BY <1>1, <1>2, <1>3, <1>4, <1>5, <1>6, <1>7, <1>8, <1>9, <1>10, <1>11

(* The steps that do not rest.                                             *)
Follows ==
    \/ CfdActorHandler \/ RecordCommit \/ RecordCet \/ RecordClose
    \/ InitiateSettlement \/ Monitor \/ NewAttestationFetched \/ Crash \/ Restart
    \/ PublishLock /\ monMail' = Append(monMail, StartMonitoring)
    \/ PublishClose /\ monMail' = Append(monMail, MonitorClose(job.close))

LEMMA RestsOrFollows ==
    ASSUME Typed, [Next]_vars
    PROVE  Rests \/ Follows
  <1>1. up \/ job = Idle
    BY DEF Typed, Handlers
  <1>2. CASE PublishLock
    <2>1. monMail' \in {monMail, Append(monMail, StartMonitoring)}
      BY <1>2 DEF PublishLock
    <2> QED BY <1>1, <1>2, <2>1, RestSteps DEF Follows
  <1>3. CASE PublishClose
    <2>1. monMail' \in {monMail, Append(monMail, MonitorClose(job.close))}
      BY <1>3 DEF PublishClose
    <2> QED BY <1>1, <1>3, <2>1, RestSteps DEF Follows
  <1>4. CASE \/ SignLock \/ Commit \/ PublishCet \/ PublishRefund
             \/ SettlementAccepted \/ SettlementRejected
             \/ \E c \in Settlements : ProposeSettlement(c)
             \/ FetchAttestation \/ World \/ UNCHANGED vars
    BY <1>1, <1>4, RestSteps
  <1> QED BY <1>2, <1>3, <1>4
          DEF Next, CfdActorJob, UserAndPeer, Oracle, Follows

(* What a handled message does to the mailbox and to the monitor.          *)
LEMMA HandlerMail ==
    ASSUME Typed, MonitoringEvent \/ OracleAttestation
    PROVE  /\ up /\ job = Idle /\ cfdMail # <<>> /\ cfdMail' = Tail(cfdMail)
           /\ UNCHANGED <<setup, watching, awaiting, reached, monMail, pending, fetches, up>>
           /\ Head(cfdMail) \in CfdMsgs
           /\ MonitoringEvent => /\ Head(cfdMail).target \in Targets
                                 /\ Head(cfdMail) = EventMsg(Head(cfdMail).target)
           /\ OracleAttestation => Head(cfdMail) = AttestationMsg
           /\ job'.step \in {"publishCet", "publishRefund", "idle"} /\ ~PublishingLock'
           /\ \A t \in Targets : Queued(EventMsg(t))' /\ blocked => blocked'
  <1> USE DEF HandleMail
  <1>1. /\ up /\ job = Idle /\ cfdMail # <<>> /\ cfdMail' = Tail(cfdMail)
        /\ UNCHANGED <<setup, watching, awaiting, reached, monMail, pending, fetches, up>>
    BY DEF MonitoringEvent, OracleAttestation, CanStart, oracleVars, worldVars
  <1>2. Head(cfdMail) \in CfdMsgs
    BY <1>1, TailHas DEF Typed, TypeOK
  <1>3. MonitoringEvent => /\ Head(cfdMail).target \in Targets
                           /\ Head(cfdMail) = EventMsg(Head(cfdMail).target)
    BY <1>2, MailTypes DEF MonitoringEvent
  <1>4. OracleAttestation => Head(cfdMail) = AttestationMsg
    BY <1>2, Distinct DEF OracleAttestation, CfdMsgs
  <1>5. job'.step \in {"publishCet", "publishRefund", "idle"}
    BY JobTypes DEF MonitoringEvent, OracleAttestation, Return
  <1>6. ~PublishingLock'
    <2>1. Job("publishLock").step = "publishLock"
      BY JobTypes
    <2> QED BY <1>5, <2>1 DEF PublishingLock
  <1>7. blocked' = EventQueued(cfdMail)' \/ blocked' = blocked
    BY DEF MonitoringEvent, OracleAttestation, Return, EventQueued
  <1>8. \A t \in Targets : Queued(EventMsg(t))' => EventQueued(cfdMail)'
    BY EventsQueued DEF Queued
  <1> QED BY <1>1, <1>2, <1>3, <1>4, <1>5, <1>6, <1>7, <1>8

(* What the steps that do not rest do to what is watched for.              *)
LEMMA WatchSteps ==
    ASSUME Typed, up, up', Follows
    PROVE  \/ MonitoringEvent \/ OracleAttestation
           \/ /\ UNCHANGED <<cfdMail, watching, awaiting, reached, pending, fetches>>
              /\ \/ UNCHANGED monMail
                 \/ \E m \in MonMsgs : monMail' = Append(monMail, m)
           \/ /\ UNCHANGED <<cfdMail, watching, awaiting, reached, fetches>>
              /\ pending' = TRUE /\ monMail' = Append(monMail, StartMonitoring)
           \/ MonitorMessage \/ Sync \/ \E t \in reached : SendEvent(t)
           \/ NewAttestationFetched
  <1> USE DEF monitorVars, oracleVars, worldVars
  <1>1. CASE SetupCompleted \/ InitiateSettlement
    BY <1>1 DEF SetupCompleted, InitiateSettlement
  <1>2. CASE RecordCommit \/ RecordCet
    BY <1>2 DEF RecordCommit, RecordCet
  <1>3. CASE RecordClose
    <2>1. MonitorClose(job.close) \in MonMsgs
      BY <1>3, CloseJobs, MailTypes DEF RecordClose, Typed, TypeOK
    <2> QED BY <1>3, <2>1 DEF RecordClose
  <1>4. CASE PublishClose /\ monMail' = Append(monMail, MonitorClose(job.close))
    <2>1. MonitorClose(job.close) \in MonMsgs
      BY <1>4, CloseJobs, MailTypes DEF PublishClose, Typed, TypeOK
    <2> QED BY <1>4, <2>1 DEF PublishClose
  <1>5. CASE PublishLock /\ monMail' = Append(monMail, StartMonitoring)
    <2>1. Append(monMail, StartMonitoring) # monMail
      BY DEF Typed, TypeOK
    <2>2. pending' = TRUE
      BY <1>5, <2>1 DEF PublishLock
    <2> QED BY <1>5, <2>2 DEF PublishLock
  <1>6. CASE Crash \/ Restart
    BY <1>6 DEF Crash, Restart
  <1> QED BY <1>1, <1>2, <1>3, <1>4, <1>5, <1>6 DEF Follows, CfdActorHandler, Monitor

(* A target stays covered until its event is handled.                      *)
LEMMA CoverStays ==
    ASSUME Typed, [Next]_vars, up, up', NEW t \in Targets, Covered(t)
    PROVE  Covered(t)' \/ (MonitoringEvent /\ Head(cfdMail) = EventMsg(t))
  <1> USE DEF Covered, Undelivered
  <1>t. cfdMail \in Seq(CfdMsgs) /\ monMail \in Seq(MonMsgs)
    BY DEF Typed, TypeOK
  <1>1. CASE Rests
    BY <1>1 DEF Rests
  <1>2. CASE MonitoringEvent \/ OracleAttestation
    <2>1. /\ cfdMail # <<>> /\ cfdMail' = Tail(cfdMail)
          /\ UNCHANGED <<awaiting, reached, monMail>>
      BY <1>2, HandlerMail
    <2>2. Queued(EventMsg(t)) => Head(cfdMail) = EventMsg(t) \/ Queued(EventMsg(t))'
      BY <2>1, QueuedTail
    <2>3. Head(cfdMail) = EventMsg(t) => MonitoringEvent
      BY <1>2, Distinct, HandlerMail
    <2> QED BY <2>1, <2>2, <2>3 DEF Queued, Holds
  <1>3. CASE UNCHANGED <<cfdMail, watching, awaiting, reached, pending, fetches>> /\ UNCHANGED monMail
    BY <1>3
  <1>4. ASSUME UNCHANGED <<cfdMail, watching, awaiting, reached>>,
               NEW m \in MonMsgs, monMail' = Append(monMail, m)
        PROVE  Covered(t)'
    <2>1. Sent(StartMonitoring) => Sent(StartMonitoring)'
      BY <1>4, SentAppend
    <2> QED BY <1>4, <2>1 DEF Sent, Holds
  <1>6. CASE MonitorMessage
    <2>1. /\ monMail # <<>> /\ monMail' = Tail(monMail)
          /\ awaiting \subseteq awaiting' /\ UNCHANGED <<cfdMail, reached>>
      BY <1>6 DEF MonitorMessage, actorVars
    <2>2. Head(monMail) = StartMonitoring => awaiting' = awaiting \cup MonitorAll
      BY <1>6, Distinct DEF MonitorMessage
    <2>3. Sent(StartMonitoring) => Head(monMail) = StartMonitoring \/ Sent(StartMonitoring)'
      BY <2>1, SentTail
    <2> QED BY <2>1, <2>2, <2>3 DEF Sent, Holds
  <1>7. CASE Sync
    BY <1>7 DEF Sync, MonitorFree, actorVars
  <1>8. ASSUME NEW u \in reached, SendEvent(u)
        PROVE  Covered(t)'
    <2>1. /\ cfdMail' = Append(cfdMail, EventMsg(u)) /\ reached' = reached \ {u}
          /\ UNCHANGED <<awaiting, monMail>>
      BY <1>8 DEF SendEvent
    <2>2. EventMsg(u) \in CfdMsgs
      BY <1>8, MailTypes DEF Typed, TypeOK
    <2>3. /\ Queued(EventMsg(t)) => Queued(EventMsg(t))'
          /\ t = u => Queued(EventMsg(t))'
      BY <2>1, <2>2, QueuedAppend
    <2> QED BY <2>1, <2>3 DEF Queued, Holds
  <1>9. CASE NewAttestationFetched
    <2>1. /\ cfdMail' = Append(cfdMail, AttestationMsg)
          /\ monMail' = Append(monMail, NewAttestation)
          /\ UNCHANGED <<awaiting, reached>>
      BY <1>9 DEF NewAttestationFetched
    <2>2. /\ Queued(EventMsg(t)) => Queued(EventMsg(t))'
          /\ Sent(StartMonitoring) => Sent(StartMonitoring)'
      BY <2>1, MailTypes, QueuedAppend, SentAppend
    <2> QED BY <2>1, <2>2 DEF Queued, Sent, Holds
  <1>10. Rests \/ Follows
    BY RestsOrFollows
  <1> QED BY <1>1, <1>2, <1>3, <1>4, <1>6, <1>7, <1>8, <1>9, <1>10, WatchSteps, MailTypes

LEMMA BlockedIs ==
    ASSUME Typed, [Next]_vars
    PROVE  \/ blocked' = blocked \/ blocked' = EventQueued(cfdMail') \/ blocked' = TRUE
           \/ ~up'
  <1> USE DEF actorVars, monitorVars, oracleVars, worldVars, Return
  <1>1. CASE CfdActorHandler
    BY <1>1 DEF CfdActorHandler, SetupCompleted, MonitoringEvent,
                OracleAttestation, HandleMail
  <1>2. CASE CfdActorJob
    BY <1>2 DEF CfdActorJob, PublishLock, RecordCommit, PublishCet, RecordCet,
                PublishRefund, PublishClose, RecordClose
  <1>3. CASE UserAndPeer
    BY <1>3 DEF UserAndPeer, SignLock, Commit, InitiateSettlement,
                SettlementAccepted, SettlementRejected, ProposeSettlement
  <1>4. CASE Monitor \/ Oracle
    BY <1>4 DEF Monitor, MonitorMessage, Sync, SendEvent, Oracle,
                FetchAttestation, NewAttestationFetched
  <1>5. CASE Crash \/ Restart
    BY <1>5 DEF Crash, Restart
  <1>6. CASE World \/ UNCHANGED vars
    BY <1>6 DEF World, Mine, Attest, CounterpartyPublishes, vars
  <1> QED BY <1>1, <1>2, <1>3, <1>4, <1>5, <1>6 DEF Next

(* The handlers in progress, in the steps that do not rest.                *)
LEMMA FollowJobs ==
    ASSUME Typed, Follows
    PROVE  /\ setup' => setup
           /\ PublishingLock' =>
                 \/ job' = job /\ setup' = setup
                 \/ SetupCompleted /\ setup /\ ~setup'
           /\ job'.step = "publishClose" => job' = job \/ InitiateSettlement
  <1> USE DEF actorVars, PublishingLock
  <1>j. /\ Idle # Job("publishLock") /\ Idle.step = "idle"
        /\ Job("publishLock").step = "publishLock"
        /\ \A c : JobOf("publishClose", c) # Job("publishLock")
    BY DEF Idle, Job, JobOf
  <1>1. CASE SetupCompleted
    <2>1. job = Idle /\ job' \in {Job("publishLock"), job} /\ setup /\ ~setup'
      BY <1>1 DEF SetupCompleted, CanStart
    <2> QED BY <1>1, <1>j, <2>1
  <1>2. CASE MonitoringEvent \/ OracleAttestation
    BY <1>2, HandlerMail
  <1>3. CASE RecordCommit \/ RecordCet \/ RecordClose
    BY <1>3, <1>j DEF RecordCommit, RecordCet, RecordClose, Return
  <1>4. CASE InitiateSettlement
    BY <1>4, <1>j DEF InitiateSettlement
  <1>5. CASE Monitor \/ NewAttestationFetched
    BY <1>5 DEF Monitor, MonitorMessage, Sync, SendEvent, NewAttestationFetched
  <1>6. CASE Crash \/ Restart
    BY <1>6, <1>j DEF Crash, Restart
  <1>7. CASE PublishLock \/ PublishClose
    BY <1>7, <1>j DEF PublishLock, PublishClose, Return
  <1> QED BY <1>1, <1>2, <1>3, <1>4, <1>5, <1>6, <1>7 DEF Follows, CfdActorHandler

LEMMA CrashEmpties ==
    ASSUME Typed, Down, [Next]_vars, ~up \/ ~up', Follows
    PROVE  /\ cfdMail' = <<>> /\ monMail' = <<>> /\ reached' = {} /\ ~blocked'
           /\ job' = Idle /\ ~setup' /\ (up' => ~up /\ Restart)
  <1>1. CASE ~up
    <2>1. Restart
      BY <1>1, HandlerMail
         DEF Follows, CfdActorHandler, SetupCompleted, CanStart, RecordCommit,
             RecordCet, RecordClose, InitiateSettlement, Monitor,
             MonitorMessage, Sync, MonitorFree, SendEvent,
             NewAttestationFetched, Crash, PublishLock, PublishClose
    <2> QED BY <1>1, <2>1 DEF Restart, Down, Typed, Handlers, actorVars
  <1>2. CASE up /\ ~up'
    <2>1. Crash
      BY <1>2, WatchSteps, HandlerMail
         DEF Follows, CfdActorHandler, SetupCompleted, RecordCommit,
             RecordCet, RecordClose, InitiateSettlement, Monitor,
             MonitorMessage, Sync, SendEvent, NewAttestationFetched, Restart,
             PublishLock, PublishClose, worldVars
    <2> QED BY <1>2, <2>1 DEF Crash
  <1> QED BY <1>1, <1>2

LEMMA DownStep ==
    ASSUME Typed, Down, [Next]_vars
    PROVE  Down'
  <1>1. CASE Rests
    BY <1>1 DEF Rests, Down
  <1>2. CASE Follows /\ ~up'
    BY <1>2, CrashEmpties DEF Down
  <1> QED BY <1>1, <1>2, RestsOrFollows DEF Down

LEMMA MailboxTypes ==
    Typed => cfdMail \in Seq(CfdMsgs) /\ monMail \in Seq(MonMsgs)
  BY DEF Typed, TypeOK

LEMMA OneEventStep ==
    ASSUME Typed, Down, OneEvent, [Next]_vars
    PROVE  OneEvent'
  <1>m. cfdMail \in Seq(CfdMsgs)
    BY MailboxTypes
  <1>1. CASE Rests
    <2>1. cfdMail' = cfdMail
      BY <1>1 DEF Rests
    <2>2. \A t \in Targets : Queued(EventMsg(t))' => Queued(EventMsg(t))
      BY <2>1 DEF Queued
    <2> QED BY <1>1, <2>1, <2>2 DEF Rests, OneEvent
  <1>2. CASE Follows /\ (~up \/ ~up')
    <2>1. cfdMail' = <<>>
      BY <1>2, CrashEmpties
    <2> QED BY <2>1 DEF OneEvent, AtMostOne, Queued, Holds
  <1>3. CASE Follows /\ up /\ up'
    <2>1. CASE MonitoringEvent \/ OracleAttestation
      <3>1. cfdMail # <<>> /\ cfdMail' = Tail(cfdMail)
        BY <2>1, HandlerMail
      <3>2. AtMostOne(cfdMail', EventMsgs)
        BY <1>m, <3>1, AtMostOneTail DEF OneEvent
      <3>3. \A t \in Targets : Queued(EventMsg(t))' => Queued(EventMsg(t))
        BY <3>1, QueuedTail
      <3> QED BY <2>1, <3>2, <3>3, HandlerMail DEF OneEvent
    <2>2. ASSUME NEW u \in reached, SendEvent(u)
          PROVE  OneEvent'
      <3>1. cfdMail' = Append(cfdMail, EventMsg(u)) /\ ~blocked /\ blocked' = TRUE
        BY <2>2 DEF SendEvent
      <3>2. EventMsg(u) \in CfdMsgs
        BY MailTypes DEF Typed, TypeOK
      <3>3. \A x \in EventMsgs : ~Holds(cfdMail, x)
        BY <3>1 DEF OneEvent, EventMsgs, Queued
      <3>4. AtMostOne(Append(cfdMail, EventMsg(u)), EventMsgs)
        BY <1>m, <3>2, <3>3, AtMostOneAppend DEF OneEvent
      <3> QED BY <3>1, <3>4 DEF OneEvent
    <2>3. CASE NewAttestationFetched
      <3>1. cfdMail' = Append(cfdMail, AttestationMsg) /\ blocked' = blocked
        BY <2>3 DEF NewAttestationFetched
      <3>2. AttestationMsg \notin EventMsgs /\ AttestationMsg \in CfdMsgs
        BY Distinct, MailTypes DEF EventMsgs
      <3>3. AtMostOne(Append(cfdMail, AttestationMsg), EventMsgs)
        BY <1>m, <3>2, AtMostOneAppend DEF OneEvent
      <3>4. \A t \in Targets : Queued(EventMsg(t))' => Queued(EventMsg(t))
        BY <3>1, <3>2, QueuedAppend, Distinct
      <3> QED BY <3>1, <3>3, <3>4 DEF OneEvent
    <2>4. CASE cfdMail' = cfdMail
      <3>1. \A t \in Targets : Queued(EventMsg(t))' => Queued(EventMsg(t)) /\ EventQueued(cfdMail')
        BY <2>4, EventsQueued DEF Queued
      <3>2. blocked' = blocked \/ blocked' = EventQueued(cfdMail') \/ blocked' = TRUE
        BY <1>3, BlockedIs
      <3>3. ASSUME NEW t \in Targets, Queued(EventMsg(t))'
            PROVE  blocked'
        <4>1. Queued(EventMsg(t)) /\ blocked /\ EventQueued(cfdMail')
          BY <3>1, <3>3 DEF OneEvent
        <4>2. CASE blocked' = EventQueued(cfdMail')
          BY <4>1, <4>2
        <4>3. CASE blocked' = blocked
          BY <4>1, <4>3
        <4> QED BY <3>2, <4>2, <4>3
      <3> QED BY <2>4, <3>3 DEF OneEvent
    <2>5. MonitorMessage \/ Sync => cfdMail' = cfdMail
      BY DEF MonitorMessage, Sync, actorVars
    <2> QED BY <1>3, <2>1, <2>2, <2>3, <2>4, <2>5, WatchSteps
  <1> QED BY <1>1, <1>2, <1>3, RestsOrFollows

(* Who starts to watch, and who sends StartMonitoring.                     *)
LEMMA StartSteps ==
    ASSUME Typed, Followed, [Next]_vars, up, up', Follows
    PROVE  /\ watching' => watching \/ (Sent(StartMonitoring) /\ ~Sent(StartMonitoring)')
           /\ watching => watching'
           /\ Sent(StartMonitoring)' =>
                 \/ Sent(StartMonitoring)
                 \/ PublishingLock /\ ~PublishingLock' /\ setup' = setup /\ pending'
           /\ AtMostOne(monMail', {StartMonitoring})
  <1>m. monMail \in Seq(MonMsgs) /\ AtMostOne(monMail, {StartMonitoring})
    BY MailboxTypes DEF Followed, StartsOnce
  <1>1. CASE UNCHANGED <<watching, monMail>>
    BY <1>1, <1>m DEF Sent
  <1>2. CASE PublishLock
    <2>1. Idle # Job("publishLock")
      BY DEF Idle, Job
    <2>2. PublishingLock /\ ~PublishingLock' /\ UNCHANGED <<setup, watching>>
      BY <1>2, <2>1 DEF PublishLock, PublishingLock, Return
    <2>3. \/ monMail' = monMail
          \/ monMail' = Append(monMail, StartMonitoring) /\ pending'
      BY <1>2 DEF PublishLock
    <2>4. ~Holds(monMail, StartMonitoring)
      BY <2>2 DEF Followed, StartsOnce, Sent
    <2>5. AtMostOne(Append(monMail, StartMonitoring), {StartMonitoring})
      BY <1>m, <2>4, AtMostOneAppend, MailTypes
    <2>6. monMail' = monMail => Sent(StartMonitoring)' = Sent(StartMonitoring)
      BY DEF Sent
    <2> QED BY <1>m, <2>2, <2>3, <2>5, <2>6
  <1>3. ASSUME NEW m \in MonMsgs, m # StartMonitoring, watching' = watching,
               monMail' = Append(monMail, m)
        PROVE  Sent(StartMonitoring)' = Sent(StartMonitoring) /\ AtMostOne(monMail', {StartMonitoring})
    <2>1. Sent(StartMonitoring)' <=> Sent(StartMonitoring)
      BY <1>3, SentAppend
    <2>2. AtMostOne(Append(monMail, m), {StartMonitoring})
      BY <1>m, <1>3, AtMostOneAppend
    <2> QED BY <1>3, <2>1, <2>2 DEF Sent, Holds
  <1>4. CASE MonitorMessage
    <2>1. monMail # <<>> /\ monMail' = Tail(monMail)
      BY <1>4 DEF MonitorMessage
    <2>2. /\ AtMostOne(monMail', {StartMonitoring})
          /\ Head(monMail) = StartMonitoring => ~Sent(StartMonitoring)'
      BY <1>m, <2>1, AtMostOneTail DEF Sent
    <2>3. Sent(StartMonitoring) <=> Head(monMail) = StartMonitoring \/ Sent(StartMonitoring)'
      BY <2>1, SentTail
    <2>4. Head(monMail) \in MonMsgs
      BY <1>m, <2>1, TailHas
    <2>5. \/ Head(monMail) = StartMonitoring /\ watching' = TRUE
          \/ watching' = watching
      BY <1>4, <2>4, Distinct DEF MonitorMessage, MonMsgs
    <2> QED BY <2>2, <2>3, <2>5
  <1>5. CASE NewAttestationFetched
    <2>1. watching' = watching /\ monMail' = Append(monMail, NewAttestation)
      BY <1>5 DEF NewAttestationFetched
    <2>2. NewAttestation \in MonMsgs /\ NewAttestation # StartMonitoring
      BY MailTypes, Distinct
    <2> QED BY <1>3, <2>1, <2>2
  <1>6. CASE RecordClose \/ (PublishClose /\ monMail' = Append(monMail, MonitorClose(job.close)))
    <2>1. watching' = watching /\ monMail' = Append(monMail, MonitorClose(job.close))
      BY <1>6 DEF RecordClose, PublishClose
    <2>2. MonitorClose(job.close) \in MonMsgs /\ MonitorClose(job.close) # StartMonitoring
      BY <1>6, MailTypes, Distinct, CloseJobs DEF RecordClose, PublishClose, Typed, TypeOK
    <2> QED BY <1>3, <2>1, <2>2
  <1>7. CASE \/ CfdActorHandler \/ RecordCommit \/ RecordCet \/ InitiateSettlement
             \/ Sync \/ \E t \in reached : SendEvent(t)
    <2>1. UNCHANGED <<watching, monMail>>
      BY <1>7, HandlerMail
         DEF CfdActorHandler, SetupCompleted, RecordCommit, RecordCet,
             InitiateSettlement, Sync, SendEvent, monitorVars
    <2> QED BY <1>1, <2>1
  <1>8. ~Crash /\ ~Restart
    BY DEF Crash, Restart
  <1> QED BY <1>2, <1>4, <1>5, <1>6, <1>7, <1>8 DEF Follows, Monitor

LEMMA StartsOnceStep ==
    ASSUME Typed, Followed, [Next]_vars
    PROVE  StartsOnce'
  <1>s. StartsOnce /\ Down
    BY DEF Followed
  <1>1. CASE Rests
    <2>1. /\ setup' = setup /\ watching' = watching /\ monMail' = monMail
          /\ PublishingLock' => PublishingLock
      BY <1>1 DEF Rests
    <2>2. Sent(StartMonitoring)' = Sent(StartMonitoring)
      BY <2>1 DEF Sent
    <2> QED BY <1>s, <2>1, <2>2 DEF StartsOnce
  <1>2. CASE Follows /\ (~up \/ ~up')
    <2>1. monMail' = <<>> /\ job' = Idle /\ ~setup'
      BY <1>2, <1>s, CrashEmpties
    <2>2. Idle # Job("publishLock")
      BY DEF Idle, Job
    <2> QED BY <2>1, <2>2 DEF StartsOnce, AtMostOne, Sent, Holds, PublishingLock
  <1>3. CASE Follows /\ up /\ up'
    <2>1. /\ setup' => setup
          /\ PublishingLock' => \/ PublishingLock /\ setup' = setup
                                \/ setup /\ ~setup'
      BY <1>3, FollowJobs DEF PublishingLock
    <2>2. /\ watching' => watching \/ (Sent(StartMonitoring) /\ ~Sent(StartMonitoring)')
          /\ Sent(StartMonitoring)' => \/ Sent(StartMonitoring)
                                       \/ PublishingLock /\ ~PublishingLock' /\ setup' = setup
          /\ AtMostOne(monMail', {StartMonitoring})
      BY <1>3, StartSteps
    <2>3. setup' \/ PublishingLock' => ~watching' /\ ~Sent(StartMonitoring)'
      BY <1>s, <2>1, <2>2 DEF StartsOnce
    <2>4. PublishingLock' => ~setup'
      BY <1>s, <2>1 DEF StartsOnce
    <2>5. Sent(StartMonitoring)' => ~watching'
      BY <1>s, <2>2 DEF StartsOnce
    <2> QED BY <2>2, <2>3, <2>4, <2>5 DEF StartsOnce
  <1> QED BY <1>1, <1>2, <1>3, RestsOrFollows

LEMMA UnwatchedStates ==
    ASSUME NEW s \in CfdStates, ~HasDlc(s), s.kind # "PendingRefund"
    PROVE  TargetsAtStart(s) = {} /\ s.kind # "Open"
  BY StateCases DEF HasDlc, TargetsAtStart, BareKinds, CleanupKinds, NoCet

(* Only the report of the lock tx opens a CFD.                             *)
LEMMA OpenedByLock ==
    ASSUME Typed, OracleAttestation \/ SetupCompleted \/ RecordCommit \/ RecordCet,
           db'.kind = "Open"
    PROVE  db.kind = "Open"
  <1>t. db \in CfdStates
    BY DEF Typed, TypeOK
  <1>1. CASE OracleAttestation
    <2>1. db' = db \/ db' = AfterOracleAttestation(db, Attestation)
      BY <1>1 DEF OracleAttestation, HandleMail, Handle, Changed
    <2> QED BY <1>t, <2>1, StateCases
            DEF AfterOracleAttestation, PendingOpen, PendingCommit,
                OpenCommitted, Variant, Bail, Bare
  <1>2. CASE SetupCompleted
    BY <1>2 DEF SetupCompleted, PendingOpen, Bare, Variant
  <1>3. CASE RecordCommit
    <2>1. db' = db \/ db' = AfterCommitTxSent(db)
      BY <1>3 DEF RecordCommit, Handle, Changed
    <2> QED BY <2>1 DEF AfterCommitTxSent, PendingCommit, Variant, Bail, Bare
  <1>4. CASE RecordCet
    <2>1. db' = db \/ db' = AfterCetSent(db)
      BY <1>4 DEF RecordCet, Handle, Changed
    <2> QED BY <2>1 DEF AfterCetSent, PendingCet, Variant, Bail, Bare
  <1> QED BY <1>1, <1>2, <1>3, <1>4

LEMMA ClosePublished ==
    ASSUME Typed, Unwatched, [Next]_vars
    PROVE  job'.step = "publishClose" => db'.kind = "Open" /\ db'.cc = job'.close
  <1> SUFFICES ASSUME job'.step = "publishClose"
               PROVE  db'.kind = "Open" /\ db'.cc = job'.close
    OBVIOUS
  <1>j. Idle.step = "idle" /\ Job("recordCommit").step = "recordCommit"
        /\ Job("recordCet").step = "recordCet"
        /\ \A c : JobOf("publishClose", c).close = c
    BY DEF Idle, Job, JobOf
  <1>1. CASE InitiateSettlement
    <2>1. db'.kind = "Open" /\ db'.cc = proposal /\ job' = JobOf("publishClose", proposal)
      BY <1>1 DEF InitiateSettlement, AfterProposalSigned, Open, Variant
    <2> QED BY <1>j, <2>1
  <1>2. CASE job' = job /\ db' = db
    BY <1>2 DEF Unwatched
  <1>3. CASE job' = job /\ Follows
    <2>1. job # Idle /\ job.step \notin {"idle", "recordCommit", "recordCet", "recordClose"}
      BY <1>3, <1>j
    <2>2. ~CfdActorHandler /\ ~RecordCommit /\ ~RecordCet /\ ~RecordClose
          /\ ~InitiateSettlement
      BY <1>j, <2>1, HandlerMail
         DEF CfdActorHandler, SetupCompleted, CanStart, RecordCommit, RecordCet,
             RecordClose, InitiateSettlement
    <2>3. ~Restart
      BY <2>1 DEF Restart, Typed, Handlers
    <2>4. db' = db
      BY <1>3, <2>2, <2>3
         DEF Follows, Monitor, MonitorMessage, Sync, SendEvent,
             NewAttestationFetched, Crash, PublishLock, PublishClose
    <2> QED BY <1>2, <1>3, <2>4
  <1>4. CASE Rests
    BY <1>2, <1>4 DEF Rests
  <1> QED BY <1>1, <1>3, <1>4, RestsOrFollows, FollowJobs

LEMMA UnwatchedStep ==
    ASSUME Typed, Followed, [Next]_vars
    PROVE  Unwatched'
  <1>s. Unwatched /\ StartsOnce /\ Down
    BY DEF Followed
  <1>j. job'.step = "publishClose" => db'.kind = "Open" /\ db'.cc = job'.close
    BY <1>s, ClosePublished
  <1> SUFFICES ASSUME up', ~watching'
               PROVE  /\ awaiting' = {} /\ reached' = {}
                      /\ \A t \in Targets : ~Queued(EventMsg(t))'
                      /\ db'.kind # "Open"
                      /\ \A c \in Settlements : ~Sent(MonitorClose(c))'
    BY <1>j DEF Unwatched
  <1>1. CASE Rests
    <2>1. UNCHANGED <<up, watching, awaiting, reached, db, cfdMail, monMail>>
      BY <1>1 DEF Rests
    <2> QED BY <1>s, <2>1 DEF Unwatched, Queued, Sent
  <1>2. CASE Follows /\ ~up
    <2>1. cfdMail' = <<>> /\ monMail' = <<>> /\ reached' = {} /\ Restart
      BY <1>2, <1>s, CrashEmpties
    <2>2. db' \in CfdStates
      BY TypedStep DEF Typed, TypeOK
    <2>3. awaiting' = {} /\ db'.kind # "Open"
      BY <2>1, <2>2, UnwatchedStates DEF Restart
    <2> QED BY <2>1, <2>3 DEF Queued, Sent, Holds
  <1>3. CASE Follows /\ up
    <2>1. /\ ~watching
          /\ awaiting = {} /\ reached = {} /\ db.kind # "Open"
          /\ \A t \in Targets : ~Queued(EventMsg(t))
          /\ \A c \in Settlements : ~Sent(MonitorClose(c))
      BY <1>3, <1>s, StartSteps DEF Unwatched
    <2>2. CASE MonitoringEvent \/ OracleAttestation
      <3>1. /\ cfdMail # <<>> /\ cfdMail' = Tail(cfdMail)
            /\ UNCHANGED <<awaiting, reached, monMail>>
        BY <2>2, HandlerMail
      <3>2. Queued(Head(cfdMail))
        BY <3>1, QueuedTail
      <3>3. ~MonitoringEvent
        BY <2>1, <3>2, HandlerMail
      <3>4. \A t \in Targets : ~Queued(EventMsg(t))'
        BY <2>1, <3>1, QueuedTail
      <3> QED BY <2>1, <2>2, <3>1, <3>3, <3>4, OpenedByLock DEF Sent
    <2>3. ~InitiateSettlement /\ ~RecordClose /\ ~PublishClose
      BY <1>s, <2>1, CloseJobs DEF InitiateSettlement, RecordClose, PublishClose, Unwatched, Typed, Handlers
    <2>4. CASE SetupCompleted \/ RecordCommit \/ RecordCet
      <3>1. UNCHANGED <<awaiting, reached, cfdMail, monMail>>
        BY <2>4 DEF SetupCompleted, RecordCommit, RecordCet, monitorVars
      <3> QED BY <2>1, <2>4, <3>1, OpenedByLock DEF Queued, Sent
    <2>5. CASE PublishLock /\ monMail' = Append(monMail, StartMonitoring)
      <3>1. UNCHANGED <<awaiting, reached, cfdMail, db>>
        BY <2>5 DEF PublishLock
      <3>2. \A c \in Settlements : ~Sent(MonitorClose(c))'
        BY <2>1, <2>5, SentAppend, MailTypes, Distinct
      <3> QED BY <2>1, <3>1, <3>2 DEF Queued
    <2>6. CASE MonitorMessage
      <3>1. /\ monMail # <<>> /\ monMail' = Tail(monMail)
            /\ UNCHANGED <<reached, cfdMail, db>>
        BY <2>6 DEF MonitorMessage, actorVars
      <3>2. \A c \in Settlements : ~Sent(MonitorClose(c))' /\ Head(monMail) # MonitorClose(c)
        BY <2>1, <3>1, SentTail
      <3>3. Head(monMail) \in {StartMonitoring, NewAttestation}
        BY <3>1, <3>2, MailboxTypes, TailHas DEF MonMsgs
      <3>4. awaiting' = {}
        BY <2>1, <2>6, <3>3, Distinct DEF MonitorMessage
      <3> QED BY <2>1, <3>1, <3>2, <3>4 DEF Queued
    <2>7. ~Sync /\ ~(\E t \in reached : SendEvent(t))
      BY <2>1 DEF Sync
    <2>8. CASE NewAttestationFetched
      <3>1. /\ cfdMail' = Append(cfdMail, AttestationMsg)
            /\ monMail' = Append(monMail, NewAttestation)
            /\ UNCHANGED <<db, awaiting, reached>>
        BY <2>8 DEF NewAttestationFetched
      <3>2. /\ \A t \in Targets : ~Queued(EventMsg(t))'
            /\ \A c \in Settlements : ~Sent(MonitorClose(c))'
        BY <2>1, <3>1, QueuedAppend, SentAppend, MailTypes, Distinct
      <3> QED BY <2>1, <3>1, <3>2
    <2>9. ~Crash /\ ~Restart
      BY <1>3 DEF Crash, Restart
    <2> QED BY <1>3, <2>2, <2>3, <2>4, <2>5, <2>6, <2>7, <2>8, <2>9
            DEF Follows, CfdActorHandler, Monitor
  <1> QED BY <1>1, <1>2, <1>3, RestsOrFollows

LEMMA InOrderStep ==
    ASSUME Typed, Followed, [Next]_vars
    PROVE  InOrder'
  <1>s. InOrder /\ OneEvent /\ Down
    BY DEF Followed
  <1>t. RefundTimelockPassed \in Targets /\ CommitFinality \in Targets
        /\ RefundTimelockPassed # CommitFinality
    BY TargetTypes DEF RefundTimelockPassed, CommitFinality, MonitorAll,
                       TimelockTargets, RefundTargets, Target
  <1> DEFINE r == RefundTimelockPassed
             q == EventMsg(r)
  <1>d. Undelivered(r) <=> r \in reached \/ Queued(q)
    BY DEF Undelivered, Queued, Holds
  <1>e. Undelivered(r)' <=> r \in reached' \/ Queued(q)'
    BY DEF Undelivered, Queued, Holds, RefundTimelockPassed
  <1> HIDE DEF r, q
  <1>i. /\ r \in reached \/ Queued(q) => CommitFinality \notin awaiting
        /\ Queued(q) => CommitFinality \notin reached /\ blocked
    BY <1>s, <1>t, <1>d DEF InOrder, OneEvent, r, q
  <1> SUFFICES /\ r \in reached' \/ Queued(q)' => CommitFinality \notin awaiting'
               /\ Queued(q)' => CommitFinality \notin reached'
    BY <1>e DEF InOrder, r, q, CommitFinality, RefundTimelockPassed
  <1>1. CASE UNCHANGED <<awaiting, reached, cfdMail>>
    BY <1>1, <1>i DEF Queued
  <1>2. CASE Follows /\ (~up \/ ~up')
    <2>1. cfdMail' = <<>> /\ reached' = {}
      BY <1>2, <1>s, CrashEmpties
    <2> QED BY <2>1 DEF Queued, Holds
  <1>3. CASE MonitoringEvent \/ OracleAttestation
    <2>1. cfdMail # <<>> /\ cfdMail' = Tail(cfdMail) /\ UNCHANGED <<awaiting, reached>>
      BY <1>3, HandlerMail
    <2>2. Queued(q)' => Queued(q)
      BY <2>1, QueuedTail
    <2> QED BY <1>i, <2>1, <2>2
  <1>4. CASE MonitorMessage
    <2>1. reached = {} /\ ~blocked /\ UNCHANGED <<reached, cfdMail>>
      BY <1>4 DEF MonitorMessage, MonitorFree, actorVars
    <2>2. ~Queued(q)'
      BY <1>i, <2>1 DEF Queued
    <2> QED BY <2>1, <2>2
  <1>5. CASE Sync
    <2>1. ~blocked /\ cfdMail' = cfdMail
      BY <1>5 DEF Sync, MonitorFree, actorVars
    <2>2. ~Queued(q)'
      BY <1>i, <2>1 DEF Queued
    <2>3. r \in reached' => StatusReached(r)
      BY <1>5 DEF Sync
    <2>4. StatusReached(r) => age >= RefundTimelock
      BY DEF StatusReached, r, RefundTimelockPassed, Target
    <2>5. age >= RefundTimelock => StatusReached(CommitFinality)
      BY TimelockAssumption DEF StatusReached, CommitFinality, Target, Typed, TypeOK
    <2>6. r \in reached' => CommitFinality \notin awaiting'
      BY <1>5, <2>3, <2>4, <2>5 DEF Sync
    <2> QED BY <2>2, <2>6
  <1>6. ASSUME NEW t \in reached, SendEvent(t)
        PROVE  /\ r \in reached' \/ Queued(q)' => CommitFinality \notin awaiting'
               /\ Queued(q)' => CommitFinality \notin reached'
    <2>1. /\ cfdMail' = Append(cfdMail, EventMsg(t)) /\ ~blocked
          /\ reached' = reached \ {t} /\ awaiting' = awaiting
      BY <1>6 DEF SendEvent
    <2>2. Queued(q)' => Queued(q) \/ t = r
      <3>1. EventMsg(t) \in CfdMsgs
        BY MailTypes DEF Typed, TypeOK
      <3> QED BY <2>1, <3>1, QueuedAppend, Distinct DEF q
    <2>3. t = r => CommitFinality \notin reached
      BY <1>6 DEF SendEvent, ReportedBefore, r, RefundTimelockPassed,
                  CommitFinality, Target, TimelockTargets
    <2> QED BY <1>i, <2>1, <2>2, <2>3
  <1>7. CASE NewAttestationFetched
    <2>1. cfdMail' = Append(cfdMail, AttestationMsg) /\ UNCHANGED <<awaiting, reached>>
      BY <1>7 DEF NewAttestationFetched
    <2>2. Queued(q)' => Queued(q)
      BY <2>1, QueuedAppend, MailTypes, Distinct DEF q
    <2> QED BY <1>i, <2>1, <2>2
  <1>8. Rests => UNCHANGED <<awaiting, reached, cfdMail>>
    BY DEF Rests
  <1> QED BY <1>1, <1>2, <1>3, <1>4, <1>5, <1>6, <1>7, <1>8, RestsOrFollows, WatchSteps

LEMMA Needs ==
    ASSUME NEW s \in CfdStates, NEW t
    PROVE  t \in NeededTargets(s) <=>
              \/ t = Target("LockFinality") /\ s.kind = "PendingOpen"
              \/ /\ t = CommitFinality
                 /\ s.kind \in {"PendingOpen", "Open", "PendingCommit"}
              \/ /\ t = Target("CetTimelockExpired")
                 /\ \/ s.kind \in {"PendingOpen", "Open", "PendingCommit"}
                    \/ s.cet \in {"Unprepared", "OracleSigned"}
              \/ /\ t \in {RefundTimelockPassed, Target("RefundFinality")}
                 /\ s.kind \in {"PendingOpen", "Open", "PendingCommit", "OpenCommitted"}
  <1>1. /\ s.cet \in {"Unprepared", "OracleSigned", "TimelockExpired", "Ready"} =>
              s.kind = "OpenCommitted"
        /\ s.kind = "OpenCommitted" =>
              s.cet \in {"Unprepared", "OracleSigned", "TimelockExpired", "Ready"}
    BY StateCases DEF NoCet, BareKinds, CleanupKinds
  <1>2. \A a, b : Target(a) = Target(b) => a = b
    BY DEF Target
  <1>3. CASE s.kind = "PendingOpen"
    <2>1. NeededTargets(s) = MonitorAll
      BY <1>1, <1>3 DEF NeededTargets
    <2> QED BY <1>1, <1>3, <2>1
            DEF MonitorAll, TimelockTargets, RefundTargets, CommitFinality,
                RefundTimelockPassed
  <1>4. CASE s.kind \in {"Open", "PendingCommit"}
    <2>1. NeededTargets(s) = MonitorAll \ {Target("LockFinality")}
      BY <1>1, <1>4 DEF NeededTargets
    <2> QED BY <1>1, <1>2, <1>4, <2>1
            DEF MonitorAll, TimelockTargets, RefundTargets, CommitFinality,
                RefundTimelockPassed
  <1>5. CASE s.cet \in {"Unprepared", "OracleSigned"}
    <2>1. NeededTargets(s) = RefundTargets \cup {Target("CetTimelockExpired")}
      BY <1>1, <1>5 DEF NeededTargets
    <2> QED BY <1>1, <1>5, <2>1
            DEF MonitorAll, TimelockTargets, RefundTargets, CommitFinality,
                RefundTimelockPassed
  <1>6. CASE s.kind = "OpenCommitted" /\ s.cet \notin {"Unprepared", "OracleSigned"}
    <2>1. NeededTargets(s) = RefundTargets
      BY <1>1, <1>6 DEF NeededTargets
    <2> QED BY <1>6, <2>1
            DEF MonitorAll, TimelockTargets, RefundTargets, CommitFinality,
                RefundTimelockPassed
  <1>7. CASE s.kind \notin {"PendingOpen", "Open", "PendingCommit", "OpenCommitted"}
    <2>1. NeededTargets(s) = {}
      BY <1>1, <1>7 DEF NeededTargets
    <2> QED BY <1>1, <1>7, <2>1
  <1> QED BY <1>3, <1>4, <1>5, <1>6, <1>7

(* What an event leaves the CFD to wait for, it waited for before.         *)
LEMMA NeedsShrink ==
    ASSUME NEW s \in CfdStates, NEW ev \in MonitorEvents,
           AfterMonitorEvent(s, ev) # Bail
    PROVE  NeededTargets(AfterMonitorEvent(s, ev)) \subseteq NeededTargets(s)
  <1> DEFINE o == AfterMonitorEvent(s, ev)
  <1>t. o \in CfdStates
    <2>1. o # Ignored
      BY StateCases DEF AfterMonitorEvent, MonitorEvents, AfterLockFinality,
         AfterCommitFinality, AfterCloseFinality, AfterCetTimelockExpired,
         AfterRefundTimelockExpired, AfterRefundFinality, AfterCetFinality,
         Open, OpenCommitted, ClosedCollaboratively, PendingRefund, Refunded,
         ClosedByCet, Variant, Bail, Ignored, Bare, BareKinds, CleanupKinds
    <2> QED BY <2>1, AfterMonitorEventType DEF Outcomes
  <1>k. /\ o.kind = "PendingOpen" => s.kind = "PendingOpen"
        /\ o.kind \in {"Open", "PendingCommit"} => s.kind \in {"PendingOpen", "Open", "PendingCommit"}
        /\ o.kind = "OpenCommitted" =>
              s.kind \in {"PendingOpen", "Open", "PendingCommit", "OpenCommitted"}
        /\ o.cet \in {"Unprepared", "OracleSigned"} =>
              s.kind \in {"PendingOpen", "Open", "PendingCommit"}
    <2> USE StateCases DEF AfterMonitorEvent, Variant, Bail, Bare, NoCet, BareKinds, CleanupKinds
    <2>1. CASE ev = "LockFinality"
      BY <2>1 DEF AfterLockFinality, Open
    <2>2. CASE ev = "CommitFinality"
      BY <2>2 DEF AfterCommitFinality, OpenCommitted
    <2>3. CASE ev = "CloseFinality"
      BY <2>3 DEF AfterCloseFinality, HasCollaborativeClose,
                  ClosedCollaboratively
    <2>4. CASE ev = "CetTimelockExpired"
      BY <2>4 DEF AfterCetTimelockExpired, OpenCommitted
    <2>5. CASE ev = "RefundTimelockExpired"
      BY <2>5 DEF AfterRefundTimelockExpired, PendingRefund
    <2>6. CASE ev = "RefundFinality"
      BY <2>6 DEF AfterRefundFinality, HasDlc, Refunded
    <2>7. CASE ev = "CetFinality"
      BY <2>7 DEF AfterCetFinality, HasAttestation, ClosedByCet
    <2> QED BY <2>1, <2>2, <2>3, <2>4, <2>5, <2>6, <2>7 DEF MonitorEvents
  <1> HIDE DEF o
  <1>1. NeededTargets(o) \subseteq NeededTargets(s)
    BY <1>t, <1>k, Needs
  <1> QED BY <1>1 DEF o

(* So with everything else that is recorded, but the end of the set-up.    *)
LEMMA RecordsShrink ==
    ASSUME Typed, RecordStep, db # Bare("ContractSetup"), db' \in CfdStates
    PROVE  NeededTargets(db') \subseteq NeededTargets(db)
  <1>t. db \in CfdStates
    BY DEF Typed, TypeOK
  <1>0. CASE db' = db
    BY <1>0 DEF NeededTargets
  <1>1. ASSUME NEW ev \in MonitorEvents, db' = AfterMonitorEvent(db, ev), db' # Bail
        PROVE  NeededTargets(db') \subseteq NeededTargets(db)
    BY <1>t, <1>1, NeedsShrink
  <1>2. CASE db' = AfterOracleAttestation(db, Attestation) /\ db' # Bail
    <2>1. /\ db'.kind = db.kind
          /\ db'.cet \in {"Unprepared", "OracleSigned"} =>
                db.cet \in {"Unprepared", "OracleSigned"}
      BY <1>t, <1>2, StateCases
         DEF AfterOracleAttestation, PendingOpen, Open, PendingCommit,
             OpenCommitted, Variant, NoCet, BareKinds, CleanupKinds
    <2> QED BY <1>t, <2>1, Needs
  <1>3. CASE db' = AfterCommitTxSent(db) /\ db' # Bail
    <2>1. /\ db'.kind = "PendingCommit" /\ db.kind \in {"PendingOpen", "Open"}
          /\ db'.cet = NoCet
      BY <1>3 DEF AfterCommitTxSent, PendingCommit, Variant
    <2> QED BY <1>t, <2>1, Needs DEF NoCet
  <1>4. CASE db' = AfterCetSent(db) /\ db' # Bail
    <2>1. db'.kind = "PendingCet" /\ db'.cet = NoCet
      BY <1>4 DEF AfterCetSent, PendingCet, Variant
    <2> QED BY <1>t, <2>1, Needs DEF NoCet
  <1>5. ASSUME db.kind = "Open", NEW c \in Settlements, db' = AfterProposalSigned(db, c)
        PROVE  NeededTargets(db') \subseteq NeededTargets(db)
    <2>1. db'.kind = "Open" /\ db'.cet = NoCet
      BY <1>5 DEF AfterProposalSigned, Open, Variant
    <2> QED BY <1>t, <1>5, <2>1, Needs DEF NoCet
  <1>6. CASE db' = Bare("SetupFailed")
    <2>1. db'.kind = "SetupFailed" /\ db'.cet = NoCet
      BY <1>6 DEF Bare, Variant
    <2> QED BY <1>t, <2>1, Needs DEF NoCet
  <1> QED BY <1>0, <1>1, <1>2, <1>3, <1>4, <1>5, <1>6 DEF RecordStep

(* A handled event is not waited for any more, except for the refund's     *)
(* time lock in PendingCommit, which takes no notice of it.                *)
LEMMA HandledIsDone ==
    ASSUME NEW s \in CfdStates, NEW t \in NeededTargets(s),
           t = RefundTimelockPassed => s.kind # "PendingCommit"
    PROVE  /\ t.ev \in MonitorEvents
           /\ AfterMonitorEvent(s, t.ev) \notin {Bail, Ignored}
           /\ s.kind \notin FinalKinds
           /\ t \notin NeededTargets(AfterMonitorEvent(s, t.ev))
  <1> DEFINE o == AfterMonitorEvent(s, t.ev)
  <1>n. \/ t = Target("LockFinality") /\ s.kind = "PendingOpen"
        \/ /\ t = CommitFinality
           /\ s.kind \in {"PendingOpen", "Open", "PendingCommit"}
        \/ /\ t = Target("CetTimelockExpired")
           /\ \/ s.kind \in {"PendingOpen", "Open", "PendingCommit"}
              \/ s.kind = "OpenCommitted" /\ s.cet \in {"Unprepared", "OracleSigned"}
        \/ /\ t \in {RefundTimelockPassed, Target("RefundFinality")}
           /\ s.kind \in {"PendingOpen", "Open", "PendingCommit", "OpenCommitted"}
    BY Needs, StateCases DEF NoCet
  <1> USE StateCases DEF AfterMonitorEvent, Target, CommitFinality, RefundTimelockPassed,
          Variant, Bail, Ignored, Bare, NoCet, FinalKinds, MonitorEvents
  <1>1. CASE t = Target("LockFinality") /\ s.kind = "PendingOpen"
    <2>1. o = Open(s.dlc, None, None) /\ o.kind = "Open" /\ o.cet = NoCet
      BY <1>1 DEF AfterLockFinality, Open
    <2>2. t \notin NeededTargets(o)
      BY <1>1, <2>1 DEF NeededTargets
    <2> QED BY <1>1, <2>1, <2>2
  <1>2. CASE t = CommitFinality /\ s.kind \in {"PendingOpen", "Open", "PendingCommit"}
    <2>1. o.kind = "OpenCommitted" /\ o.cet \in {"Unprepared", "OracleSigned"}
      BY <1>2 DEF AfterCommitFinality, OpenCommitted
    <2>2. t \notin NeededTargets(o)
      BY <1>2, <2>1 DEF NeededTargets, RefundTargets
    <2> QED BY <1>2, <2>1, <2>2
  <1>3. CASE /\ t = Target("CetTimelockExpired")
             /\ \/ s.kind \in {"PendingOpen", "Open", "PendingCommit"}
                \/ s.kind = "OpenCommitted" /\ s.cet \in {"Unprepared", "OracleSigned"}
    <2>1. o.kind = "OpenCommitted" /\ o.cet \in {"Ready", "TimelockExpired"}
      BY <1>3 DEF AfterCetTimelockExpired, OpenCommitted
    <2>2. t \notin NeededTargets(o)
      BY <1>3, <2>1 DEF NeededTargets, RefundTargets
    <2> QED BY <1>3, <2>1, <2>2
  <1>4. CASE /\ t = RefundTimelockPassed
             /\ s.kind \in {"PendingOpen", "Open", "PendingCommit", "OpenCommitted"}
    <2>1. o.kind = "PendingRefund" /\ o.cet = NoCet
      BY <1>4 DEF AfterRefundTimelockExpired, PendingRefund
    <2>2. t \notin NeededTargets(o)
      BY <2>1 DEF NeededTargets
    <2> QED BY <1>4, <2>1, <2>2
  <1>5. CASE /\ t = Target("RefundFinality")
             /\ s.kind \in {"PendingOpen", "Open", "PendingCommit", "OpenCommitted"}
    <2>1. o.kind = "Refunded" /\ o.cet = NoCet
      BY <1>5 DEF AfterRefundFinality, HasDlc, Refunded
    <2>2. t \notin NeededTargets(o)
      BY <2>1 DEF NeededTargets
    <2> QED BY <1>5, <2>1, <2>2
  <1> QED BY <1>n, <1>1, <1>2, <1>3, <1>4, <1>5

(* Every target a restarted monitor needs is one it registers.             *)
LEMMA NeedsRegistered ==
    ASSUME NEW s \in CfdStates
    PROVE  NeededTargets(s) \subseteq TargetsAtStart(s)
  <1>1. s.cet \in {"Unprepared", "OracleSigned", "TimelockExpired", "Ready"} =>
            s.kind = "OpenCommitted"
    BY StateCases DEF NoCet
  <1>2. s.kind = "OpenCommitted" =>
            s.cet \in {"Unprepared", "OracleSigned", "TimelockExpired", "Ready"}
    BY StateCases DEF BareKinds, CleanupKinds
  <1>3. CASE s.kind \in {"PendingOpen", "Open", "PendingCommit"}
    BY <1>1, <1>3 DEF NeededTargets, TargetsAtStart
  <1>4. CASE s.kind = "OpenCommitted"
    BY <1>2, <1>4 DEF NeededTargets, TargetsAtStart, TimelockTargets, RefundTargets
  <1>5. CASE s.kind \notin {"PendingOpen", "Open", "PendingCommit", "OpenCommitted"}
    BY <1>1, <1>5 DEF NeededTargets
  <1> QED BY <1>3, <1>4, <1>5

LEMMA NeedsTyped ==
    ASSUME NEW s
    PROVE  NeededTargets(s) \subseteq MonitorAll /\ NeededTargets(s) \subseteq Targets
  <1>1. NeededTargets(s) \subseteq MonitorAll
    BY DEF NeededTargets, MonitorAll, TimelockTargets, RefundTargets
  <1> QED BY <1>1, TargetTypes

LEMMA BareStays ==
    ASSUME Typed, up, Follows, ~SetupCompleted, db.kind \in BareKinds
    PROVE  db' = db
  <1>t. db \in CfdStates /\ db.kind # "Open" /\ ~HasDlc(db)
    BY BareStatesStay DEF Typed, TypeOK, BareKinds, CleanupKinds
  <1>1. CASE MonitoringEvent
    <2>1. Head(cfdMail).target.ev \in MonitorEvents
      BY <1>1, HandlerMail, MailTypes
    <2>2. AfterMonitorEvent(db, Head(cfdMail).target.ev) = Bail
      BY <1>t, <2>1, BareStatesStay
    <2> QED BY <1>1, <2>2 DEF MonitoringEvent, HandleMail, Handle, Changed
  <1>2. CASE OracleAttestation
    BY <1>2, <1>t DEF OracleAttestation, HandleMail, Changed
  <1>3. CASE RecordCommit \/ RecordCet
    BY <1>3, <1>t, BareStatesStay DEF RecordCommit, RecordCet, Handle, Changed
  <1>4. ~InitiateSettlement /\ ~RecordClose /\ ~Restart
    BY <1>t DEF InitiateSettlement, RecordClose, Restart, Typed, Handlers
  <1>5. CASE \/ Monitor \/ NewAttestationFetched \/ Crash \/ PublishLock \/ PublishClose
    BY <1>5 DEF Monitor, MonitorMessage, Sync, SendEvent, actorVars,
                NewAttestationFetched, Crash, PublishLock, PublishClose
  <1> QED BY <1>1, <1>2, <1>3, <1>4, <1>5 DEF Follows, CfdActorHandler

LEMMA StateFollowedStep ==
    ASSUME Typed, Followed, [Next]_vars
    PROVE  StateFollowed'
  <1>s. StateFollowed /\ StartsOnce /\ Unwatched /\ InOrder /\ OneEvent /\ Down
    BY DEF Followed
  <1>t. db \in CfdStates /\ db' \in CfdStates
    BY TypedStep DEF Typed, TypeOK
  <1> SUFFICES ASSUME up', Watched', NEW t \in NeededTargets(db')
               PROVE  Covered(t)'
    BY DEF StateFollowed
  <1>1. CASE ~up
    <2>1. Rests => ~up'
      BY <1>1 DEF Rests
    <2>2. Restart
      BY <1>1, <1>s, <2>1, CrashEmpties, RestsOrFollows
    <2>3. awaiting' = TargetsAtStart(db')
      BY <2>2 DEF Restart
    <2>4. t \in awaiting'
      BY <1>t, <2>3, NeedsRegistered
    <2> QED BY <2>4 DEF Covered
  <1>2. CASE up /\ ~Watched
    <2>1. Rests => ~Watched'
      BY <1>2 DEF Rests, Watched
    <2>2. Follows
      BY <2>1, RestsOrFollows
    <2>3. Sent(StartMonitoring)'
      BY <1>2, <2>2, StartSteps DEF Watched, Sent, Holds
    <2>4. t \in MonitorAll
      BY NeedsTyped
    <2> QED BY <2>3, <2>4 DEF Covered, Sent, Holds
  <1>3. CASE up /\ Watched
    <2>1. ~SetupCompleted
      BY <1>s, <1>3 DEF SetupCompleted, StartsOnce, Watched, Sent, Holds
    <2>2. t \in NeededTargets(db)
      <3>1. CASE db = Bare("ContractSetup")
        <4>1. db.kind \in BareKinds
          BY <3>1 DEF Bare, Variant, BareKinds, CleanupKinds
        <4>2. db' = db
          BY <1>3, <2>1, <4>1, RestsOrFollows, BareStays DEF Rests
        <4> QED BY <4>2
      <3>2. CASE db # Bare("ContractSetup")
        BY <1>t, <3>2, RecordSteps, RecordsShrink
      <3> QED BY <3>1, <3>2
    <2>3. t \in Targets /\ Covered(t)
      BY <1>s, <1>3, <2>2, NeedsTyped DEF StateFollowed
    <2>4. ASSUME MonitoringEvent, Head(cfdMail) = EventMsg(t)
          PROVE  FALSE
      <3>1. Queued(EventMsg(t))
        BY <2>4, QueuedTail, HandlerMail
      <3>2. ASSUME t = RefundTimelockPassed, db.kind = "PendingCommit"
            PROVE  FALSE
        <4>1. CommitFinality \in NeededTargets(db)
          BY <1>t, <3>2, Needs
        <4>2. Covered(CommitFinality)
          BY <1>s, <1>3, <4>1 DEF StateFollowed
        <4>3. CommitFinality \notin awaiting /\ CommitFinality \notin reached
          BY <1>s, <3>1, <3>2 DEF InOrder, Undelivered, Queued, Holds
        <4>4. ~Queued(EventMsg(CommitFinality))
          <5>1. EventMsg(CommitFinality) \in EventMsgs /\ Head(cfdMail) \in EventMsgs
            BY <2>3, <2>4, <4>1, NeedsTyped DEF EventMsgs
          <5>2. ~Queued(EventMsg(CommitFinality))'
            BY <1>s, <2>4, <5>1, MailboxTypes, HandlerMail, AtMostOneTail
               DEF OneEvent, Queued
          <5>3. EventMsg(CommitFinality) # Head(cfdMail)
            BY <2>4, <3>2, Distinct DEF CommitFinality, RefundTimelockPassed, Target
          <5> QED BY <2>4, <5>2, <5>3, QueuedTail, HandlerMail
        <4>5. ~Sent(StartMonitoring)
          BY <1>s, <1>3, <2>3, <3>1 DEF Unwatched, StartsOnce
        <4> QED BY <4>2, <4>3, <4>4, <4>5 DEF Covered, Undelivered, Queued, Sent, Holds
      <3>3. db' = AfterMonitorEvent(db, t.ev) /\ t \notin NeededTargets(db')
        <4>1. /\ AfterMonitorEvent(db, t.ev) \notin {Bail, Ignored}
              /\ db.kind \notin FinalKinds
              /\ t \notin NeededTargets(AfterMonitorEvent(db, t.ev))
          BY <1>t, <2>2, <3>2, HandledIsDone
        <4>2. Head(cfdMail).target = t
          BY <2>4, Distinct
        <4>3. db' = AfterMonitorEvent(db, t.ev)
          BY <2>4, <4>1, <4>2 DEF MonitoringEvent, HandleMail, Handle, Changed
        <4> QED BY <4>1, <4>3
      <3> QED BY <3>3
    <2> QED BY <1>3, <2>3, <2>4, CoverStays
  <1> QED BY <1>1, <1>2, <1>3

(* The monitor learns of the attestation before anything is lost of it.    *)
LEMMA WayStays ==
    ASSUME Typed, [Next]_vars, up, up', Watched, CetFollowed
    PROVE  CetFollowed' \/ SendEvent(CetFinality)
  <1>m. monMail \in Seq(MonMsgs) /\ cfdMail \in Seq(CfdMsgs)
        /\ \A i \in DOMAIN monMail : i \in Nat
    BY MailboxTypes
  <1>0. CASE pending' \/ CetFinality \in awaiting' \cup reached'
    BY <1>0 DEF CetFollowed, OnItsWayToMonitor
  <1>1. CASE Rests
    <2>1. fetches > 0 => fetches' > 0
      <3>1. fetches \in Nat /\ fetches' \in Nat
        BY TypedStep, BoundAssumption DEF Typed, TypeOK
      <3> QED BY <1>1, <3>1 DEF Rests
    <2> QED BY <1>1, <2>1 DEF Rests, CetFollowed, OnItsWayToMonitor
  <1>2. CASE UNCHANGED <<watching, awaiting, reached, monMail, pending, fetches>>
    BY <1>2 DEF CetFollowed, OnItsWayToMonitor
  <1>3. ASSUME UNCHANGED <<watching, awaiting, reached, pending, fetches>>,
               NEW m \in MonMsgs, monMail' = Append(monMail, m)
        PROVE  CetFollowed'
    <2>1. \A i \in DOMAIN monMail : i \in DOMAIN monMail' /\ monMail'[i] = monMail[i]
      BY <1>m, <1>3, AppendHas
    <2> QED BY <1>3, <2>1 DEF CetFollowed, OnItsWayToMonitor
  <1>4. CASE MonitorMessage
    <2>1. /\ monMail # <<>> /\ monMail' = Tail(monMail)
          /\ awaiting \subseteq awaiting' /\ UNCHANGED <<reached, pending, fetches>>
      BY <1>4 DEF MonitorMessage, oracleVars
    <2>2. /\ 1 \in DOMAIN monMail /\ monMail[1] = Head(monMail)
          /\ \A i \in DOMAIN monMail :
                i = 1 \/ (i - 1 \in DOMAIN monMail' /\ monMail'[i - 1] = monMail[i])
          /\ \A i \in DOMAIN monMail : i \in Nat /\ i >= 1
      BY <1>m, <2>1, TailHas
    <2>3. /\ Head(monMail) = StartMonitoring => watching' = TRUE
          /\ Head(monMail) # StartMonitoring => watching' = watching
          /\ Head(monMail) = NewAttestation /\ watching => CetFinality \in awaiting'
      <3>1. Head(monMail) \in MonMsgs
        BY <1>m, <2>1, TailHas
      <3> QED BY <1>4, <3>1, Distinct DEF MonitorMessage, MonMsgs, CetFinality
    <2>4. CASE pending \/ fetches > 0 \/ CetFinality \in awaiting \cup reached
      BY <2>1, <2>4 DEF CetFollowed, OnItsWayToMonitor
    <2>5. ASSUME NEW j \in DOMAIN monMail, monMail[j] = NewAttestation,
                 \/ watching
                 \/ \E k \in DOMAIN monMail : k < j /\ monMail[k] = StartMonitoring
          PROVE  CetFollowed'
      <3>1. CASE j = 1
        <4>1. watching
          BY <2>2, <2>5, <3>1
        <4>2. Head(monMail) = NewAttestation
          BY <2>2, <2>5, <3>1
        <4>3. CetFinality \in awaiting'
          BY <2>3, <4>1, <4>2
        <4> QED BY <4>3 DEF CetFollowed
      <3>2. CASE j # 1
        <4>1. j - 1 \in DOMAIN monMail' /\ monMail'[j - 1] = NewAttestation
          BY <2>2, <2>5, <3>2
        <4>2. CASE watching'
          BY <4>1, <4>2 DEF CetFollowed, OnItsWayToMonitor
        <4>3. CASE ~watching'
          <5>1. ~watching /\ Head(monMail) # StartMonitoring
            BY <2>3, <4>3
          <5>2. PICK k \in DOMAIN monMail : k < j /\ monMail[k] = StartMonitoring
            BY <2>5, <5>1
          <5>3. k # 1
            BY <2>2, <5>1, <5>2
          <5>4. /\ k - 1 \in DOMAIN monMail' /\ monMail'[k - 1] = StartMonitoring
                /\ k - 1 < j - 1
            BY <2>2, <5>2, <5>3
          <5> QED BY <4>1, <5>4 DEF CetFollowed, OnItsWayToMonitor
        <4> QED BY <4>2, <4>3
      <3> QED BY <3>1, <3>2
    <2> QED BY <2>4, <2>5 DEF CetFollowed, OnItsWayToMonitor
  <1>5. CASE Sync
    <2>1. UNCHANGED <<watching, monMail, pending, fetches>>
          /\ awaiting \cup reached \subseteq awaiting' \cup reached'
      BY <1>5 DEF Sync, MonitorFree, oracleVars
    <2> QED BY <2>1 DEF CetFollowed, OnItsWayToMonitor
  <1>6. ASSUME NEW t \in reached, SendEvent(t), t # CetFinality
        PROVE  CetFollowed'
    <2>1. UNCHANGED <<watching, awaiting, monMail, pending, fetches>> /\ reached' = reached \ {t}
      BY <1>6 DEF SendEvent, oracleVars
    <2> QED BY <1>6, <2>1 DEF CetFollowed, OnItsWayToMonitor
  <1>7. CASE NewAttestationFetched
    <2>1. monMail' = Append(monMail, NewAttestation) /\ watching' = watching
      BY <1>7 DEF NewAttestationFetched
    <2>2. /\ \A i \in DOMAIN monMail : /\ i \in DOMAIN monMail' /\ monMail'[i] = monMail[i]
                                       /\ i < Len(monMail) + 1
          /\ Len(monMail) + 1 \in DOMAIN monMail'
          /\ monMail'[Len(monMail) + 1] = NewAttestation
      BY <1>m, <2>1, MailTypes, AppendHas
    <2>3. watching' \/ \E k \in DOMAIN monMail' :
                          k < Len(monMail) + 1 /\ monMail'[k] = StartMonitoring
      BY <2>1, <2>2 DEF Watched
    <2> QED BY <2>2, <2>3 DEF CetFollowed, OnItsWayToMonitor
  <1>8. Rests \/ Follows
    BY RestsOrFollows
  <1>9. MonitoringEvent \/ OracleAttestation =>
            UNCHANGED <<watching, awaiting, reached, monMail, pending, fetches>>
    BY HandlerMail
  <1> QED BY <1>0, <1>1, <1>2, <1>3, <1>4, <1>5, <1>6, <1>7, <1>8, <1>9, WatchSteps

LEMMA FetchedIsOnItsWay ==
    ASSUME Typed, [Next]_vars, up, up', Watched, NewAttestationFetched
    PROVE  CetFollowed'
  <1>1. pending \/ fetches > 0
    BY DEF NewAttestationFetched
  <1>2. CetFollowed
    BY <1>1 DEF CetFollowed, OnItsWayToMonitor
  <1>3. Append(cfdMail, AttestationMsg) # Append(cfdMail, EventMsg(CetFinality))
    <2>1. cfdMail \in Seq(CfdMsgs)
      BY MailboxTypes
    <2>2. EventMsg(CetFinality) \in CfdMsgs /\ AttestationMsg \in CfdMsgs
      BY MailTypes, TargetTypes DEF CetFinality
    <2> QED BY <2>1, <2>2, AppendHas, Distinct
  <1>4. ~SendEvent(CetFinality)
    BY <1>3 DEF NewAttestationFetched, SendEvent
  <1> QED BY <1>2, <1>4, WayStays

LEMMA EventsKeepDlc ==
    ASSUME NEW s \in CfdStates, NEW ev \in MonitorEvents
    PROVE  LET o == AfterMonitorEvent(s, ev)
           IN  HasDlc(o) => HasDlc(s) /\ (o.att # None => s.att # None)
  <1> USE StateCases DEF AfterMonitorEvent, Variant, Bail, Bare, NoCet, HasDlc,
                         BareKinds, CleanupKinds
  <1>1. CASE ev = "LockFinality"
    BY <1>1 DEF AfterLockFinality, Open
  <1>2. CASE ev = "CommitFinality"
    BY <1>2 DEF AfterCommitFinality, OpenCommitted
  <1>3. CASE ev = "CloseFinality"
    BY <1>3 DEF AfterCloseFinality, HasCollaborativeClose, ClosedCollaboratively
  <1>4. CASE ev = "CetTimelockExpired"
    BY <1>4 DEF AfterCetTimelockExpired, OpenCommitted
  <1>5. CASE ev = "RefundTimelockExpired"
    BY <1>5 DEF AfterRefundTimelockExpired, PendingRefund
  <1>6. CASE ev = "RefundFinality"
    BY <1>6 DEF AfterRefundFinality, Refunded
  <1>7. CASE ev = "CetFinality"
    BY <1>7 DEF AfterCetFinality, HasAttestation, ClosedByCet
  <1> QED BY <1>1, <1>2, <1>3, <1>4, <1>5, <1>6, <1>7 DEF MonitorEvents

(* Only the attestation itself makes an attested state of one that is not. *)
LEMMA DlcKept ==
    ASSUME Typed, up, ~SetupCompleted, Rests \/ Follows, HasDlc(db')
    PROVE  HasDlc(db) /\ (db'.att # None => db.att # None \/ OracleAttestation)
  <1>t. db \in CfdStates
    BY DEF Typed, TypeOK
  <1>1. CASE MonitoringEvent
    <2>1. Head(cfdMail).target.ev \in MonitorEvents
      BY <1>1, HandlerMail, MailTypes
    <2>2. db' = db \/ db' = AfterMonitorEvent(db, Head(cfdMail).target.ev)
      BY <1>1 DEF MonitoringEvent, HandleMail, Handle, Changed
    <2> QED BY <1>t, <2>1, <2>2, EventsKeepDlc
  <1>2. CASE OracleAttestation
    <2>1. HasDlc(db) \/ db' = db
      BY <1>2 DEF OracleAttestation, HandleMail, Changed
    <2> QED BY <1>2, <2>1
  <1>3. CASE RecordCommit \/ RecordCet
    <2>1. db' \in {db, AfterCommitTxSent(db), AfterCetSent(db)}
      BY <1>3 DEF RecordCommit, RecordCet, Handle, Changed
    <2> QED BY <2>1 DEF AfterCommitTxSent, AfterCetSent, PendingCommit, PendingCet,
                        Variant, Bail, Bare, HasDlc
  <1>4. CASE InitiateSettlement \/ RecordClose
    <2>1. db.kind = "Open" /\ db'.att = db.att
      BY <1>4, CloseJobs DEF InitiateSettlement, RecordClose, AfterProposalSigned,
         Open, Variant, Typed, Handlers
    <2> QED BY <2>1 DEF HasDlc
  <1>5. CASE \/ Monitor \/ NewAttestationFetched \/ Crash \/ PublishLock \/ PublishClose \/ Rests
    <2>1. db' = db
      BY <1>5 DEF Monitor, MonitorMessage, Sync, SendEvent, actorVars,
                  NewAttestationFetched, Crash, PublishLock, PublishClose, Rests
    <2> QED BY <2>1
  <1>6. ~Restart
    BY DEF Restart
  <1> QED BY <1>1, <1>2, <1>3, <1>4, <1>5, <1>6 DEF Follows, CfdActorHandler

LEMMA AttestationFollowedStep ==
    ASSUME Typed, Followed, [Next]_vars
    PROVE  AttestationFollowed'
  <1>s. AttestationFollowed /\ StartsOnce /\ Down
    BY DEF Followed
  <1>m. cfdMail \in Seq(CfdMsgs)
    BY MailboxTypes
  <1>f. Rests \/ Follows
    BY RestsOrFollows
  <1> DEFINE Later(i, mail) == \E j \in DOMAIN mail : j > i /\ mail[j] = EventMsg(CetFinality)
  <1> SUFFICES ASSUME up', Watched', HasDlc(db')
               PROVE  /\ db'.att # None => CetFollowed' \/ Queued(EventMsg(CetFinality))'
                      /\ \A i \in DOMAIN cfdMail' : cfdMail'[i] = AttestationMsg =>
                            CetFollowed' \/ Later(i, cfdMail')
    BY DEF AttestationFollowed, CetFinality
  <1>0. CASE CetFollowed'
    BY <1>0
  <1>1. CASE ~up
    <2>1. Rests => ~up'
      BY <1>1 DEF Rests
    <2>2. Restart
      BY <1>1, <1>f, <1>s, <2>1, CrashEmpties
    <2>3. pending' = HasDlc(db')
      BY <2>2 DEF Restart
    <2> QED BY <1>0, <2>3 DEF CetFollowed, OnItsWayToMonitor
  <1>2. CASE up /\ ~Watched
    <2>1. Rests => ~Watched'
      BY <1>2 DEF Rests, Watched
    <2>2. Sent(StartMonitoring)' /\ ~Sent(StartMonitoring)
      BY <1>2, <1>f, <2>1, StartSteps DEF Watched, Sent, Holds
    <2>3. pending'
      BY <1>2, <1>f, <2>1, <2>2, StartSteps
    <2> QED BY <1>0, <2>3 DEF CetFollowed, OnItsWayToMonitor
  <1>3. CASE up /\ Watched /\ ~CetFollowed'
    <2>1. ~SetupCompleted
      BY <1>s, <1>3 DEF SetupCompleted, StartsOnce, Watched, Sent, Holds
    <2>2. HasDlc(db) /\ (db'.att # None => db.att # None \/ OracleAttestation)
      BY <1>3, <1>f, <2>1, DlcKept
    <2>3. CetFollowed => SendEvent(CetFinality)
      BY <1>3, WayStays
    <2>4. /\ db.att # None => CetFollowed \/ Queued(EventMsg(CetFinality))
          /\ \A i \in DOMAIN cfdMail : cfdMail[i] = AttestationMsg =>
                CetFollowed \/ Later(i, cfdMail)
      BY <1>s, <1>3, <2>2 DEF AttestationFollowed
    <2>5. CASE MonitoringEvent \/ OracleAttestation
      <3>1. /\ cfdMail # <<>> /\ cfdMail' = Tail(cfdMail)
            /\ OracleAttestation => Head(cfdMail) = AttestationMsg
        BY <2>5, HandlerMail
      <3>2. ASSUME Head(cfdMail) = EventMsg(CetFinality), db.att # None
            PROVE  FALSE
        <4>1. MonitoringEvent /\ Head(cfdMail).target.ev = "CetFinality"
          BY <2>5, <3>1, <3>2, Distinct DEF CetFinality, Target
        <4>2. Handle(db, AfterMonitorEvent(db, Head(cfdMail).target.ev)) = ClosedByCet(db.att)
          BY <2>2, <3>2, <4>1
             DEF Handle, AfterMonitorEvent, AfterCetFinality, HasAttestation, HasDlc, FinalKinds
        <4>3. Changed(ClosedByCet(db.att)) /\ ~HasDlc(ClosedByCet(db.att))
          BY DEF Changed, ClosedByCet, Bail, Ignored, Bare, Variant, HasDlc
        <4>4. db' = ClosedByCet(db.att)
          BY <4>1, <4>2, <4>3 DEF MonitoringEvent, HandleMail
        <4> QED BY <4>3, <4>4
      <3>3. ~CetFollowed
        <4>1. EventMsg(CetFinality) \in CfdMsgs
          BY MailTypes, TargetTypes DEF CetFinality
        <4>2. Len(Append(cfdMail, EventMsg(CetFinality))) # Len(Tail(cfdMail))
          BY <1>m, <3>1, <4>1
        <4> QED BY <2>3, <3>1, <4>2 DEF SendEvent
      <3>4. /\ 1 \in DOMAIN cfdMail /\ cfdMail[1] = Head(cfdMail)
            /\ \A i \in DOMAIN cfdMail :
                  i = 1 \/ (i - 1 \in DOMAIN cfdMail' /\ cfdMail'[i - 1] = cfdMail[i])
            /\ \A i \in DOMAIN cfdMail' : i + 1 \in DOMAIN cfdMail /\ cfdMail'[i] = cfdMail[i + 1]
            /\ \A i \in DOMAIN cfdMail : i \in Nat /\ i >= 1
            /\ \A i \in DOMAIN cfdMail' : i \in Nat /\ i >= 1
        BY <1>m, <3>1, TailHas
      <3>5. ASSUME db'.att # None
            PROVE  Queued(EventMsg(CetFinality))'
        <4>1. CASE OracleAttestation
          <5>1. cfdMail[1] = AttestationMsg
            BY <3>1, <3>4, <4>1
          <5>2. Later(1, cfdMail)
            BY <2>4, <3>3, <3>4, <5>1
          <5>3. Queued(EventMsg(CetFinality)) /\ Head(cfdMail) # EventMsg(CetFinality)
            BY <3>1, <4>1, <5>2, Distinct DEF Queued, Holds
          <5> QED BY <3>1, <5>3, QueuedTail
        <4>2. CASE ~OracleAttestation
          <5>1. db.att # None
            BY <2>2, <3>5, <4>2
          <5>2. Queued(EventMsg(CetFinality))
            BY <2>4, <3>3, <5>1
          <5> QED BY <3>1, <3>2, <5>1, <5>2, QueuedTail
        <4> QED BY <4>1, <4>2
      <3>6. ASSUME NEW i \in DOMAIN cfdMail', cfdMail'[i] = AttestationMsg
            PROVE  Later(i, cfdMail')
        <4>1. i + 1 \in DOMAIN cfdMail /\ cfdMail[i + 1] = AttestationMsg
          BY <3>4, <3>6
        <4>2. PICK j \in DOMAIN cfdMail : j > i + 1 /\ cfdMail[j] = EventMsg(CetFinality)
          BY <2>4, <3>3, <4>1
        <4>3. i \in Nat /\ j \in Nat /\ i >= 1 /\ j # 1 /\ j - 1 > i
          BY <3>4, <4>2
        <4>4. j - 1 \in DOMAIN cfdMail' /\ cfdMail'[j - 1] = EventMsg(CetFinality)
          BY <3>4, <4>2, <4>3
        <4> QED BY <4>3, <4>4
      <3> QED BY <3>5, <3>6
    <2>6. CASE cfdMail' = cfdMail
      <3>1. ~SendEvent(CetFinality)
        <4>1. EventMsg(CetFinality) \in CfdMsgs
          BY MailTypes, TargetTypes DEF CetFinality
        <4>2. Len(Append(cfdMail, EventMsg(CetFinality))) # Len(cfdMail)
          BY <1>m, <4>1
        <4> QED BY <2>6, <4>2 DEF SendEvent
      <3>2. ~OracleAttestation
        <4>1. OracleAttestation => cfdMail # <<>> /\ cfdMail' = Tail(cfdMail)
          BY HandlerMail
        <4>2. cfdMail # <<>> => Len(Tail(cfdMail)) # Len(cfdMail)
          BY <1>m
        <4> QED BY <2>6, <4>1, <4>2
      <3> QED BY <2>2, <2>3, <2>4, <2>6, <3>1, <3>2 DEF Queued
    <2>7. ASSUME NEW t \in reached, SendEvent(t)
          PROVE  /\ db'.att # None => Queued(EventMsg(CetFinality))'
                 /\ \A i \in DOMAIN cfdMail' : cfdMail'[i] = AttestationMsg => Later(i, cfdMail')
      <3>1. cfdMail' = Append(cfdMail, EventMsg(t)) /\ db' = db /\ EventMsg(t) \in CfdMsgs
        BY <2>7, MailTypes DEF SendEvent, Typed, TypeOK
      <3>2. /\ \A i \in DOMAIN cfdMail : /\ i \in DOMAIN cfdMail' /\ cfdMail'[i] = cfdMail[i]
                                         /\ i < Len(cfdMail) + 1
            /\ Len(cfdMail) + 1 \in DOMAIN cfdMail' /\ cfdMail'[Len(cfdMail) + 1] = EventMsg(t)
            /\ \A i \in DOMAIN cfdMail' : i \in DOMAIN cfdMail \/ cfdMail'[i] = EventMsg(t)
        BY <1>m, <3>1, AppendHas
      <3>3. CetFollowed => t = CetFinality
        <4>1. EventMsg(CetFinality) \in CfdMsgs
          BY MailTypes, TargetTypes DEF CetFinality
        <4>2. SendEvent(CetFinality) => EventMsg(t) = EventMsg(CetFinality)
          <5>1. Append(cfdMail, EventMsg(t)) = Append(cfdMail, EventMsg(CetFinality)) =>
                    EventMsg(t) = EventMsg(CetFinality)
            BY <1>m, <3>1, <4>1, AppendHas
          <5> QED BY <3>1, <5>1 DEF SendEvent
        <4> QED BY <2>3, <4>2, Distinct
      <3>4. \A x : Queued(x) \/ x = EventMsg(t) => Queued(x)'
        BY <3>1, QueuedAppend
      <3>5. ASSUME NEW i \in DOMAIN cfdMail', cfdMail'[i] = AttestationMsg
            PROVE  Later(i, cfdMail')
        <4>1. i \in DOMAIN cfdMail /\ cfdMail[i] = AttestationMsg
          BY <3>2, <3>5, Distinct
        <4>2. CASE CetFollowed
          <5>1. cfdMail'[Len(cfdMail) + 1] = EventMsg(CetFinality) /\ Len(cfdMail) + 1 > i
            BY <1>m, <3>2, <3>3, <4>1, <4>2
          <5> QED BY <3>2, <5>1
        <4>3. CASE Later(i, cfdMail)
          BY <3>2, <4>3
        <4> QED BY <2>4, <4>1, <4>2, <4>3
      <3> QED BY <2>4, <3>1, <3>3, <3>4, <3>5
    <2>8. ~NewAttestationFetched
      BY <1>3, FetchedIsOnItsWay
    <2>9. Rests \/ MonitorMessage \/ Sync => cfdMail' = cfdMail
      BY DEF Rests, MonitorMessage, Sync, actorVars
    <2> QED BY <1>3, <1>f, <2>5, <2>6, <2>7, <2>8, <2>9, WatchSteps
  <1> QED BY <1>0, <1>1, <1>2, <1>3

(* The steps that bring a close on the chain, or a close into the database *)
(* of an open CFD.                                                         *)
LEMMA OthersStay ==
    ASSUME tx \in [Txs -> Statuses], NEW t \in Txs, NEW c \in Txs, t # c,
           BroadcastOk(t) \/ BroadcastErr(t)
    PROVE  Seen(c)' = Seen(c)
  BY DEF BroadcastOk, BroadcastErr, Seen, chainVars

LEMMA CloseOnChain ==
    ASSUME Typed, released = {}, [Next]_vars, NEW c \in Settlements, ~Seen(c), Seen(c)'
    PROVE  PublishClose /\ job.close = c
  <1>t. /\ tx \in [Txs -> Statuses] /\ c \in Txs
        /\ {"lock", "commit", "cet", "refund"} \subseteq Txs
        /\ c \notin {"lock", "commit", "cet", "refund"}
    BY SettlementTxs DEF Typed, TypeOK, Statuses, Txs
  <1>0. tx' # tx
    BY DEF Seen
  <1>1. CASE PublishClose
    <2>1. job.close \in Settlements /\ job.close \in Txs
      BY <1>1, CloseJobs DEF PublishClose, Typed, TypeOK, Txs
    <2>2. BroadcastOk(job.close) \/ BroadcastErr(job.close)
      BY <1>1 DEF PublishClose
    <2> QED BY <1>t, <1>1, <2>1, <2>2, OthersStay
  <1>2. ~PublishLock /\ ~Commit /\ ~PublishCet /\ ~PublishRefund
    BY <1>t, OthersStay DEF PublishLock, Commit, PublishCet, PublishRefund
  <1>3. ~Restart
    <2>1. \A t \in Rebroadcasts(db) : t \in {"lock", "commit", "cet", "refund"}
      BY DEF Rebroadcasts
    <2> QED BY <1>0, <1>t, <2>1, OthersStay DEF Restart, chainVars
  <1>4. ~World
    <2>1. ~Mine
      BY <1>t DEF Mine, Seen
    <2>2. \A t \in Txs : ~CounterpartyPublishes(t)
      BY <1>t DEF CounterpartyPublishes, CounterpartyCanPublish, Seen
    <2>3. ~Attest
      BY <1>0 DEF Attest, chainVars
    <2> QED BY <2>1, <2>2, <2>3 DEF World
  <1>5. /\ ~CfdActorHandler /\ ~Monitor /\ ~Oracle /\ ~Crash /\ ~UNCHANGED vars
        /\ ~RecordCommit /\ ~RecordCet /\ ~RecordClose
    BY <1>0 DEF CfdActorHandler, SetupCompleted, MonitoringEvent, OracleAttestation,
        HandleMail, Monitor, MonitorMessage, Sync, SendEvent, Oracle,
        FetchAttestation, NewAttestationFetched, Crash, vars, chainVars,
        RecordCommit, RecordCet, RecordClose
  <1>6. UserAndPeer => Commit
    BY <1>0 DEF UserAndPeer, SignLock, InitiateSettlement, SettlementAccepted,
        SettlementRejected, ProposeSettlement, chainVars
  <1> QED BY <1>1, <1>2, <1>3, <1>4, <1>5, <1>6 DEF Next, CfdActorJob

LEMMA FailuresGrow ==
    ASSUME Typed, [Next]_vars, failures' = 0
    PROVE  failures = 0
  <1>f. failures \in Nat
    BY BoundAssumption DEF Typed, TypeOK
  <1>b. \A t : BroadcastOk(t) \/ BroadcastErr(t) => failures' \in {failures, failures + 1}
    BY DEF BroadcastOk, BroadcastErr
  <1>1. failures' = failures \/ failures' = failures + 1
    BY <1>b DEF Next, CfdActorHandler, SetupCompleted, MonitoringEvent,
       OracleAttestation, HandleMail, Monitor, MonitorMessage, Sync, SendEvent,
       Oracle, FetchAttestation, NewAttestationFetched, Crash, vars, CfdActorJob,
       RecordCommit, RecordCet, RecordClose, UserAndPeer, SignLock,
       InitiateSettlement, SettlementAccepted, SettlementRejected,
       ProposeSettlement, PublishLock, Commit, PublishCet, PublishRefund,
       PublishClose, Restart, World, Mine, Attest, CounterpartyPublishes
  <1> QED BY <1>f, <1>1

LEMMA CloseRecorded ==
    ASSUME Typed, up, up', [Next]_vars, db'.kind = "Open", db'.cc # None,
           ~RecordClose, ~InitiateSettlement
    PROVE  /\ db.kind = "Open" /\ db'.cc = db.cc
           /\ ~(MonitoringEvent /\ Head(cfdMail) = EventMsg(CloseTarget(db.cc)))
  <1>t. db \in CfdStates
    BY DEF Typed, TypeOK
  <1>1. CASE MonitoringEvent
    <2> DEFINE ev == Head(cfdMail).target.ev
               o  == AfterMonitorEvent(db, ev)
    <2>1. ev \in MonitorEvents
      BY <1>1, HandlerMail, MailTypes
    <2>2. db.kind \in FinalKinds => db' = db
      BY <1>1 DEF MonitoringEvent, HandleMail, Handle, Changed
    <2>3. db.kind \notin FinalKinds /\ o \notin {Bail, Ignored} => db' = o
      BY <1>1 DEF MonitoringEvent, HandleMail, Handle, Changed
    <2>4. db' \in {db, o}
      BY <1>1 DEF MonitoringEvent, HandleMail, Handle, Changed
    <2>5. ASSUME o.kind = "Open", o.cc # None
          PROVE  db.kind = "Open" /\ o.cc = db.cc /\ ev # "CloseFinality"
      <3> HIDE DEF ev
      <3>1. ev # "CloseFinality"
        BY <2>5 DEF AfterMonitorEvent, AfterCloseFinality, ClosedCollaboratively,
            Variant, Bail, Bare
      <3>2. ev = "LockFinality"
        BY <2>1, <2>5 DEF AfterMonitorEvent, MonitorEvents, AfterCommitFinality,
           AfterCloseFinality, AfterCetTimelockExpired,
           AfterRefundTimelockExpired, AfterRefundFinality, AfterCetFinality,
           OpenCommitted, ClosedCollaboratively, PendingRefund, Refunded,
           ClosedByCet, Variant, Bail, Bare
      <3>3. o = AfterLockFinality(db)
        BY <3>2 DEF AfterMonitorEvent
      <3>4. o = Open(db.dlc, None, None) \/ o = db \/ o = Bail
        BY <3>3 DEF AfterLockFinality
      <3> QED BY <2>5, <3>1, <3>4 DEF Open, Variant, Bail, Bare
    <2>6. ASSUME Head(cfdMail) = EventMsg(CloseTarget(db.cc)), db.kind = "Open", db.cc # None
          PROVE  FALSE
      <3>1. ev = "CloseFinality"
        BY <2>6 DEF EventMsg, CloseTarget
      <3>2. o = ClosedCollaboratively(db.cc)
        BY <2>6, <3>1 DEF AfterMonitorEvent, AfterCloseFinality, HasCollaborativeClose
      <3>3. /\ o \notin {Bail, Ignored} /\ o.kind = "Closed"
            /\ db.kind \notin FinalKinds
        BY <2>6, <3>2 DEF ClosedCollaboratively, Variant, Bail, Ignored, Bare, FinalKinds
      <3> QED BY <2>3, <3>3
    <2> HIDE DEF ev, o
    <2> QED BY <2>4, <2>5, <2>6
  <1>2. CASE OracleAttestation
    <2>1. db' = db \/ db' = AfterOracleAttestation(db, Attestation)
      BY <1>2 DEF OracleAttestation, HandleMail, Handle, Changed
    <2>2. db.kind = "Open"
      BY <1>2, OpenedByLock
    <2>3. AfterOracleAttestation(db, Attestation).cc = None
      BY <1>t, <2>2, StateCases DEF AfterOracleAttestation, Open, Variant, NoCet
    <2>4. ~MonitoringEvent
      BY <1>2, HandlerMail, Distinct, MailTypes
    <2> QED BY <2>1, <2>2, <2>3, <2>4
  <1>3. CASE SetupCompleted
    BY <1>3 DEF SetupCompleted, PendingOpen, Bare, Variant
  <1>4. CASE RecordCommit \/ RecordCet
    <2>1. db' \in {db, AfterCommitTxSent(db), AfterCetSent(db)}
      BY <1>4 DEF RecordCommit, RecordCet, Handle, Changed
    <2>2. db' = db
      BY <2>1 DEF AfterCommitTxSent, AfterCetSent, PendingCommit, PendingCet,
                  Variant, Bail, Bare
    <2>3. ~MonitoringEvent
      BY <1>4, JobTypes DEF MonitoringEvent, CanStart, RecordCommit, RecordCet
    <2> QED BY <2>2, <2>3
  <1>5. CASE Rests /\ ~MonitoringEvent
    BY <1>5 DEF Rests
  <1>6. CASE \/ Monitor \/ NewAttestationFetched \/ Crash \/ Restart
             \/ PublishLock \/ PublishClose
    <2>1. ~Crash /\ ~Restart
      BY DEF Crash, Restart
    <2>2. db' = db
      BY <1>6, <2>1 DEF Monitor, MonitorMessage, Sync, SendEvent,
          NewAttestationFetched, PublishLock, PublishClose
    <2>3. CASE ~MonitoringEvent
      BY <2>2, <2>3
    <2>4. CASE MonitoringEvent
      BY <1>1, <2>4
    <2> QED BY <2>3, <2>4
  <1> QED BY <1>1, <1>2, <1>3, <1>4, <1>5, <1>6, RestsOrFollows
          DEF Follows, CfdActorHandler

(* A close sent to the monitor arrives, and one that is being published    *)
(* is until the handler ends.                                              *)
LEMMA ClosesHandedOn ==
    ASSUME Typed, [Next]_vars, up, up', NEW c \in Settlements, Sent(MonitorClose(c))
    PROVE  Sent(MonitorClose(c))' \/ CloseTarget(c) \in awaiting'
  <1>1. CASE monMail' = monMail
    BY <1>1 DEF Sent
  <1>2. ASSUME NEW m \in MonMsgs, monMail' = Append(monMail, m)
        PROVE  Sent(MonitorClose(c))'
    BY <1>2, SentAppend
  <1>3. CASE MonitorMessage
    <2>1. monMail # <<>> /\ monMail' = Tail(monMail)
      BY <1>3 DEF MonitorMessage
    <2>2. MonitorClose(c) = Head(monMail) => CloseTarget(c) \in awaiting'
      BY <1>3, Distinct DEF MonitorMessage
    <2> QED BY <2>1, <2>2, SentTail
  <1>4. \/ Rests \/ MonitoringEvent \/ OracleAttestation \/ Sync
        \/ \E t \in reached : SendEvent(t)
        => monMail' = monMail
    BY HandlerMail DEF Rests, Sync, SendEvent
  <1>5. NewAttestationFetched => monMail' = Append(monMail, NewAttestation)
    BY DEF NewAttestationFetched
  <1> QED BY <1>1, <1>2, <1>3, <1>4, <1>5, RestsOrFollows, WatchSteps, MailTypes

LEMMA PublishingStays ==
    ASSUME Typed, [Next]_vars, up, up', NEW c \in Settlements,
           job = JobOf("publishClose", c), ~(PublishClose /\ job.close = c)
    PROVE  job' = job
  <1>1. /\ job.step = "publishClose" /\ job.close = c
        /\ job # Idle
        /\ \A st \in {"publishLock", "recordCommit", "publishCet", "recordCet",
                      "publishRefund"} : job # Job(st)
    BY JobTypes
  <1>2. ~CfdActorHandler /\ ~CfdActorJob /\ ~Crash /\ ~Restart
    BY <1>1 DEF CfdActorHandler, SetupCompleted, MonitoringEvent,
       OracleAttestation, CanStart, CfdActorJob, PublishLock, RecordCommit,
       PublishCet, RecordCet, PublishRefund, RecordClose, Crash, Restart
  <1>3. UserAndPeer => job' = job
    BY <1>1 DEF UserAndPeer, SignLock, Commit, InitiateSettlement, CanStart,
       SettlementAccepted, SettlementRejected, ProposeSettlement, actorVars
  <1>4. Monitor \/ Oracle \/ World \/ UNCHANGED vars => job' = job
    BY DEF Monitor, MonitorMessage, Sync, SendEvent, Oracle, FetchAttestation,
       NewAttestationFetched, World, Mine, Attest, CounterpartyPublishes, vars,
       actorVars
  <1> QED BY <1>2, <1>3, <1>4 DEF Next

LEMMA CloseFollowedStep ==
    ASSUME Typed, Followed, [Next]_vars
    PROVE  CloseFollowed'
  <1>s. CloseFollowed /\ Unwatched /\ Down
    BY DEF Followed
  <1>f. Rests \/ Follows
    BY RestsOrFollows
  <1>r. Role = "maker" => released = {} /\ released' = {}
    <2>1. SettlementAccepted => Role # "maker"
      BY DEF SettlementAccepted
    <2>2. ~SettlementAccepted => released' = released
      BY DEF Next, CfdActorHandler, SetupCompleted, MonitoringEvent,
         OracleAttestation, HandleMail, Monitor, MonitorMessage, Sync, SendEvent,
         Oracle, FetchAttestation, NewAttestationFetched, Crash, vars, CfdActorJob,
         RecordCommit, RecordCet, RecordClose, UserAndPeer, SignLock,
         InitiateSettlement, SettlementRejected, ProposeSettlement, PublishLock,
         Commit, PublishCet, PublishRefund, PublishClose, Restart, World, Mine,
         Attest, CounterpartyPublishes, worldVars
    <2> QED BY <1>s, <2>1, <2>2 DEF CloseFollowed
  <1>p. job'.step = "publishClose" => Role = "maker"
    <2>1. Rests => (job'.step = "publishClose" => job' = job)
      BY DEF Rests
    <2>2. InitiateSettlement => Role = "maker"
      BY DEF InitiateSettlement
    <2> QED BY <1>f, <1>s, <2>1, <2>2, FollowJobs DEF CloseFollowed
  <1> SUFFICES ASSUME NEW c \in Settlements, up', db'.kind = "Open", db'.cc = c,
                      failures' = 0, Seen(c)' \/ Role = "taker"
               PROVE  FollowedClose(c)'
    BY <1>r, <1>p DEF CloseFollowed
  <1>c. c # None
    BY NoneAssumption
  <1>1. CASE ~up
    <2>1. Restart
      BY <1>1, <1>s, <1>f, CrashEmpties DEF Rests
    <2>2. awaiting' = TargetsAtStart(db')
      BY <2>1 DEF Restart
    <2>3. db'.cet = NoCet
      BY TypedStep, StateCases DEF Typed, TypeOK, BareKinds, CleanupKinds
    <2>4. CloseTarget(c) \in awaiting'
      BY <1>c, <2>2, <2>3 DEF TargetsAtStart, NoCet
    <2> QED BY <2>4 DEF FollowedClose, Covered
  <1>2. CASE RecordClose
    <2>1. db.kind = "Open" /\ job.close \in Settlements
      BY <1>2, CloseJobs DEF RecordClose, Typed, TypeOK, Handlers
    <2>2. c = job.close
      BY <1>2, <2>1 DEF RecordClose, AfterProposalSigned, Open, Variant
    <2>3. monMail' = Append(monMail, MonitorClose(c)) /\ MonitorClose(c) \in MonMsgs
      BY <1>2, <2>1, <2>2, MailTypes DEF RecordClose
    <2>4. Sent(MonitorClose(c))'
      BY <2>3, SentAppend
    <2> QED BY <2>4 DEF FollowedClose
  <1>3. CASE InitiateSettlement
    <2>1. c = proposal /\ job' = JobOf("publishClose", proposal)
      BY <1>3 DEF InitiateSettlement, AfterProposalSigned, Open, Variant
    <2> QED BY <2>1 DEF FollowedClose
  <1>4. CASE up /\ ~RecordClose /\ ~InitiateSettlement
    <2>1. /\ db.kind = "Open" /\ db.cc = c
          /\ ~(MonitoringEvent /\ Head(cfdMail) = EventMsg(CloseTarget(c)))
      BY <1>4, <1>c, CloseRecorded
    <2>2. failures = 0
      BY FailuresGrow
    <2>3. CASE PublishClose /\ job.close = c
      <3>1. Role = "maker" /\ Seen(c)'
        BY <1>s, <2>3, RoleAssumption DEF CloseFollowed, PublishClose
      <3>2. ~(BroadcastErr(c) /\ monMail' = monMail)
        <4>1. tx' = tx /\ ~Seen(c) => ~(Seen(c)')
          BY DEF Seen
        <4>2. failures' # failures + 1
          BY <2>2
        <4> QED BY <3>1, <4>1, <4>2 DEF BroadcastErr, chainVars
      <3>3. monMail' = Append(monMail, MonitorClose(c)) /\ MonitorClose(c) \in MonMsgs
        BY <1>c, <2>3, <3>2, MailTypes DEF PublishClose
      <3>4. Sent(MonitorClose(c))'
        BY <3>3, SentAppend
      <3> QED BY <3>4 DEF FollowedClose
    <2>4. CASE ~(PublishClose /\ job.close = c)
      <3>1. Seen(c) \/ Role = "taker"
        BY <1>c, <1>r, <2>1, <2>4, CloseOnChain, RoleAssumption DEF Seen
      <3>2. FollowedClose(c)
        BY <1>4, <1>c, <1>s, <2>1, <2>2, <3>1 DEF CloseFollowed
      <3>3. CASE Covered(CloseTarget(c))
        <4>1. Covered(CloseTarget(c))'
          BY <1>4, <1>c, <2>1, <3>3, CoverStays, TargetTypes
        <4> QED BY <4>1 DEF FollowedClose
      <3>4. CASE Sent(MonitorClose(c))
        <4>1. Sent(MonitorClose(c))' \/ CloseTarget(c) \in awaiting'
          BY <1>4, <1>c, <1>f, <1>s, <3>4, ClosesHandedOn
        <4> QED BY <4>1 DEF FollowedClose, Covered
      <3>5. CASE job = JobOf("publishClose", c)
        <4>1. job' = job
          BY <1>4, <2>4, <3>5, PublishingStays
        <4> QED BY <3>5, <4>1 DEF FollowedClose
      <3> QED BY <3>2, <3>3, <3>4, <3>5 DEF FollowedClose
    <2> QED BY <2>3, <2>4
  <1> QED BY <1>1, <1>2, <1>3, <1>4

LEMMA FollowedStep == Typed /\ Followed /\ [Next]_vars => Followed'
  <1> SUFFICES ASSUME Typed, Followed, [Next]_vars
               PROVE  Followed'
    OBVIOUS
  <1>1. Down /\ OneEvent
    BY DEF Followed
  <1>2. Down' /\ OneEvent'
    BY <1>1, DownStep, OneEventStep
  <1>3. StartsOnce' /\ Unwatched' /\ InOrder'
    BY StartsOnceStep, UnwatchedStep, InOrderStep
  <1>4. StateFollowed' /\ AttestationFollowed' /\ CloseFollowed'
    BY StateFollowedStep, AttestationFollowedStep, CloseFollowedStep
  <1> QED BY <1>2, <1>3, <1>4 DEF Followed

(* What is followed is covered, by what still has to be reported.          *)
LEMMA FollowedImplies ==
    ASSUME Typed, Followed
    PROVE  EventsCovered
  <1> SUFFICES ASSUME up, Watched
               PROVE  /\ db.kind = "PendingOpen" => Covered(Target("LockFinality"))
                      /\ db.kind \in {"PendingOpen", "Open", "PendingCommit"} =>
                            \A t \in MonitorAll \ {Target("LockFinality")} : Covered(t)
                      /\ db.cet \in {"Unprepared", "OracleSigned"} =>
                            Covered(Target("CetTimelockExpired"))
                      /\ db.kind = "OpenCommitted" => \A t \in RefundTargets : Covered(t)
                      /\ db.att # None /\ db.kind # "Closed" =>
                            Covered(CetFinality) \/ AttestationOnItsWay
                      /\ db.kind = "Open" /\ db.cc # None /\ Seen(db.cc) /\ failures = 0 =>
                            \/ Covered(CloseTarget(db.cc))
                            \/ job = JobOf("publishClose", db.cc)
                            \/ Sent(MonitorClose(db.cc))
    BY DEF EventsCovered, CetFinality, Sent, Holds
  <1>t. db \in CfdStates
    BY DEF Typed, TypeOK
  <1>s. \A t \in NeededTargets(db) : Covered(t)
    BY DEF Followed, StateFollowed
  <1>1. db.kind = "PendingOpen" => Target("LockFinality") \in NeededTargets(db)
    BY <1>t, Needs
  <1>2. ASSUME db.kind \in {"PendingOpen", "Open", "PendingCommit"},
               NEW t \in MonitorAll, t # Target("LockFinality")
        PROVE  t \in NeededTargets(db)
    BY <1>t, <1>2, Needs DEF MonitorAll, TimelockTargets, RefundTargets,
       CommitFinality, RefundTimelockPassed
  <1>3. db.cet \in {"Unprepared", "OracleSigned"} =>
            Target("CetTimelockExpired") \in NeededTargets(db)
    BY <1>t, Needs
  <1>4. db.kind = "OpenCommitted" => RefundTargets \subseteq NeededTargets(db)
    BY <1>t, Needs DEF RefundTargets, RefundTimelockPassed
  <1>5. ASSUME db.att # None, db.kind # "Closed"
        PROVE  Covered(CetFinality) \/ AttestationOnItsWay
    <2>1. HasDlc(db)
      BY <1>t, <1>5, StateCases DEF HasDlc, BareKinds, CleanupKinds
    <2>2. CetFollowed \/ Queued(EventMsg(CetFinality))
      BY <1>5, <2>1 DEF Followed, AttestationFollowed
    <2> QED BY <2>2 DEF CetFollowed, OnItsWayToMonitor, AttestationOnItsWay,
                        Covered, Undelivered, Queued, Holds
  <1>6. ASSUME db.kind = "Open", db.cc # None, Seen(db.cc), failures = 0
        PROVE  \/ Covered(CloseTarget(db.cc))
               \/ job = JobOf("publishClose", db.cc)
               \/ Sent(MonitorClose(db.cc))
    <2>1. db.cc \in Settlements
      BY <1>t, <1>6, StateCases DEF Option
    <2>2. FollowedClose(db.cc)
      BY <1>6, <2>1 DEF Followed, CloseFollowed
    <2> QED BY <2>2 DEF FollowedClose
  <1> QED BY <1>s, <1>1, <1>2, <1>3, <1>4, <1>5, <1>6

(* In every state of every run that watches a CFD, each chain event that   *)
(* can still move it is registered with the monitor, reported but not yet  *)
(* handled, or about to be registered (monitor.rs, Actor::new and          *)
(* handle_start_monitoring; the exception is a close that failed to be     *)
(* published).                                                             *)
THEOREM EventsAreCovered == Spec => []EventsCovered
  <1>1. Init => Typed /\ Followed
    BY TypedInit, FollowedInit
  <1>2. Typed /\ Followed /\ [Next]_vars => (Typed /\ Followed)'
    BY TypedStep, FollowedStep
  <1>3. Typed /\ Followed => EventsCovered
    BY FollowedImplies
  <1> QED BY <1>1, <1>2, <1>3, PTL DEF Spec

-----------------------------------------------------------------------------
(* A mature, attested contract is not given up for a refund: in a run      *)
(* without crash and failed broadcast the CET is tried as soon as the      *)
(* state says Ready, before the next event is handled, and is refused only *)
(* where the refund came first.                                            *)

Undisturbed == crashes = 0 /\ failures = 0

PayoutTried ==
    Undisturbed /\ db.cet = "Ready" =>
        job = Job("publishCet") \/ Seen("cet") \/ Seen("refund")

LEMMA StaysUndisturbed ==
    ASSUME Typed, [Next]_vars, Undisturbed'
    PROVE  Undisturbed /\ ~Crash
  <1>1. failures = 0
    BY FailuresGrow DEF Undisturbed
  <1>c. crashes \in Nat
    BY BoundAssumption DEF Typed, TypeOK
  <1>2. ~Crash
    BY <1>c DEF Undisturbed, Crash
  <1>3. ~Crash => crashes' = crashes
    BY DEF Next, CfdActorHandler, SetupCompleted, MonitoringEvent,
       OracleAttestation, HandleMail, Monitor, MonitorMessage, Sync, SendEvent,
       Oracle, FetchAttestation, NewAttestationFetched, vars, CfdActorJob,
       RecordCommit, RecordCet, RecordClose, UserAndPeer, SignLock,
       InitiateSettlement, SettlementAccepted, SettlementRejected,
       ProposeSettlement, PublishLock, Commit, PublishCet, PublishRefund,
       PublishClose, Restart, World, Mine, Attest, CounterpartyPublishes, worldVars
  <1> QED BY <1>1, <1>2, <1>3 DEF Undisturbed

(* The step that makes a contract Ready leaves its CET to publish.         *)
LEMMA ReadyIsPublished ==
    ASSUME Typed, [Next]_vars, db.cet # "Ready", db'.cet = "Ready"
    PROVE  job' = Job("publishCet")
  <1>1. db' \in CfdStates
    BY TypedStep DEF Typed, TypeOK
  <1>2. db'.kind = "OpenCommitted" /\ db'.att \in Attestations /\ db'.dlc \in Dlcs
    BY <1>1, StateCases DEF NoCet
  <1>3. CanPublishCet(db')
    BY <1>2, OneContract DEF CanPublishCet
  <1>4. JobAfter(db') = Job("publishCet")
    BY <1>2, <1>3 DEF JobAfter
  <1>5. CASE MonitoringEvent \/ OracleAttestation
    <2>1. db' # db
      OBVIOUS
    <2>2. job' = JobAfter(db')
      BY <1>5, <2>1 DEF MonitoringEvent, OracleAttestation, HandleMail
    <2> QED BY <1>4, <2>2
  <1>6. CASE RecordCommit \/ RecordCet
    <2>1. db' \in {db, AfterCommitTxSent(db), AfterCetSent(db)}
      BY <1>6 DEF RecordCommit, RecordCet, Handle, Changed
    <2>2. db'.kind # "OpenCommitted" \/ db' = db
      BY <2>1 DEF AfterCommitTxSent, AfterCetSent, PendingCommit, PendingCet,
                  Variant, Bail, Bare
    <2> QED BY <1>2, <2>2
  <1>7. ~SetupCompleted
    BY <1>2 DEF SetupCompleted, PendingOpen, Bare, Variant
  <1>8. ~RecordClose /\ ~InitiateSettlement
    BY <1>2, CloseJobs DEF RecordClose, InitiateSettlement, AfterProposalSigned,
       Open, Variant, Bail, Bare
  <1>9. ~Restart
    BY <1>2 DEF Restart, CleanedUp, Bare, Variant
  <1>10. Rests \/ Follows
    BY RestsOrFollows
  <1>11. \/ Rests \/ Monitor \/ NewAttestationFetched \/ Crash \/ PublishLock \/ PublishClose
         => db' = db
    BY DEF Rests, Monitor, MonitorMessage, Sync, SendEvent, NewAttestationFetched,
           Crash, PublishLock, PublishClose, actorVars
  <1> QED BY <1>5, <1>6, <1>7, <1>8, <1>9, <1>10, <1>11
          DEF Follows, CfdActorHandler

(* While the CET is being published nothing is recorded.                   *)
LEMMA PublishingCet ==
    ASSUME Typed, [Next]_vars, job = Job("publishCet")
    PROVE  /\ db' = db
           /\ job' = job \/ PublishCet \/ Crash
  <1>j. /\ job # Idle /\ job.step = "publishCet"
        /\ \A st \in {"publishLock", "recordCommit", "recordCet", "publishRefund"} :
              job # Job(st)
    BY JobTypes
  <1>1. ~CfdActorHandler /\ ~(CfdActorJob /\ ~PublishCet)
    BY <1>j DEF CfdActorHandler, SetupCompleted, MonitoringEvent,
       OracleAttestation, CanStart, CfdActorJob, PublishLock, RecordCommit,
       RecordCet, PublishRefund, PublishClose, RecordClose
  <1>2. ~Restart
    BY <1>j DEF Restart, Typed, Handlers
  <1>3. UserAndPeer => db' = db /\ job' = job
    BY <1>j DEF UserAndPeer, SignLock, Commit, InitiateSettlement, CanStart,
       SettlementAccepted, SettlementRejected, ProposeSettlement, actorVars
  <1>4. Monitor \/ Oracle \/ World \/ UNCHANGED vars => db' = db /\ job' = job
    BY DEF Monitor, MonitorMessage, Sync, SendEvent, Oracle, FetchAttestation,
       NewAttestationFetched, World, Mine, Attest, CounterpartyPublishes, vars,
       actorVars
  <1>5. PublishCet \/ Crash => db' = db
    BY DEF PublishCet, Crash
  <1> QED BY <1>1, <1>2, <1>3, <1>4, <1>5 DEF Next

LEMMA PayoutTriedStep ==
    ASSUME Truth, PayoutTried, [Next]_vars
    PROVE  PayoutTried'
  <1>t. Typed /\ ChainType /\ job \in Jobs /\ TrueOfChain(db)
    BY DEF Truth, Typed, TypeOK, ChainType, Statuses, RecordedOnChain
  <1>g. \A t \in Txs : Seen(t) => Seen(t)'
    BY <1>t, NextChainStep, ChainStepGrows DEF ChainGrows
  <1> SUFFICES ASSUME Undisturbed', db'.cet = "Ready"
               PROVE  job' = Job("publishCet") \/ Seen("cet")' \/ Seen("refund")'
    BY DEF PayoutTried
  <1>u. Undisturbed /\ ~Crash
    BY <1>t, StaysUndisturbed
  <1>1. CASE db.cet # "Ready"
    BY <1>t, <1>1, ReadyIsPublished
  <1>2. CASE db.cet = "Ready" /\ (Seen("cet") \/ Seen("refund"))
    BY <1>g, <1>2 DEF Txs
  <1>3. CASE db.cet = "Ready" /\ job = Job("publishCet") /\ ~Seen("refund") /\ PublishCet
    <2>1. BroadcastOk("cet") \/ BroadcastErr("cet")
      BY <1>3 DEF PublishCet
    <2>2. CASE BroadcastOk("cet")
      <3>1. tx \in [Txs -> Statuses] /\ "cet" \in Txs
        BY <1>t DEF ChainType, Txs
      <3>2. Seen("cet")'
        BY <2>2, <3>1 DEF BroadcastOk, Seen
      <3> QED BY <3>2
    <2>3. CASE BroadcastErr("cet")
      <3>1. db.kind = "OpenCommitted"
        BY <1>3, <1>t, StateCases DEF Typed, TypeOK, NoCet
      <3>2. Confirmed("commit") /\ age >= CetTimelock
        BY <1>3, <1>t, <3>1 DEF TrueOfChain
      <3>3. Spends("cet") = {"commit"}
        BY DEF Spends
      <3>4. ASSUME NEW u \in Conflicts("cet")
            PROVE  u = "refund"
        <4>1. u \in Txs /\ u # "cet" /\ "commit" \in Spends(u)
          BY <3>3 DEF Conflicts
        <4> QED BY <4>1 DEF Spends
      <3>5. Mature("cet")
        BY <3>2 DEF Mature
      <3>6. Acceptable("cet") \/ Seen("cet")
        BY <1>3, <3>2, <3>3, <3>4, <3>5 DEF Acceptable, Seen, Confirmed
      <3>7. failures' = failures + 1
        BY <2>3, <3>6 DEF BroadcastErr
      <3> QED BY <1>u, <3>7 DEF Undisturbed
    <2> QED BY <2>1, <2>2, <2>3
  <1>4. CASE db.cet = "Ready" /\ job = Job("publishCet") /\ ~PublishCet
    BY <1>t, <1>u, <1>4, PublishingCet
  <1> QED BY <1>u, <1>1, <1>2, <1>3, <1>4 DEF PayoutTried

(* A daemon that neither crashed nor had a broadcast fail never turns to   *)
(* the refund of an attested, mature contract whose CET could still be     *)
(* published (model/cfd.rs, handle RefundTimelockExpired; cfd_actors.rs,   *)
(* try_cet_publication).                                                   *)
THEOREM NotRefundedUndisturbed == Spec => NoRefundOverCetUndisturbed
  <1>1. Init => PayoutTried
    BY DEF Init, PayoutTried, Bare, Variant, NoCet
  <1>2. Truth /\ PayoutTried /\ [Next]_vars => PayoutTried'
    BY PayoutTriedStep
  <1>3. Truth /\ PayoutTried /\ [Next]_vars =>
            [crashes = 0 /\ failures = 0 => ~RefundOverCet]_db
    <2> SUFFICES ASSUME Truth, PayoutTried, [Next]_vars, Undisturbed, RefundOverCet
                 PROVE  FALSE
      BY DEF Undisturbed
    <2>1. Typed /\ db \in CfdStates
      BY DEF Truth, Typed, TypeOK
    <2>2. job = Job("publishCet")
      BY DEF PayoutTried, RefundOverCet
    <2>3. db' = db
      BY <2>1, <2>2, PublishingCet
    <2>4. db.kind = "OpenCommitted"
      BY <2>1, StateCases DEF RefundOverCet, NoCet
    <2> QED BY <2>3, <2>4 DEF RefundOverCet
  <1> QED BY <1>1, <1>2, <1>3, TruthInvariant, PTL
          DEF Spec, NoRefundOverCetUndisturbed

=============================================================================
