--------------------------- MODULE CfdStateProofs ---------------------------
(***************************************************************************)
(* Lemmas about CfdState: what a state carries, and what the transition    *)
(* function can make of it.                                                *)
(***************************************************************************)

EXTENDS CfdState, TLAPS

(* What a step of handle may yield.                                        *)
Outcomes == CfdStates \cup {Bail, Ignored}

(* A state of some variant, read back from its fields.                     *)
LEMMA StateCases ==
    ASSUME NEW s \in CfdStates
    PROVE  /\ s = Variant(s.kind, s.dlc, s.att, s.cc, s.cet)
           /\ \/ /\ s.kind \in BareKinds
                 /\ s.dlc = None /\ s.att = None /\ s.cc = None
                 /\ s.cet = NoCet
              \/ /\ s.kind \in {"PendingOpen", "PendingCommit"}
                 /\ s.dlc \in Dlcs /\ s.att \in Option(Attestations)
                 /\ s.cc = None /\ s.cet = NoCet
              \/ /\ s.kind = "Open"
                 /\ s.dlc \in Dlcs /\ s.att \in Option(Attestations)
                 /\ s.cc \in Option(Settlements) /\ s.cet = NoCet
              \/ /\ s.kind = "OpenCommitted" /\ s.dlc \in Dlcs
                 /\ s.att = None /\ s.cc = None
                 /\ s.cet \in {"Unprepared", "TimelockExpired"}
              \/ /\ s.kind = "OpenCommitted" /\ s.dlc \in Dlcs
                 /\ s.att \in Attestations /\ s.cc = None
                 /\ s.cet \in {"OracleSigned", "Ready"}
              \/ /\ s.kind = "PendingCet" /\ s.dlc \in Dlcs
                 /\ s.att \in Attestations /\ s.cc = None /\ s.cet = NoCet
              \/ /\ s.kind = "Closed" /\ s.cet = NoCet
                 /\ s.att = None /\ s.cc \in Settlements
              \/ /\ s.kind = "Closed" /\ s.cet = NoCet
                 /\ s.att \in Attestations /\ s.cc = None
              \/ /\ s.kind \in {"PendingRefund", "Refunded"}
                 /\ s.dlc \in Dlcs /\ s.att = None /\ s.cc = None
                 /\ s.cet = NoCet
  <1> USE DEF Variant, Option
  <1>1. CASE s \in {Bare(k) : k \in BareKinds}
    BY <1>1 DEF Bare
  <1>2. CASE s \in {PendingOpen(d, a) :
                      d \in Dlcs, a \in Option(Attestations)}
    BY <1>2 DEF PendingOpen
  <1>3. CASE s \in {Open(d, a, c) : d \in Dlcs,
                      a \in Option(Attestations), c \in Option(Settlements)}
    BY <1>3 DEF Open
  <1>4. CASE s \in {PendingCommit(d, a) :
                      d \in Dlcs, a \in Option(Attestations)}
    BY <1>4 DEF PendingCommit
  <1>5. CASE s \in {OpenCommitted(d, st, None) : d \in Dlcs,
                      st \in {"Unprepared", "TimelockExpired"}}
    BY <1>5 DEF OpenCommitted
  <1>6. CASE s \in {OpenCommitted(d, st, a) : d \in Dlcs,
                      st \in {"OracleSigned", "Ready"}, a \in Attestations}
    BY <1>6 DEF OpenCommitted
  <1>7. CASE s \in {PendingCet(d, a) : d \in Dlcs, a \in Attestations}
    BY <1>7 DEF PendingCet
  <1>8. CASE s \in {ClosedCollaboratively(c) : c \in Settlements}
    BY <1>8 DEF ClosedCollaboratively
  <1>9. CASE s \in {ClosedByCet(a) : a \in Attestations}
    BY <1>9 DEF ClosedByCet
  <1>10. CASE s \in {PendingRefund(d) : d \in Dlcs}
    BY <1>10 DEF PendingRefund
  <1>11. CASE s \in {Refunded(d) : d \in Dlcs}
    BY <1>11 DEF Refunded
  <1> QED BY <1>1, <1>2, <1>3, <1>4, <1>5, <1>6, <1>7, <1>8, <1>9, <1>10,
             <1>11 DEF CfdStates

(* The fields of the states the constructors build.                        *)
LEMMA Constructors ==
    ASSUME NEW d \in Dlcs
    PROVE  /\ \A a \in Option(Attestations) :
                /\ PendingOpen(d, a) \in CfdStates
                /\ PendingCommit(d, a) \in CfdStates
                /\ \A c \in Option(Settlements) : Open(d, a, c) \in CfdStates
           /\ OpenCommitted(d, "Unprepared", None) \in CfdStates
           /\ OpenCommitted(d, "TimelockExpired", None) \in CfdStates
           /\ \A a \in Attestations :
                /\ OpenCommitted(d, "OracleSigned", a) \in CfdStates
                /\ OpenCommitted(d, "Ready", a) \in CfdStates
                /\ PendingCet(d, a) \in CfdStates
           /\ PendingRefund(d) \in CfdStates
           /\ Refunded(d) \in CfdStates
  BY DEF CfdStates

LEMMA ConstructorsClosed ==
    /\ \A c \in Settlements : ClosedCollaboratively(c) \in CfdStates
    /\ \A a \in Attestations : ClosedByCet(a) \in CfdStates
    /\ \A k \in BareKinds : Bare(k) \in CfdStates
  BY DEF CfdStates

(* No state is mistaken for an error or for an ignored event.              *)
LEMMA StatesChange ==
    ASSUME NEW s \in CfdStates
    PROVE  s \notin {Bail, Ignored}
  BY StateCases DEF Bail, Ignored, Bare, Variant, BareKinds, CleanupKinds

(* Every event yields a state of enum CfdState, or an error.               *)
LEMMA AfterTypes ==
    ASSUME NEW s \in CfdStates
    PROVE  /\ AfterLockFinality(s) \in Outcomes
           /\ AfterCommitFinality(s) \in Outcomes
           /\ AfterCloseFinality(s) \in Outcomes
           /\ AfterCetTimelockExpired(s) \in Outcomes
           /\ AfterRefundTimelockExpired(s) \in Outcomes
           /\ AfterRefundFinality(s) \in Outcomes
           /\ AfterCetFinality(s) \in Outcomes
           /\ AfterCommitTxSent(s) \in Outcomes
           /\ \A a \in Attestations : AfterOracleAttestation(s, a) \in Outcomes
           /\ AfterCetSent(s) \in Outcomes
           /\ \A c \in Settlements : AfterProposalSigned(s, c) \in Outcomes
  <1> USE StateCases, NoneAssumption DEF Outcomes, BareKinds, CleanupKinds
  <1>1. AfterLockFinality(s) \in Outcomes
    BY Constructors DEF AfterLockFinality, Option
  <1>2. AfterCommitFinality(s) \in Outcomes
    BY Constructors DEF AfterCommitFinality, Option
  <1>3. AfterCloseFinality(s) \in Outcomes
    BY ConstructorsClosed
    DEF AfterCloseFinality, HasCollaborativeClose, Option
  <1>4. AfterCetTimelockExpired(s) \in Outcomes
    BY Constructors DEF AfterCetTimelockExpired, Option
  <1>5. AfterRefundTimelockExpired(s) \in Outcomes
    BY Constructors DEF AfterRefundTimelockExpired, Option
  <1>6. AfterRefundFinality(s) \in Outcomes
    BY Constructors DEF AfterRefundFinality, HasDlc, Option
  <1>7. AfterCetFinality(s) \in Outcomes
    BY ConstructorsClosed DEF AfterCetFinality, HasAttestation, Option
  <1>8. AfterCommitTxSent(s) \in Outcomes
    BY Constructors DEF AfterCommitTxSent, Option
  <1>9. \A a \in Attestations : AfterOracleAttestation(s, a) \in Outcomes
    BY Constructors DEF AfterOracleAttestation, Option, NoCet
  <1>10. AfterCetSent(s) \in Outcomes
    BY Constructors DEF AfterCetSent, HasDlc, HasAttestation, Option
  <1>11. \A c \in Settlements : AfterProposalSigned(s, c) \in Outcomes
    BY Constructors DEF AfterProposalSigned, Option
  <1> QED BY <1>1, <1>2, <1>3, <1>4, <1>5, <1>6, <1>7, <1>8, <1>9, <1>10,
             <1>11

LEMMA AfterMonitorEventType ==
    ASSUME NEW s \in CfdStates, NEW ev \in MonitorEvents
    PROVE  AfterMonitorEvent(s, ev) \in Outcomes
  BY AfterTypes DEF AfterMonitorEvent, MonitorEvents

(* Handle passes the outcome of the event on, or ignores the event.        *)
LEMMA HandleType ==
    ASSUME NEW s \in CfdStates, NEW o \in Outcomes
    PROVE  /\ Handle(s, o) \in Outcomes
           /\ Changed(Handle(s, o)) =>
                 /\ s.kind \notin FinalKinds
                 /\ Handle(s, o) = o /\ o \in CfdStates
  BY DEF Handle, Changed, Outcomes

(* Before the contract is set up, and after set-up failed, no event moves  *)
(* the CFD.                                                                *)
LEMMA BareStatesStay ==
    ASSUME NEW s \in CfdStates, s.kind \in BareKinds
    PROVE  /\ \A ev \in MonitorEvents : AfterMonitorEvent(s, ev) = Bail
           /\ AfterCommitTxSent(s) = Bail
           /\ AfterCetSent(s) = Bail
           /\ ~HasDlc(s)
           /\ ~CanCommit(s)
  <1>1. s.att = None /\ s.cc = None /\ s.cet = NoCet
    BY StateCases DEF BareKinds, CleanupKinds
  <1> QED
    BY <1>1 DEF BareKinds, CleanupKinds, MonitorEvents, AfterMonitorEvent,
       AfterLockFinality, AfterCommitFinality, AfterCloseFinality,
       AfterCetTimelockExpired, AfterRefundTimelockExpired,
       AfterRefundFinality, AfterCetFinality, AfterCommitTxSent, AfterCetSent,
       HasDlc, HasAttestation, HasCollaborativeClose, CanCommit, NoCet

=============================================================================
