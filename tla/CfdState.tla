------------------------------ MODULE CfdState ------------------------------
(***************************************************************************)
(* The state of one CFD (model/cfd.rs, enum CfdState) and the pure         *)
(* transition function Cfd::handle.  No variables: the modules that run    *)
(* actors EXTEND this one and keep the value in their database variable.   *)
(*                                                                         *)
(* A value of CfdState is a record with one shape for all variants; the    *)
(* fields a variant does not carry are None.  `cet' is the CetStatus of    *)
(* OpenCommitted, whose attestation sits in `att'.  Timestamps, amounts    *)
(* and error texts are abstracted away.                                    *)
(***************************************************************************)

CONSTANTS
    Dlcs,          \* contracts the set-up or roll-over protocol can produce
    Attestations,  \* oracle attestations, one per oracle event
    Settlements,   \* collaborative closes, each with its own transaction
    Cets,          \* Cets[d]: the attestations contract d has CETs for
    None           \* Option::None

ASSUME CetsAssumption == Cets \in [Dlcs -> SUBSET Attestations]
ASSUME NoneAssumption ==
    None \notin Dlcs \cup Attestations \cup Settlements

Option(S) == S \cup {None}

NoCet == "NoCet"    \* cet status of a variant that has none

-----------------------------------------------------------------------------
(* The variants of enum CfdState.                                          *)

Variant(kind, dlc, att, cc, cet) ==
    [kind |-> kind, dlc |-> dlc, att |-> att, cc |-> cc, cet |-> cet]

Bare(kind) == Variant(kind, None, None, None, NoCet)

PendingOpen(dlc, att)          == Variant("PendingOpen", dlc, att, None, NoCet)
Open(dlc, att, cc)             == Variant("Open", dlc, att, cc, NoCet)
PendingCommit(dlc, att)        == Variant("PendingCommit", dlc, att, None, NoCet)
OpenCommitted(dlc, cet, att)   == Variant("OpenCommitted", dlc, att, None, cet)
PendingCet(dlc, att)           == Variant("PendingCet", dlc, att, None, NoCet)
ClosedCollaboratively(cc)      == Variant("Closed", None, None, cc, NoCet)
ClosedByCet(att)               == Variant("Closed", None, att, None, NoCet)
PendingRefund(dlc)             == Variant("PendingRefund", dlc, None, None, NoCet)
Refunded(dlc)                  == Variant("Refunded", dlc, None, None, NoCet)

(* is_cleanup: states housekeeping turns into SetupFailed.                 *)
CleanupKinds == {"OutgoingOrderRequest", "IncomingOrderRequest", "Accepted",
                 "ContractSetup"}

(* States without a payload.                                               *)
BareKinds == CleanupKinds \cup {"Rejected", "SetupFailed"}

CfdStates ==
    {Bare(k) : k \in BareKinds}
    \cup {PendingOpen(d, a) : d \in Dlcs, a \in Option(Attestations)}
    \cup {Open(d, a, c) : d \in Dlcs, a \in Option(Attestations),
                          c \in Option(Settlements)}
    \cup {PendingCommit(d, a) : d \in Dlcs, a \in Option(Attestations)}
    \cup {OpenCommitted(d, st, None) : d \in Dlcs,
                          st \in {"Unprepared", "TimelockExpired"}}
    \cup {OpenCommitted(d, st, a) : d \in Dlcs,
                          st \in {"OracleSigned", "Ready"}, a \in Attestations}
    \cup {PendingCet(d, a) : d \in Dlcs, a \in Attestations}
    \cup {ClosedCollaboratively(c) : c \in Settlements}
    \cup {ClosedByCet(a) : a \in Attestations}
    \cup {PendingRefund(d) : d \in Dlcs}
    \cup {Refunded(d) : d \in Dlcs}

-----------------------------------------------------------------------------
(* The accessors of impl Cfd.                                              *)

HasDlc(s) == s.kind \in {"PendingOpen", "Open", "PendingCommit",
                         "OpenCommitted", "PendingCet"}

(* Mutant: attestation() without its arm for PendingCet.                   *)
HasAttestationBeforePendingCet(s) == s.att # None /\ s.kind # "PendingCet"

HasAttestation(s) == s.att # None

HasCollaborativeClose(s) == s.cc # None

(* commit_tx: the states in which the commit transaction can be built.     *)
CanCommit(s) == s.kind \in {"Open", "PendingOpen", "PendingCommit"}

(* cet: Ok(Ok(tx)), which needs the CETs of the attested event.            *)
CanPublishCet(s) ==
    /\ s.kind = "PendingCet" \/ s.cet = "Ready"
    /\ s.att \in Cets[s.dlc]

-----------------------------------------------------------------------------
(* Cfd::handle.  The result of handling an event is the next state, or     *)
(* Ignored (Ok(None): the CFD is final) or Bail (an error, nothing         *)
(* changes).                                                               *)

Bail    == Bare("Bail")
Ignored == Bare("Ignored")

(* The states in which handle exits early.                                 *)
FinalKinds == {"SetupFailed", "Closed", "Refunded"}

MonitorEvents == {"LockFinality", "CommitFinality", "CloseFinality",
                  "CetTimelockExpired", "CetFinality",
                  "RefundTimelockExpired", "RefundFinality"}

(* Mutant: any state with a dlc re-opens.                                  *)
ReopenAfterLockFinality(s) ==
    IF HasDlc(s) THEN Open(s.dlc, s.att, s.cc) ELSE Bail

AfterLockFinality(s) ==
    CASE s.kind = "PendingOpen" -> Open(s.dlc, None, None)
      [] s.kind = "Open"        -> s
      [] OTHER                  -> Bail

AfterCommitFinality(s) ==
    IF s.kind \in {"PendingCommit", "PendingOpen", "Open"}
    THEN IF s.att # None THEN OpenCommitted(s.dlc, "OracleSigned", s.att)
                         ELSE OpenCommitted(s.dlc, "Unprepared", None)
    ELSE Bail

(* Mutant: closed whatever the state says of a close.                      *)
AfterAnyCloseFinality(s) == ClosedCollaboratively(s.cc)

AfterCloseFinality(s) ==
    IF HasCollaborativeClose(s) THEN ClosedCollaboratively(s.cc) ELSE Bail

(* Mutant: always Ready, also without an attestation.                      *)
ReadyAfterCetTimelockExpired(s) ==
    IF HasDlc(s) THEN OpenCommitted(s.dlc, "Ready", s.att) ELSE Bail

AfterCetTimelockExpired(s) ==
    IF \/ s.kind = "OpenCommitted" /\ s.cet \in {"Unprepared", "OracleSigned"}
       \/ s.kind \in {"PendingOpen", "Open", "PendingCommit"}
    THEN IF s.att # None THEN OpenCommitted(s.dlc, "Ready", s.att)
                         ELSE OpenCommitted(s.dlc, "TimelockExpired", None)
    ELSE Bail

AfterRefundTimelockExpired(s) ==
    IF s.kind \in {"OpenCommitted", "Open", "PendingOpen"}
    THEN PendingRefund(s.dlc) ELSE Bail

AfterRefundFinality(s) == IF HasDlc(s) THEN Refunded(s.dlc) ELSE Bail

AfterCetFinality(s) == IF HasAttestation(s) THEN ClosedByCet(s.att) ELSE Bail

AfterCommitTxSent(s) ==
    IF s.kind \in {"PendingOpen", "Open"}
    THEN PendingCommit(s.dlc, s.att) ELSE Bail

AfterOracleAttestation(s, a) ==
    CASE s.kind = "PendingOpen"     -> PendingOpen(s.dlc, a)
      [] s.kind = "Open"            -> Open(s.dlc, a, None)
      [] s.kind = "PendingCommit"   -> PendingCommit(s.dlc, a)
      [] s.cet = "Unprepared"       -> OpenCommitted(s.dlc, "OracleSigned", a)
      [] s.cet = "TimelockExpired"  -> OpenCommitted(s.dlc, "Ready", a)
      [] OTHER                      -> Bail

AfterCetSent(s) ==
    IF HasDlc(s) /\ HasAttestation(s) THEN PendingCet(s.dlc, s.att) ELSE Bail

AfterProposalSigned(s, c) ==
    IF s.kind = "Open" THEN Open(s.dlc, s.att, c) ELSE Bail

AfterMonitorEvent(s, ev) ==
    CASE ev = "LockFinality"          -> AfterLockFinality(s)
      [] ev = "CommitFinality"        -> AfterCommitFinality(s)
      [] ev = "CloseFinality"         -> AfterCloseFinality(s)
      [] ev = "CetTimelockExpired"    -> AfterCetTimelockExpired(s)
      [] ev = "RefundTimelockExpired" -> AfterRefundTimelockExpired(s)
      [] ev = "RefundFinality"        -> AfterRefundFinality(s)
      [] ev = "CetFinality"           -> AfterCetFinality(s)

(* handle: final states swallow every event; `after' is the outcome of the *)
(* match on the event.                                                     *)
Handle(s, after) == IF s.kind \in FinalKinds THEN Ignored ELSE after

(* The database after append_cfd_state(handle(..)): a refused or ignored   *)
(* event appends nothing.                                                  *)
Changed(outcome) == outcome \notin {Bail, Ignored}

=============================================================================
