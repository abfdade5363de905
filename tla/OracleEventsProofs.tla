--------------------------- MODULE OracleEventsProofs ---------------------------
(***************************************************************************)
(* Theorems about OracleEvents and the database under it: type             *)
(* correctness, that no attestation a contract needs is missed, and that   *)
(* the tables implement CfdStore.                                          *)
(***************************************************************************)

EXTENDS OracleEvents, SequenceTheorems, TLAPS

-----------------------------------------------------------------------------
(* The inductive invariant.                                                *)

(* Orders are numbered as they come; each has at most one CFD, and each    *)
(* CFD at most one state.  A CFD names its order twice, by row and uuid.   *)
OrderRows ==
    /\ orders \in Seq([uuid : Nat, event : Events])
    /\ Len(orders) <= MaxOrders
    /\ \A i \in 1..Len(orders) : orders[i].uuid = i

CfdRows ==
    /\ cfds \in Seq([order_id : Nat, order_uuid : Nat])
    /\ \A i \in 1..Len(cfds) :
        cfds[i].order_id = cfds[i].order_uuid /\ cfds[i].order_uuid \in 1..Len(orders)
    /\ \A i, j \in 1..Len(cfds) : cfds[i].order_uuid = cfds[j].order_uuid => i = j

StateRows ==
    /\ cfd_states \in Seq([cfd_id : Nat, state : CfdStates])
    /\ \A i \in 1..Len(cfd_states) : cfd_states[i].cfd_id \in 1..Len(cfds)
    /\ \A i, j \in 1..Len(cfd_states) :
        cfd_states[i].cfd_id = cfd_states[j].cfd_id => i = j

Tables == OrderRows /\ CfdRows /\ StateRows

TypeOK ==
    /\ Tables
    /\ role \in {"maker", "taker"} /\ now \in 0..MaxHour
    /\ announcements \subseteq Events /\ announcing \subseteq Events
    /\ pending \subseteq Events /\ asked \subseteq Events /\ fetching \subseteq Events
    /\ mail \in Seq(Events)
    /\ attesting \in Option([event : Events, left : (SUBSET Uuids) \ {{}}])
    /\ setup \in Option(Uuids) /\ watched \subseteq Uuids
    /\ erased \subseteq Uuids /\ crashes \in 0..MaxCrashes

(* The CFD whose contract is being set up is in ContractSetup.             *)
SettingUp == setup # None => Loadable(setup) /\ State(setup) = Bare("ContractSetup")

(* An attestation on its way is of the event of some CFD.                  *)
Mailed(e) == \E i \in 1..Len(mail) : mail[i] = e
HasCfd(e) == \E u \in Uuids : Loadable(u) /\ OrderOf(u).event = e
Wanted == \A e \in Events : e \in pending \cup asked \cup fetching \/ Mailed(e) => HasCfd(e)

(* The monitor follows CFDs that have had a contract.                      *)
Followed == \A u \in watched : Loadable(u) /\ State(u).kind \notin CleanupKinds

IInv == TypeOK /\ SettingUp /\ Followed /\ Wanted /\ NothingMissed

(* No attestation is looked for before its event occurs, so the request a  *)
(* taker makes when its order is accepted stands until then.               *)
SetupAsked ==
    role = "taker" /\ setup # None /\ ~Occurred(OrderOf(setup).event)
        => OrderOf(setup).event \in pending \cup asked

Early == (\A e \in fetching : Occurred(e)) /\ SetupAsked

-----------------------------------------------------------------------------
(* States of a CFD.                                                        *)

(* What the fields of a state hold.                                        *)
LEMMA Fields ==
    ASSUME NEW s \in CfdStates
    PROVE  /\ s.att \in Option(Events)
           /\ HasDlc(s) => s.dlc \in Events
           /\ HasDlc(s) <=> s.kind \in AwaitingKinds
           /\ s.kind = "PendingCet" => s.att # None
           /\ s.kind = "OpenCommitted" /\ s.att = None => s.cet \in {"Unprepared", "TimelockExpired"}
           /\ s.cet \in {"Unprepared", "TimelockExpired", "Ready"} => s.kind = "OpenCommitted"
           /\ s.cc = None
           /\ s.kind \in CleanupKinds => ~HasDlc(s) /\ s = Bare(s.kind)
           /\ s.kind \notin {"Bail", "Ignored"}
           /\ s # None
  BY ApartAssumption
     DEF NoCet, CfdStates, Bare, PendingOpen, Open, PendingCommit, OpenCommitted, PendingCet,
         ClosedCollaboratively, ClosedByCet, PendingRefund, Refunded, Variant, Option,
         BareKinds, CleanupKinds, HasDlc, AwaitingKinds

LEMMA IsState ==
    /\ \A k \in BareKinds : Bare(k) \in CfdStates
    /\ \A d \in Events, a \in Option(Events) :
         /\ PendingOpen(d, a) \in CfdStates /\ PendingCommit(d, a) \in CfdStates
         /\ Open(d, a, None) \in CfdStates
    /\ \A d \in Events, st \in {"Unprepared", "TimelockExpired"} :
         OpenCommitted(d, st, None) \in CfdStates
    /\ \A d \in Events, st \in {"OracleSigned", "Ready"}, a \in Events :
         OpenCommitted(d, st, a) \in CfdStates
    /\ \A d \in Events, a \in Events :
         PendingCet(d, a) \in CfdStates /\ ClosedByCet(a) \in CfdStates
    /\ \A d \in Events : PendingRefund(d) \in CfdStates /\ Refunded(d) \in CfdStates
  BY DEF CfdStates, Option

(* The fields of the states that handle returns.                           *)
LEMMA FieldsOf ==
    \A d, a, c, st :
        /\ PendingOpen(d, a).att = a /\ PendingOpen(d, a).kind = "PendingOpen"
        /\ PendingCommit(d, a).att = a /\ PendingCommit(d, a).kind = "PendingCommit"
        /\ Open(d, a, c).att = a /\ Open(d, a, c).kind = "Open"
        /\ OpenCommitted(d, st, a).att = a /\ OpenCommitted(d, st, a).kind = "OpenCommitted"
        /\ PendingCet(d, a).att = a /\ PendingCet(d, a).kind = "PendingCet"
        /\ ClosedByCet(a).att = a /\ ClosedByCet(a).kind = "Closed"
        /\ PendingRefund(d).kind = "PendingRefund" /\ Refunded(d).kind = "Refunded"
        /\ PendingRefund(d).att = None /\ Refunded(d).att = None
        /\ Bare(st).kind = st
  BY DEF PendingOpen, PendingCommit, Open, OpenCommitted, PendingCet, ClosedByCet,
         PendingRefund, Refunded, Bare, Variant

LEMMA ChangedIs ==
    ASSUME NEW s, NEW after, Changed(Handle(s, after))
    PROVE  Handle(s, after) = after /\ after # Bail /\ s.kind \notin FinalKinds
  BY DEF Changed, Handle

LEMMA NotBail ==
    ASSUME NEW s \in CfdStates, HasDlc(s), NEW after \in CfdStates
    PROVE  Changed(Handle(s, after)) /\ Handle(s, after) = after
  <1>1. s.kind \notin FinalKinds
    BY DEF HasDlc, FinalKinds
  <1>2. after # Bail /\ after # Ignored
    BY Fields, FieldsOf DEF Bail, Ignored
  <1> QED BY <1>1, <1>2 DEF Handle, Changed

(* An attestation is taken by every contract that has none.                *)
LEMMA TakesAttestation ==
    ASSUME NEW s \in CfdStates, NEW e \in Events
    PROVE  LET after == AfterOracleAttestation(s, e)
           IN  /\ HasDlc(s) /\ s.att = None => Changed(Handle(s, after))
               /\ Changed(Handle(s, after)) =>
                    /\ Handle(s, after) = after /\ after \in CfdStates
                    /\ HasDlc(s) /\ HasDlc(after) /\ after.att = e
  <1> DEFINE after == AfterOracleAttestation(s, e)
  <1>1. \/ after = PendingOpen(s.dlc, e) /\ s.kind = "PendingOpen"
        \/ after = Open(s.dlc, e, None) /\ s.kind = "Open"
        \/ after = PendingCommit(s.dlc, e) /\ s.kind = "PendingCommit"
        \/ after = OpenCommitted(s.dlc, "OracleSigned", e) /\ s.cet = "Unprepared"
        \/ after = OpenCommitted(s.dlc, "Ready", e) /\ s.cet = "TimelockExpired"
        \/ /\ after = Bail
           /\ s.kind \notin {"PendingOpen", "Open", "PendingCommit"}
           /\ s.cet \notin {"Unprepared", "TimelockExpired"}
    BY DEF AfterOracleAttestation
  <1>2. CASE after = Bail
    <2>1. ~Changed(Handle(s, after))
      BY <1>2 DEF Changed, Handle
    <2>2. ~(after = PendingOpen(s.dlc, e) \/ after = Open(s.dlc, e, None)
            \/ after = PendingCommit(s.dlc, e) \/ after = OpenCommitted(s.dlc, "OracleSigned", e)
            \/ after = OpenCommitted(s.dlc, "Ready", e))
      BY <1>2, FieldsOf DEF Bail
    <2>3. ~(HasDlc(s) /\ s.att = None)
      BY <1>1, <2>2, Fields DEF HasDlc
    <2> QED BY <2>1, <2>3
  <1>3. CASE after # Bail
    <2>1. HasDlc(s)
      BY <1>1, <1>3, Fields DEF HasDlc
    <2>2. s.dlc \in Events /\ e \in Option(Events)
      BY <2>1, Fields DEF Option
    <2>3. after \in CfdStates
      BY <1>1, <1>3, <2>2, IsState
    <2>4. after.att = e /\ HasDlc(after)
      BY <1>1, <1>3, FieldsOf DEF HasDlc
    <2> QED BY <2>1, <2>3, <2>4, NotBail
  <1> QED BY <1>2, <1>3

(* Of the states that are not final only those with a contract are att.      *)
LEMMA AttestedHasDlc ==
    ASSUME NEW s \in CfdStates, s.att # None, s.kind \notin FinalKinds
    PROVE  HasDlc(s)
  BY DEF NoCet, CfdStates, Bare, PendingOpen, Open, PendingCommit, OpenCommitted, PendingCet,
         ClosedCollaboratively, ClosedByCet, PendingRefund, Refunded, Variant, Option,
         BareKinds, CleanupKinds, HasDlc, FinalKinds

(* Only LockFinality takes the attestation from a CFD that keeps its       *)
(* contract.                                                               *)
LEMMA TakesMonitorEvent ==
    ASSUME NEW s \in CfdStates, NEW ev \in Reported,
           Changed(Handle(s, AfterMonitorEvent(s, ev)))
    PROVE  LET after == AfterMonitorEvent(s, ev)
           IN  /\ Handle(s, after) = after /\ after \in CfdStates
               /\ HasDlc(s) /\ after.kind \notin CleanupKinds
               /\ \/ ev = "LockFinality" \/ s.att = None
                  \/ after.kind \notin AwaitingKinds \/ after.att # None
  <1> DEFINE after == AfterMonitorEvent(s, ev)
             Goal == /\ after \in CfdStates /\ HasDlc(s) /\ after.kind \notin CleanupKinds
                     /\ \/ ev = "LockFinality" \/ s.att = None
                        \/ after.kind \notin AwaitingKinds \/ after.att # None
  <1>1. Handle(s, after) = after /\ after # Bail
    BY ChangedIs
  <1>2. s.att \in Option(Events) /\ (HasDlc(s) => s.dlc \in Events) /\ s.cc = None
        /\ None \in Option(Events) /\ (s.att # None => s.att \in Events)
    BY Fields DEF Option
  <1>3. ASSUME ev = "LockFinality" PROVE Goal
    <2>1. after = AfterLockFinality(s)
      BY <1>3 DEF AfterMonitorEvent
    <2>2. \/ s.kind = "PendingOpen" /\ after = Open(s.dlc, None, None)
          \/ s.kind = "Open" /\ after = s
      BY <1>1, <2>1 DEF AfterLockFinality
    <2>3. HasDlc(s)
      BY <2>2 DEF HasDlc
    <2>4. after \in CfdStates /\ after.kind = "Open"
      BY <1>2, <2>2, <2>3, IsState, FieldsOf
    <2> QED BY <1>3, <2>3, <2>4 DEF CleanupKinds
  <1>4. ASSUME ev = "CetTimelockExpired" \/ ev = "CommitFinality" PROVE Goal
    <2>1. after = AfterCetTimelockExpired(s) \/ after = AfterCommitFinality(s)
      BY <1>4 DEF AfterMonitorEvent
    <2>2. /\ HasDlc(s)
          /\ \/ s.att # None /\ after = OpenCommitted(s.dlc, "Ready", s.att)
             \/ s.att = None /\ after = OpenCommitted(s.dlc, "TimelockExpired", None)
             \/ s.att # None /\ after = OpenCommitted(s.dlc, "OracleSigned", s.att)
             \/ s.att = None /\ after = OpenCommitted(s.dlc, "Unprepared", None)
      BY <1>1, <2>1 DEF AfterCetTimelockExpired, AfterCommitFinality, HasDlc
    <2>3. after \in CfdStates /\ after.kind = "OpenCommitted" /\ after.att = s.att
      BY <1>2, <2>2, IsState, FieldsOf
    <2> QED BY <2>2, <2>3 DEF CleanupKinds
  <1>5. ASSUME ev = "RefundTimelockExpired" \/ ev = "RefundFinality" PROVE Goal
    <2>1. after = AfterRefundTimelockExpired(s) \/ after = AfterRefundFinality(s)
      BY <1>5 DEF AfterMonitorEvent
    <2>2. HasDlc(s) /\ (after = PendingRefund(s.dlc) \/ after = Refunded(s.dlc))
      BY <1>1, <2>1 DEF AfterRefundTimelockExpired, AfterRefundFinality, HasDlc
    <2>3. after \in CfdStates /\ after.kind \in {"PendingRefund", "Refunded"}
      BY <1>2, <2>2, IsState, FieldsOf
    <2> QED BY <2>2, <2>3 DEF CleanupKinds, AwaitingKinds
  <1>6. ASSUME ev = "CetFinality" PROVE Goal
    <2>1. after = AfterCetFinality(s)
      BY <1>6 DEF AfterMonitorEvent
    <2>2. s.att # None /\ after = ClosedByCet(s.att)
      BY <1>1, <2>1 DEF AfterCetFinality, HasAttestation
    <2>3. HasDlc(s)
      BY <1>1, <2>2, ChangedIs, AttestedHasDlc
    <2>4. after \in CfdStates /\ after.kind = "Closed"
      BY <1>2, <2>2, <2>3, IsState, FieldsOf
    <2> QED BY <2>3, <2>4 DEF CleanupKinds, AwaitingKinds
  <1>7. ASSUME ev = "CloseFinality" PROVE Goal
    <2>1. after = AfterCloseFinality(s)
      BY <1>7 DEF AfterMonitorEvent
    <2> QED BY <1>1, <1>2, <2>1 DEF AfterCloseFinality, HasCollaborativeClose
  <1>8. ev \in MonitorEvents
    BY ReportedAssumption
  <1>9. Goal
    BY <1>3, <1>4, <1>5, <1>6, <1>7, <1>8 DEF MonitorEvents
  <1> QED BY <1>1, <1>9

LEMMA TakesCommit ==
    ASSUME NEW s \in CfdStates, Changed(Handle(s, AfterCommitTxSent(s)))
    PROVE  LET after == AfterCommitTxSent(s)
           IN  /\ Handle(s, after) = after /\ after \in CfdStates
               /\ HasDlc(s) /\ after.kind \notin CleanupKinds /\ after.att = s.att
  <1> DEFINE after == AfterCommitTxSent(s)
  <1>1. Handle(s, after) = after /\ after # Bail
    BY ChangedIs
  <1>2. HasDlc(s) /\ after = PendingCommit(s.dlc, s.att)
    BY <1>1 DEF AfterCommitTxSent, HasDlc
  <1>3. after \in CfdStates /\ after.kind = "PendingCommit" /\ after.att = s.att
    BY <1>2, Fields, IsState, FieldsOf
  <1> QED BY <1>1, <1>2, <1>3 DEF CleanupKinds

LEMMA SendsCet ==
    ASSUME NEW s \in CfdStates, CanPublishCet(s)
    PROVE  /\ AfterCetSent(s) \in CfdStates /\ AfterCetSent(s).att = s.att
           /\ s.att # None /\ HasDlc(AfterCetSent(s))
  <1>0. HasDlc(s)
    BY Fields DEF CanPublishCet, HasDlc
  <1>1. s.dlc \in Events /\ s.att = s.dlc
    BY <1>0, Fields DEF CanPublishCet
  <1>2. s.att # None
    BY <1>1, ApartAssumption
  <1>3. AfterCetSent(s) = PendingCet(s.dlc, s.att)
    BY <1>0, <1>2 DEF AfterCetSent, HasAttestation
  <1> QED BY <1>1, <1>2, <1>3, IsState, FieldsOf DEF HasDlc

-----------------------------------------------------------------------------
(* What the queries return.                                                *)

Row(u, i) == i \in 1..Len(cfd_states) /\ cfds[cfd_states[i].cfd_id].order_uuid = u

LEMMA OrderIs ==
    ASSUME OrderRows, NEW u
    PROVE  /\ OrderIds(u) = IF u \in 1..Len(orders) THEN {u} ELSE {}
           /\ u \in 1..Len(orders) => OrderOf(u) = orders[u] /\ orders[u].uuid = u
           /\ \A i \in 1..Len(orders) : orders[i] \in [uuid : Nat, event : Events]
           /\ Len(orders) \in Nat /\ 1..Len(orders) \subseteq Uuids
  <1>1. DOMAIN orders = 1..Len(orders) /\ Len(orders) \in Nat
    BY DEF OrderRows
  <1>2. OrderIds(u) = IF u \in 1..Len(orders) THEN {u} ELSE {}
    BY <1>1 DEF OrderIds, Ids, OrderRows
  <1>3. ASSUME u \in 1..Len(orders) PROVE OrderOf(u) = orders[u]
    <2>1. OrderIds(u) = {u}
      BY <1>2, <1>3
    <2>2. (CHOOSE i \in OrderIds(u) : TRUE) = u
      BY <2>1
    <2> QED BY <2>2 DEF OrderOf
  <1>4. \A i \in 1..Len(orders) : orders[i] \in [uuid : Nat, event : Events]
    BY ElementOfSeq DEF OrderRows
  <1>5. 1..Len(orders) \subseteq Uuids
    BY <1>1, HoursAssumption DEF OrderRows, Uuids
  <1> QED BY <1>1, <1>2, <1>3, <1>4, <1>5 DEF OrderRows

(* A row of cfd_states, and the CFD it is joined to.                       *)
LEMMA Joined ==
    ASSUME Tables, NEW i \in 1..Len(cfd_states)
    PROVE  LET u == cfds[cfd_states[i].cfd_id].order_uuid
           IN  /\ u \in 1..Len(orders)
               /\ orders[cfds[cfd_states[i].cfd_id].order_id] = orders[u]
               /\ cfd_states[i].state \in CfdStates
               /\ cfd_states[i].cfd_id \in 1..Len(cfds)
  <1>1. cfd_states \in Seq([cfd_id : Nat, state : CfdStates])
    BY DEF Tables, StateRows
  <1>2. cfd_states[i] \in [cfd_id : Nat, state : CfdStates]
    BY <1>1, ElementOfSeq
  <1> QED BY <1>2 DEF Tables, StateRows, CfdRows

LEMMA OneRow ==
    ASSUME Tables, NEW u, NEW i, NEW j, Row(u, i), Row(u, j)
    PROVE  i = j
  <1>1. i \in 1..Len(cfd_states) /\ j \in 1..Len(cfd_states)
    BY DEF Row
  <1>2. PICK a, b : a = cfd_states[i].cfd_id /\ b = cfd_states[j].cfd_id
    OBVIOUS
  <1>3. cfds[a].order_uuid = u /\ cfds[b].order_uuid = u
    BY <1>2 DEF Row
  <1>4. a \in 1..Len(cfds) /\ b \in 1..Len(cfds)
    BY <1>1, <1>2 DEF Tables, StateRows
  <1>5. a = b
    BY <1>3, <1>4 DEF Tables, CfdRows
  <1> QED BY <1>1, <1>2, <1>5 DEF Tables, StateRows

LEMMA RowsOf ==
    ASSUME Tables
    PROVE  AllCfds = {[order |-> orders[cfds[cfd_states[i].cfd_id].order_uuid],
                       state |-> cfd_states[i].state] : i \in 1..Len(cfd_states)}
  <1>1. Ids(cfd_states) = 1..Len(cfd_states)
    BY DEF Ids, Tables, StateRows
  <1>2. \A i \in 1..Len(cfd_states) :
          orders[cfds[cfd_states[i].cfd_id].order_id]
            = orders[cfds[cfd_states[i].cfd_id].order_uuid]
    BY Joined
  <1> QED BY <1>1, <1>2 DEF AllCfds

LEMMA LoadableIs ==
    ASSUME Tables, NEW u
    PROVE  Loadable(u) <=> \E i : Row(u, i)
  <1>1. ASSUME NEW i, Row(u, i) PROVE Loadable(u)
    <2>1. i \in 1..Len(cfd_states) /\ cfds[cfd_states[i].cfd_id].order_uuid = u
      BY <1>1 DEF Row
    <2>2. u \in 1..Len(orders) /\ orders[u].uuid = u
      BY <2>1, Joined, OrderIs DEF Tables
    <2>3. [order |-> orders[u], state |-> cfd_states[i].state] \in AllCfds
      BY <2>1, RowsOf
    <2> QED BY <2>2, <2>3 DEF Loadable
  <1>2. ASSUME NEW cfd \in AllCfds, cfd.order.uuid = u PROVE \E i : Row(u, i)
    <2>1. PICK i \in 1..Len(cfd_states) :
            cfd = [order |-> orders[cfds[cfd_states[i].cfd_id].order_uuid],
                   state |-> cfd_states[i].state]
      BY RowsOf
    <2>2. PICK v : v = cfds[cfd_states[i].cfd_id].order_uuid
      OBVIOUS
    <2>3. v \in 1..Len(orders) /\ orders[v].uuid = v
      BY <2>2, Joined, OrderIs DEF Tables
    <2>4. v = u
      BY <1>2, <2>1, <2>2, <2>3
    <2> QED BY <2>2, <2>4 DEF Row
  <1> QED BY <1>1, <1>2 DEF Loadable

LEMMA Loads ==
    ASSUME Tables, NEW u, NEW i, Row(u, i)
    PROVE  /\ LoadCfd(u) = [order |-> OrderOf(u), state |-> cfd_states[i].state]
           /\ State(u) = cfd_states[i].state /\ State(u) \in CfdStates
           /\ u \in 1..Len(orders) /\ u \in Uuids /\ OrderOf(u) = orders[u]
           /\ OrderOf(u).uuid = u /\ OrderOf(u).event \in Events
  <1>1. i \in 1..Len(cfd_states) /\ cfds[cfd_states[i].cfd_id].order_uuid = u
    BY DEF Row
  <1>2. /\ u \in 1..Len(orders) /\ orders[u].uuid = u /\ OrderOf(u) = orders[u]
        /\ u \in Uuids /\ orders[u].event \in Events
    BY <1>1, Joined, OrderIs DEF Tables
  <1> DEFINE c == [order |-> orders[u], state |-> cfd_states[i].state]
  <1>3. c \in AllCfds /\ c.order.uuid = u
    BY <1>1, <1>2, RowsOf
  <1>4. ASSUME NEW d \in AllCfds, d.order.uuid = u PROVE d = c
    <2>1. PICK j \in 1..Len(cfd_states) :
            d = [order |-> orders[cfds[cfd_states[j].cfd_id].order_uuid],
                 state |-> cfd_states[j].state]
      BY RowsOf
    <2>2. PICK v : v = cfds[cfd_states[j].cfd_id].order_uuid
      OBVIOUS
    <2>3. v \in 1..Len(orders) /\ orders[v].uuid = v
      BY <2>2, Joined, OrderIs DEF Tables
    <2>4. v = u
      BY <1>4, <2>1, <2>2, <2>3
    <2>5. Row(u, j)
      BY <2>2, <2>4 DEF Row
    <2>6. j = i
      BY <2>5, OneRow
    <2> QED BY <2>1, <2>2, <2>4, <2>6
  <1>5. LoadCfd(u) = c
    BY <1>3, <1>4 DEF LoadCfd
  <1>6. State(u) = cfd_states[i].state
    BY <1>5 DEF State
  <1> QED BY <1>1, <1>2, <1>5, <1>6, Joined

LEMMA Loaded ==
    ASSUME Tables, NEW u, Loadable(u)
    PROVE  /\ State(u) \in CfdStates /\ u \in Uuids /\ u \in 1..Len(orders)
           /\ OrderOf(u).uuid = u /\ OrderOf(u).event \in Events
           /\ [order |-> OrderOf(u), state |-> State(u)] \in AllCfds
  <1>1. PICK i : Row(u, i)
    BY LoadableIs
  <1>2. [order |-> orders[u], state |-> cfd_states[i].state] \in AllCfds
    BY <1>1, RowsOf DEF Row
  <1> QED BY <1>1, <1>2, Loads

(* All CFDs are those that can be loaded, with their order and state.      *)
LEMMA AllAreLoadable ==
    ASSUME Tables, NEW cfd \in AllCfds
    PROVE  \E u \in Uuids : Loadable(u) /\ cfd = [order |-> OrderOf(u), state |-> State(u)]
  <1>1. PICK i \in 1..Len(cfd_states) :
          cfd = [order |-> orders[cfds[cfd_states[i].cfd_id].order_uuid],
                 state |-> cfd_states[i].state]
    BY RowsOf
  <1>2. PICK u : u = cfds[cfd_states[i].cfd_id].order_uuid
    OBVIOUS
  <1>3. Row(u, i)
    BY <1>2 DEF Row
  <1>4. Loadable(u)
    BY <1>3, LoadableIs
  <1>5. cfd = [order |-> OrderOf(u), state |-> State(u)] /\ u \in Uuids
    BY <1>1, <1>2, <1>3, Loads
  <1> QED BY <1>4, <1>5

(* The same of the next state.                                             *)
Views ==
    /\ \A u : Loadable(u) <=> \E i : Row(u, i)
    /\ \A u, i : Row(u, i) =>
        /\ State(u) = cfd_states[i].state /\ OrderOf(u) = orders[u]
        /\ i \in 1..Len(cfd_states) /\ u \in Uuids
    /\ \A u : Loadable(u) =>
        /\ State(u) \in CfdStates /\ u \in Uuids /\ u \in 1..Len(orders)
        /\ OrderOf(u).uuid = u /\ OrderOf(u).event \in Events
        /\ [order |-> OrderOf(u), state |-> State(u)] \in AllCfds
    /\ \A cfd \in AllCfds :
        \E u \in Uuids : Loadable(u) /\ cfd = [order |-> OrderOf(u), state |-> State(u)]
    /\ \A u : OrderIds(u) = IF u \in 1..Len(orders) THEN {u} ELSE {}

LEMMA ViewsHold == Tables => Views
  <1> SUFFICES ASSUME Tables PROVE Views
    OBVIOUS
  <1>1. \A u : Loadable(u) <=> \E i : Row(u, i)
    BY LoadableIs
  <1>2. \A u, i : Row(u, i) =>
        /\ State(u) = cfd_states[i].state /\ OrderOf(u) = orders[u]
        /\ i \in 1..Len(cfd_states) /\ u \in Uuids
    BY Loads DEF Row
  <1>3. \A u : Loadable(u) =>
        /\ State(u) \in CfdStates /\ u \in Uuids /\ u \in 1..Len(orders)
        /\ OrderOf(u).uuid = u /\ OrderOf(u).event \in Events
        /\ [order |-> OrderOf(u), state |-> State(u)] \in AllCfds
    BY Loaded
  <1>4. \A cfd \in AllCfds :
        \E u \in Uuids : Loadable(u) /\ cfd = [order |-> OrderOf(u), state |-> State(u)]
    BY AllAreLoadable
  <1>5. \A u : OrderIds(u) = IF u \in 1..Len(orders) THEN {u} ELSE {}
    BY OrderIs DEF Tables
  <1> QED BY <1>1, <1>2, <1>3, <1>4, <1>5 DEF Views

LEMMA ViewsHoldNext == Tables' => Views'
  BY ViewsHold, PTL

-----------------------------------------------------------------------------
(* What the statements do to the tables.                                   *)

Kept(u) ==
    /\ Loadable(u)' = Loadable(u)
    /\ Loadable(u) => State(u)' = State(u) /\ OrderOf(u)' = OrderOf(u)

(* A new state of one CFD.                                                 *)
Wrote(u, s) ==
    /\ Loadable(u) /\ Loadable(u)' /\ State(u)' = s /\ OrderOf(u)' = OrderOf(u)
    /\ \A v : v # u => Kept(v)

(* A new CFD.                                                              *)
Created(u, s) ==
    /\ ~Loadable(u) /\ Loadable(u)' /\ State(u)' = s
    /\ \A v : v # u => Kept(v)

(* The clean-up.                                                           *)
CleanedUp ==
    \A v : /\ Loadable(v)' = Loadable(v)
           /\ Loadable(v) =>
                /\ OrderOf(v)' = OrderOf(v)
                /\ State(v)' = IF State(v).kind \in CleanupKinds THEN Bare("SetupFailed")
                               ELSE State(v)

LEMMA Unchanged ==
    ASSUME Tables, UNCHANGED tables
    PROVE  Tables' /\ \A u : Kept(u)
  <1>1. Tables'
    BY DEF tables, Tables, OrderRows, CfdRows, StateRows
  <1>2. \A u, i : Row(u, i)' <=> Row(u, i)
    BY DEF Row, tables
  <1>3. Views /\ Views'
    BY <1>1, ViewsHold, ViewsHoldNext
  <1>4. \A u : Loadable(u)' <=> Loadable(u)
    BY <1>2, <1>3 DEF Views
  <1>5. ASSUME NEW u, Loadable(u) PROVE State(u)' = State(u) /\ OrderOf(u)' = OrderOf(u)
    BY <1>2, <1>3, <1>5 DEF Views, tables
  <1> QED BY <1>1, <1>4, <1>5 DEF Kept

LEMMA Inserts ==
    ASSUME Tables, NEW e \in Events, Len(orders) < MaxOrders, InsertOrder(Len(orders) + 1, e)
    PROVE  Tables' /\ \A u : Kept(u)
  <1> DEFINE o == [uuid |-> Len(orders) + 1, event |-> e]
  <1>1. /\ orders \in Seq([uuid : Nat, event : Events]) /\ Len(orders) \in Nat
        /\ orders' = Append(orders, o) /\ UNCHANGED <<cfds, cfd_states>>
    BY DEF Tables, OrderRows, InsertOrder
  <1>2. o \in [uuid : Nat, event : Events]
    BY <1>1
  <1>3. /\ orders' \in Seq([uuid : Nat, event : Events]) /\ Len(orders') = Len(orders) + 1
        /\ \A i \in 1..Len(orders) : orders'[i] = orders[i]
        /\ orders'[Len(orders) + 1] = o
    BY <1>1, <1>2, AppendProperties
  <1>4. OrderRows'
    <2>1. Len(orders') <= MaxOrders
      BY <1>1, <1>3, HoursAssumption
    <2>2. ASSUME NEW i \in 1..Len(orders') PROVE orders'[i].uuid = i
      BY <1>1, <1>3 DEF Tables, OrderRows
    <2> QED BY <1>3, <2>1, <2>2 DEF OrderRows
  <1>5. CfdRows' /\ StateRows'
    BY <1>1, <1>3 DEF Tables, CfdRows, StateRows
  <1>6. Tables'
    BY <1>4, <1>5 DEF Tables
  <1>7. \A u, i : Row(u, i)' <=> Row(u, i)
    BY <1>1 DEF Row
  <1>8. Views /\ Views'
    BY <1>6, ViewsHold, ViewsHoldNext
  <1>9. \A u : Loadable(u)' <=> Loadable(u)
    BY <1>7, <1>8 DEF Views
  <1>10. ASSUME NEW u, Loadable(u) PROVE State(u)' = State(u) /\ OrderOf(u)' = OrderOf(u)
    <2>1. PICK i : Row(u, i)
      BY <1>8, <1>10 DEF Views
    <2>2. State(u)' = cfd_states'[i].state /\ OrderOf(u)' = orders'[u]
      BY <1>7, <1>8, <2>1 DEF Views
    <2>3. State(u) = cfd_states[i].state /\ OrderOf(u) = orders[u] /\ u \in 1..Len(orders)
      BY <1>8, <1>10, <2>1 DEF Views
    <2> QED BY <1>1, <1>3, <2>2, <2>3
  <1> QED BY <1>6, <1>9, <1>10 DEF Kept

LEMMA Appends ==
    ASSUME Tables, NEW u, NEW s \in CfdStates, AppendCfdState(u, s)
    PROVE  Tables' /\ Wrote(u, s)
  <1>1. Loadable(u) /\ UNCHANGED <<orders, cfds>>
    BY DEF AppendCfdState
  <1>2. PICK id \in CfdIds(u) : cfd_states' = AddState(id, s)
    BY DEF AppendCfdState
  <1>3. /\ cfd_states \in Seq([cfd_id : Nat, state : CfdStates]) /\ Len(cfd_states) \in Nat
        /\ DOMAIN cfd_states = 1..Len(cfd_states)
    BY DEF Tables, StateRows
  <1>4. \A i \in 1..Len(cfd_states) : cfd_states[i] \in [cfd_id : Nat, state : CfdStates]
    BY <1>3, ElementOfSeq
  <1>5. id \in 1..Len(cfds) /\ cfds[id].order_uuid = u
    BY <1>2 DEF CfdIds, Ids, Tables, CfdRows
  <1>6. id \in Nat
    BY <1>5 DEF Tables, CfdRows
  <1> DEFINE row(i) == IF cfd_states[i].cfd_id = id THEN [cfd_id |-> id, state |-> s]
                       ELSE cfd_states[i]
  <1>7. cfd_states' = [i \in 1..Len(cfd_states) |-> row(i)]
    BY <1>2, <1>3 DEF AddState, Ids
  <1>8. \A i \in 1..Len(cfd_states) : row(i) \in [cfd_id : Nat, state : CfdStates]
    BY <1>4, <1>6
  <1>9. /\ cfd_states' \in Seq([cfd_id : Nat, state : CfdStates])
        /\ Len(cfd_states') = Len(cfd_states)
    <2> HIDE DEF row
    <2> QED BY <1>3, <1>7, <1>8
  <1>10. \A i \in 1..Len(cfd_states) :
           /\ cfd_states'[i].cfd_id = cfd_states[i].cfd_id
           /\ cfd_states'[i].state = IF cfd_states[i].cfd_id = id THEN s ELSE cfd_states[i].state
    <2>1. \A i \in 1..Len(cfd_states) : cfd_states'[i] = row(i)
      BY <1>7
    <2> QED BY <2>1
  <1>11. Tables'
    BY <1>1, <1>9, <1>10 DEF Tables, OrderRows, CfdRows, StateRows
  <1>12. Views /\ Views'
    BY <1>11, ViewsHold, ViewsHoldNext
  <1>13. \A v, i : Row(v, i)' <=> Row(v, i)
    BY <1>1, <1>9, <1>10 DEF Row
  <1>14. \A v : Loadable(v)' <=> Loadable(v)
    BY <1>12, <1>13 DEF Views
  <1>15. ASSUME NEW v, Loadable(v)
         PROVE  OrderOf(v)' = OrderOf(v) /\ State(v)' = IF v = u THEN s ELSE State(v)
    <2>1. PICK i : Row(v, i)
      BY <1>12, <1>15 DEF Views
    <2>2. State(v)' = cfd_states'[i].state /\ OrderOf(v)' = orders'[v]
      BY <1>12, <1>13, <2>1 DEF Views
    <2>3. State(v) = cfd_states[i].state /\ OrderOf(v) = orders[v] /\ i \in 1..Len(cfd_states)
      BY <1>12, <2>1 DEF Views
    <2>4. cfd_states[i].cfd_id = id <=> v = u
      <3>1. cfd_states[i].cfd_id \in 1..Len(cfds) /\ cfds[cfd_states[i].cfd_id].order_uuid = v
        BY <2>1, <2>3 DEF Row, Tables, StateRows
      <3> QED BY <3>1, <1>5 DEF Tables, CfdRows
    <2> QED BY <1>1, <1>10, <2>2, <2>3, <2>4
  <1> QED BY <1>1, <1>11, <1>14, <1>15 DEF Wrote, Kept

(* The first statement of insert_cfd adds a CFD that is not seen.          *)
LEMMA InsertsRow ==
    ASSUME Tables, NEW u, InsertCfdRow(u)
    PROVE  /\ ~Loadable(u) /\ u \in 1..Len(orders) /\ UNCHANGED orders
           /\ Len(cfds) \in Nat /\ Len(cfds') = Len(cfds) + 1
           /\ \A i \in 1..Len(cfds) : cfds'[i] = cfds[i] /\ cfds[i].order_uuid # u
           /\ cfds'[Len(cfds) + 1].order_uuid = u
           /\ OrderRows' /\ CfdRows'
  <1>1. /\ cfds \in Seq([order_id : Nat, order_uuid : Nat]) /\ Len(cfds) \in Nat
        /\ DOMAIN cfds = 1..Len(cfds)
    BY DEF Tables, CfdRows
  <1>2. ~Loadable(u) /\ HasOrder(u) /\ CfdIds(u) = {} /\ UNCHANGED orders
    BY DEF InsertCfdRow
  <1>3. OrderIds(u) = IF u \in 1..Len(orders) THEN {u} ELSE {}
    BY ViewsHold DEF Views
  <1>4. u \in 1..Len(orders) /\ OrderIds(u) = {u}
    BY <1>2, <1>3 DEF HasOrder
  <1>5. u \in Nat
    BY <1>4, OrderIs DEF Tables
  <1> DEFINE c == [order_id |-> u, order_uuid |-> u]
  <1>6. cfds' = Append(cfds, c)
    BY <1>4 DEF InsertCfdRow
  <1>7. /\ cfds' \in Seq([order_id : Nat, order_uuid : Nat]) /\ Len(cfds') = Len(cfds) + 1
        /\ \A i \in 1..Len(cfds) : cfds'[i] = cfds[i]
        /\ cfds'[Len(cfds) + 1] = c
    BY <1>1, <1>5, <1>6, AppendProperties
  <1>8. \A i \in 1..Len(cfds) : cfds[i].order_uuid # u
    BY <1>1, <1>2 DEF CfdIds, Ids
  <1>9. OrderRows'
    BY <1>2 DEF Tables, OrderRows
  <1>10. CfdRows'
    <2>1. \A i \in 1..Len(cfds') : i \in 1..Len(cfds) \/ i = Len(cfds) + 1
      BY <1>1, <1>7
    <2>2. ASSUME NEW i \in 1..Len(cfds')
          PROVE  /\ cfds'[i].order_id = cfds'[i].order_uuid
                 /\ cfds'[i].order_uuid \in 1..Len(orders')
      <3>1. CASE i \in 1..Len(cfds)
        <4>1. cfds'[i] = cfds[i] /\ orders' = orders
          BY <1>2, <1>7, <3>1
        <4>2. cfds[i].order_id = cfds[i].order_uuid /\ cfds[i].order_uuid \in 1..Len(orders)
          BY <3>1 DEF Tables, CfdRows
        <4> QED BY <4>1, <4>2
      <3>2. CASE i = Len(cfds) + 1
        <4>1. cfds'[i] = c
          BY <1>7, <3>2
        <4> QED BY <1>2, <1>4, <4>1
      <3> QED BY <2>1, <3>1, <3>2
    <2>3. ASSUME NEW i \in 1..Len(cfds'), NEW j \in 1..Len(cfds'),
                 cfds'[i].order_uuid = cfds'[j].order_uuid
          PROVE  i = j
      <3>1. c.order_uuid = u
        OBVIOUS
      <3> HIDE DEF c
      <3>2. CASE i \in 1..Len(cfds) /\ j \in 1..Len(cfds)
        BY <1>7, <2>3, <3>2 DEF Tables, CfdRows
      <3>3. ASSUME NEW k \in 1..Len(cfds), cfds'[k].order_uuid = cfds'[Len(cfds) + 1].order_uuid
            PROVE  FALSE
        BY <1>7, <1>8, <3>1, <3>3
      <3> QED BY <2>1, <2>3, <3>2, <3>3
    <2> QED BY <1>7, <2>2, <2>3 DEF CfdRows
  <1>11. ~Loadable(u) /\ u \in 1..Len(orders) /\ UNCHANGED orders
    BY <1>2, <1>4
  <1>12. cfds'[Len(cfds) + 1].order_uuid = u
    BY <1>7
  <1>13. \A i \in 1..Len(cfds) : cfds'[i] = cfds[i] /\ cfds[i].order_uuid # u
    BY <1>7, <1>8
  <1>14. Len(cfds) \in Nat /\ Len(cfds') = Len(cfds) + 1
    BY <1>1, <1>7
  <1> HIDE DEF c
  <1> QED BY <1>9, <1>10, <1>11, <1>12, <1>13, <1>14

LEMMA InsertsCfd ==
    ASSUME Tables, NEW u, NEW s \in CfdStates, InsertCfd(u, s)
    PROVE  Tables' /\ Created(u, s) /\ u \in Uuids
  <1>1. InsertCfdRow(u) /\ cfd_states' = Append(cfd_states, [cfd_id |-> Len(cfds'), state |-> s])
    BY DEF InsertCfd
  <1>2. /\ ~Loadable(u) /\ u \in 1..Len(orders) /\ UNCHANGED orders
        /\ Len(cfds) \in Nat /\ Len(cfds') = Len(cfds) + 1
        /\ \A i \in 1..Len(cfds) : cfds'[i] = cfds[i] /\ cfds[i].order_uuid # u
        /\ cfds'[Len(cfds) + 1].order_uuid = u
        /\ OrderRows' /\ CfdRows'
    BY <1>1, InsertsRow
  <1> DEFINE r == [cfd_id |-> Len(cfds) + 1, state |-> s]
  <1>3. cfd_states \in Seq([cfd_id : Nat, state : CfdStates]) /\ Len(cfd_states) \in Nat
    BY DEF Tables, StateRows
  <1>4. cfd_states' = Append(cfd_states, r)
    BY <1>1, <1>2
  <1>5. r \in [cfd_id : Nat, state : CfdStates]
    BY <1>2
  <1>6. /\ cfd_states' \in Seq([cfd_id : Nat, state : CfdStates])
        /\ Len(cfd_states') = Len(cfd_states) + 1
        /\ \A i \in 1..Len(cfd_states) : cfd_states'[i] = cfd_states[i]
        /\ cfd_states'[Len(cfd_states) + 1] = r
    BY <1>3, <1>4, <1>5, AppendProperties
  <1>7. \A i \in 1..Len(cfd_states) : cfd_states[i].cfd_id \in 1..Len(cfds)
    BY DEF Tables, StateRows
  <1>8. StateRows'
    <2> DEFINE N == Len(cfd_states)
               M == Len(cfds)
    <2>0. /\ N \in Nat /\ M \in Nat /\ Len(cfd_states') = N + 1 /\ Len(cfds') = M + 1
          /\ \A i \in 1..(N + 1) : i \in 1..N \/ i = N + 1
          /\ \A i \in 1..N : cfd_states'[i] = cfd_states[i] /\ cfd_states[i].cfd_id \in 1..M
          /\ cfd_states'[N + 1].cfd_id = M + 1
      BY <1>2, <1>3, <1>6, <1>7
    <2> HIDE DEF N, M
    <2>1. ASSUME NEW i \in 1..Len(cfd_states') PROVE cfd_states'[i].cfd_id \in 1..Len(cfds')
      <3>1. i \in 1..N \/ i = N + 1
        BY <2>0
      <3> QED BY <2>0, <3>1
    <2>2. ASSUME NEW i \in 1..Len(cfd_states'), NEW j \in 1..Len(cfd_states'),
                 cfd_states'[i].cfd_id = cfd_states'[j].cfd_id
          PROVE  i = j
      <3>1. (i \in 1..N \/ i = N + 1) /\ (j \in 1..N \/ j = N + 1)
        BY <2>0
      <3>2. CASE i \in 1..N /\ j \in 1..N
        BY <2>0, <2>2, <3>2 DEF N, Tables, StateRows
      <3> QED BY <2>0, <2>2, <3>1, <3>2
    <2> QED BY <1>6, <2>1, <2>2 DEF StateRows
  <1>9. Tables'
    BY <1>2, <1>8 DEF Tables
  <1>10. Views /\ Views'
    BY <1>9, ViewsHold, ViewsHoldNext
  <1>20. PICK n : n = Len(cfd_states) + 1
    OBVIOUS
  <1>11. Row(u, n)'
    BY <1>2, <1>3, <1>6, <1>20 DEF Row
  <1>12. \A v, i : v # u => (Row(v, i)' <=> Row(v, i))
    <2>1. ASSUME NEW v, NEW i, v # u, Row(v, i) PROVE Row(v, i)'
      <3>1. i \in 1..Len(cfd_states) /\ cfds[cfd_states[i].cfd_id].order_uuid = v
        BY <2>1 DEF Row
      <3>2. i \in 1..Len(cfd_states') /\ cfd_states'[i] = cfd_states[i]
        BY <1>3, <1>6, <3>1
      <3>3. cfds'[cfd_states[i].cfd_id] = cfds[cfd_states[i].cfd_id]
        BY <1>2, <1>7, <3>1
      <3> QED BY <3>1, <3>2, <3>3 DEF Row
    <2>2. ASSUME NEW v, NEW i, v # u, Row(v, i)' PROVE Row(v, i)
      <3>1. i \in 1..Len(cfd_states') /\ cfds'[cfd_states'[i].cfd_id].order_uuid = v
        BY <2>2 DEF Row
      <3>2. i # n
        BY <1>2, <1>6, <1>20, <2>2, <3>1
      <3>3. i \in 1..Len(cfd_states) /\ cfd_states'[i] = cfd_states[i]
        BY <1>3, <1>6, <1>20, <3>1, <3>2
      <3> QED BY <1>2, <1>7, <3>1, <3>3 DEF Row
    <2> QED BY <2>1, <2>2
  <1>13. Loadable(u)' /\ State(u)' = s
    <2>1. Loadable(u)'
      BY <1>10, <1>11 DEF Views
    <2>2. State(u)' = cfd_states'[n].state
      BY <1>10, <1>11 DEF Views
    <2> QED BY <1>6, <1>20, <2>1, <2>2
  <1>14. \A v : v # u => (Loadable(v)' <=> Loadable(v))
    BY <1>10, <1>12 DEF Views
  <1>15. ASSUME NEW v, v # u, Loadable(v) PROVE State(v)' = State(v) /\ OrderOf(v)' = OrderOf(v)
    <2>1. PICK i : Row(v, i)
      BY <1>10, <1>15 DEF Views
    <2>2. State(v)' = cfd_states'[i].state /\ OrderOf(v)' = orders'[v]
      BY <1>10, <1>12, <1>15, <2>1 DEF Views
    <2>3. State(v) = cfd_states[i].state /\ OrderOf(v) = orders[v] /\ i \in 1..Len(cfd_states)
      BY <1>10, <2>1 DEF Views
    <2> QED BY <1>2, <1>6, <2>2, <2>3
  <1>16. u \in Uuids
    BY <1>2, OrderIs DEF Tables
  <1>17. \A v : v # u => Kept(v)
    BY <1>14, <1>15 DEF Kept, Loadable
  <1> QED BY <1>2, <1>9, <1>13, <1>16, <1>17 DEF Created

(* The clean-up, with or without a CFD that has no state.                  *)
LEMMA CleansUp ==
    ASSUME Tables, FailUnfinished,
           UNCHANGED <<orders, cfds>> \/ \E u : InsertCfdRow(u)
    PROVE  Tables' /\ CleanedUp
  <1>1. /\ UNCHANGED orders /\ OrderRows' /\ CfdRows'
        /\ Len(cfds) \in Nat /\ Len(cfds') >= Len(cfds)
        /\ \A i \in 1..Len(cfds) : cfds'[i] = cfds[i]
    <2>1. CASE UNCHANGED <<orders, cfds>>
      <3>1. OrderRows' /\ CfdRows'
        BY <2>1 DEF Tables, OrderRows, CfdRows
      <3>2. Len(cfds) \in Nat
        BY DEF Tables, CfdRows
      <3> QED BY <2>1, <3>1, <3>2
    <2>2. ASSUME NEW u, InsertCfdRow(u)
          PROVE  /\ UNCHANGED orders /\ OrderRows' /\ CfdRows'
                 /\ Len(cfds) \in Nat /\ Len(cfds') >= Len(cfds)
                 /\ \A i \in 1..Len(cfds) : cfds'[i] = cfds[i]
      BY <2>2, InsertsRow
    <2> QED BY <2>1, <2>2
  <1>2. /\ cfd_states \in Seq([cfd_id : Nat, state : CfdStates]) /\ Len(cfd_states) \in Nat
        /\ DOMAIN cfd_states = 1..Len(cfd_states)
    BY DEF Tables, StateRows
  <1>3. \A i \in 1..Len(cfd_states) : cfd_states[i] \in [cfd_id : Nat, state : CfdStates]
    BY <1>2, ElementOfSeq
  <1> DEFINE row(i) == IF cfd_states[i].state.kind \in CleanupKinds
                       THEN [cfd_states[i] EXCEPT !.state = Bare("SetupFailed")]
                       ELSE cfd_states[i]
  <1>4. cfd_states' = [i \in 1..Len(cfd_states) |-> row(i)]
    BY <1>2 DEF FailUnfinished, Ids
  <1>5. Bare("SetupFailed") \in CfdStates
    BY IsState DEF BareKinds
  <1>6. \A i \in 1..Len(cfd_states) :
          /\ row(i) \in [cfd_id : Nat, state : CfdStates]
          /\ row(i).cfd_id = cfd_states[i].cfd_id
          /\ row(i).state = IF cfd_states[i].state.kind \in CleanupKinds
                            THEN Bare("SetupFailed") ELSE cfd_states[i].state
    BY <1>3, <1>5
  <1>7. /\ cfd_states' \in Seq([cfd_id : Nat, state : CfdStates])
        /\ Len(cfd_states') = Len(cfd_states)
        /\ \A i \in 1..Len(cfd_states) : cfd_states'[i] = row(i)
    <2> HIDE DEF row
    <2> QED BY <1>2, <1>4, <1>6
  <1>8. Tables'
    <2> HIDE DEF row
    <2>1. StateRows'
      <3>1. \A i \in 1..Len(cfd_states) :
              cfd_states'[i].cfd_id = cfd_states[i].cfd_id /\ cfd_states[i].cfd_id \in 1..Len(cfds')
        <4>1. \A i \in 1..Len(cfd_states) : cfd_states[i].cfd_id \in 1..Len(cfds)
          BY DEF Tables, StateRows
        <4>2. 1..Len(cfds) \subseteq 1..Len(cfds')
          <5>1. Len(cfds') \in Nat
            BY <1>1 DEF CfdRows
          <5> QED BY <1>1, <5>1
        <4>3. \A i \in 1..Len(cfd_states) : cfd_states'[i].cfd_id = cfd_states[i].cfd_id
          BY <1>6, <1>7
        <4> QED BY <4>1, <4>2, <4>3
      <3> QED BY <1>7, <3>1 DEF Tables, StateRows
    <2> QED BY <1>1, <2>1 DEF Tables
  <1>9. Views /\ Views'
    BY <1>8, ViewsHold, ViewsHoldNext
  <1>10. \A v, i : Row(v, i)' <=> Row(v, i)
    <2> HIDE DEF row
    <2>1. \A i \in 1..Len(cfd_states) : cfds'[cfd_states[i].cfd_id] = cfds[cfd_states[i].cfd_id]
      BY <1>1 DEF Tables, StateRows
    <2>2. \A i \in 1..Len(cfd_states) : cfd_states'[i].cfd_id = cfd_states[i].cfd_id
      BY <1>6, <1>7
    <2> QED BY <1>7, <2>1, <2>2 DEF Row
  <1>11. \A v : Loadable(v)' <=> Loadable(v)
    BY <1>9, <1>10 DEF Views
  <1>12. ASSUME NEW v, Loadable(v)
         PROVE  /\ OrderOf(v)' = OrderOf(v)
                /\ State(v)' = IF State(v).kind \in CleanupKinds THEN Bare("SetupFailed")
                               ELSE State(v)
    <2>1. PICK i : Row(v, i)
      BY <1>9, <1>12 DEF Views
    <2>2. State(v)' = cfd_states'[i].state /\ OrderOf(v)' = orders'[v]
      BY <1>9, <1>10, <2>1 DEF Views
    <2>3. State(v) = cfd_states[i].state /\ OrderOf(v) = orders[v] /\ i \in 1..Len(cfd_states)
      BY <1>9, <2>1 DEF Views
    <2> HIDE DEF row
    <2> QED BY <1>1, <1>6, <1>7, <2>2, <2>3
  <1> QED BY <1>8, <1>11, <1>12 DEF CleanedUp

-----------------------------------------------------------------------------
(* The invariant is kept.                                                  *)

Covered(u, e) ==
    \/ e \in pending \cup asked \/ Mailed(e)
    \/ ~Idle /\ attesting.event = e /\ u \in attesting.left

Needs(u) == Waits(u) /\ Requested(u)

LEMMA NothingMissedIs ==
    TypeOK => (NothingMissed <=> \A u \in Uuids : Needs(u) => Covered(u, OrderOf(u).event))
  <1> SUFFICES ASSUME TypeOK
               PROVE  NothingMissed <=> \A u \in Uuids : Needs(u) => Covered(u, OrderOf(u).event)
    OBVIOUS
  <1>1. DOMAIN mail = 1..Len(mail)
    BY DEF TypeOK
  <1> QED BY <1>1 DEF NothingMissed, Covered, Mailed, Needs

LEMMA NothingMissedIsNext ==
    TypeOK' => (NothingMissed' <=>
                \A u \in Uuids : Needs(u)' => (Covered(u, OrderOf(u).event))')
  <1>1. (TypeOK => (NothingMissed <=> \A u \in Uuids : Needs(u) => Covered(u, OrderOf(u).event)))'
    BY NothingMissedIs, PTL
  <1> QED BY <1>1

(* Time only ends a request.                                               *)
Later == role' = role /\ (now' = now \/ now' = now + 1)

LEMMA RequestedBefore ==
    ASSUME TypeOK, Later, NEW u, Loadable(u), OrderOf(u)' = OrderOf(u),
           u \in watched' => u \in watched, Requested(u)'
    PROVE  Requested(u)
  <1>1. PICK e : e = OrderOf(u).event
    OBVIOUS
  <1>2. e \in Events /\ e = OrderOf(u)'.event
    BY <1>1, Loaded DEF TypeOK
  <1>3. e \in Int /\ now \in Int
    BY <1>2, HoursAssumption DEF Events, TypeOK
  <1>4. CASE u \in watched'
    BY <1>4 DEF Requested
  <1>5. CASE role' = "taker" /\ ~(now' >= e)
    <2>1. role = "taker" /\ ~(now >= e)
      BY <1>3, <1>5 DEF Later
    <2> QED BY <1>1, <2>1 DEF Requested, Occurred
  <1> QED BY <1>2, <1>4, <1>5 DEF Requested, Occurred

(* Where no CFD changes, none begins to wait.                              *)
LEMMA Stays ==
    ASSUME TypeOK, \A u : Kept(u), UNCHANGED <<erased, watched>>, Later
    PROVE  /\ \A u : Needs(u)' => Needs(u) /\ OrderOf(u)' = OrderOf(u)
           /\ \A e : HasCfd(e) => HasCfd(e)'
           /\ setup' = setup => (SettingUp => SettingUp')
           /\ Followed => Followed'
  <1>1. ASSUME NEW u, Needs(u)' PROVE Needs(u) /\ OrderOf(u)' = OrderOf(u)
    <2>1. Waits(u) /\ OrderOf(u)' = OrderOf(u) /\ Loadable(u)
      BY <1>1 DEF Needs, Waits, Kept
    <2>2. Requested(u)
      BY <1>1, <2>1, RequestedBefore DEF Needs
    <2> QED BY <2>1, <2>2 DEF Needs
  <1>2. \A e : HasCfd(e) => HasCfd(e)'
    BY DEF HasCfd, Kept
  <1>3. ASSUME setup' = setup, SettingUp PROVE SettingUp'
    <2>1. PICK u : u = setup
      OBVIOUS
    <2>2. u # None => Loadable(u) /\ State(u) = Bare("ContractSetup")
      BY <1>3, <2>1 DEF SettingUp
    <2>3. u # None => Loadable(u)' /\ State(u)' = Bare("ContractSetup")
      BY <2>2 DEF Kept
    <2>4. u = setup'
      BY <1>3, <2>1
    <2> QED BY <2>3, <2>4 DEF SettingUp
  <1>4. Followed => Followed'
    BY DEF Followed, Kept
  <1> QED BY <1>1, <1>2, <1>3, <1>4

(* A step that changes no CFD, and loses no attestation.                   *)
LEMMA Quiet ==
    ASSUME IInv, Tables', \A u : Kept(u), UNCHANGED <<erased, setup, watched>>, Later, TypeOK',
           \A u \in Uuids, e \in Events : Covered(u, e) => Covered(u, e)',
           \A e \in Events : (e \in pending' \cup asked' \cup fetching' \/ Mailed(e)')
                             => e \in pending \cup asked \cup fetching \/ Mailed(e)
    PROVE  IInv'
  <1>1. TypeOK /\ SettingUp' /\ Followed'
    BY Stays DEF IInv
  <1>2. Wanted'
    BY Stays DEF IInv, Wanted
  <1>3. ASSUME NEW u \in Uuids, Needs(u)' PROVE (Covered(u, OrderOf(u).event))'
    <2>1. Needs(u) /\ OrderOf(u)' = OrderOf(u)
      BY <1>1, <1>3, Stays
    <2>2. PICK e : e = OrderOf(u).event
      OBVIOUS
    <2>3. e \in Events /\ Covered(u, e)
      BY <2>1, <2>2, Loaded, NothingMissedIs DEF Needs, Waits, IInv, TypeOK
    <2>4. Covered(u, e)' /\ e = OrderOf(u)'.event
      BY <2>1, <2>2, <2>3
    <2> QED BY <2>4 DEF Covered, Mailed
  <1>4. NothingMissed'
    BY <1>3, NothingMissedIsNext
  <1> QED BY <1>1, <1>2, <1>4 DEF IInv

LEMMA Mails ==
    ASSUME mail \in Seq(Events), NEW e \in Events
    PROVE  /\ mail' = Append(mail, e) =>
                mail' \in Seq(Events) /\ \A f : Mailed(f)' <=> Mailed(f) \/ f = e
           /\ mail # <<>> => /\ Head(mail) \in Events /\ Mailed(Head(mail))
                             /\ Tail(mail) \in Seq(Events)
           /\ mail # <<>> /\ mail' = Tail(mail) =>
                \A f : Mailed(f) <=> Mailed(f)' \/ f = Head(mail)
  <1>1. ASSUME mail' = Append(mail, e)
        PROVE  mail' \in Seq(Events) /\ \A f : Mailed(f)' <=> Mailed(f) \/ f = e
    <2>1. /\ mail' \in Seq(Events) /\ Len(mail) \in Nat /\ Len(mail') = Len(mail) + 1
          /\ mail'[Len(mail) + 1] = e
          /\ \A i \in 1..Len(mail) : mail'[i] = mail[i]
      BY <1>1, AppendProperties
    <2>2. \A i \in 1..Len(mail') : i \in 1..Len(mail) \/ i = Len(mail) + 1
      BY <2>1
    <2>3. 1..Len(mail) \subseteq 1..Len(mail') /\ Len(mail) + 1 \in 1..Len(mail')
      BY <2>1
    <2> QED BY <2>1, <2>2, <2>3 DEF Mailed
  <1>2. ASSUME mail # <<>>
        PROVE  /\ Head(mail) \in Events /\ Mailed(Head(mail)) /\ Tail(mail) \in Seq(Events)
               /\ Head(mail) = mail[1] /\ Len(mail) \in Nat /\ Len(mail) > 0
               /\ Len(Tail(mail)) = Len(mail) - 1
               /\ \A i \in 1..Len(Tail(mail)) : Tail(mail)[i] = mail[i + 1]
    <2>1. /\ Head(mail) \in Events /\ Tail(mail) \in Seq(Events) /\ Head(mail) = mail[1]
          /\ Len(mail) \in Nat /\ Len(mail) > 0 /\ Len(Tail(mail)) = Len(mail) - 1
          /\ \A i \in 1..Len(Tail(mail)) : Tail(mail)[i] = mail[i + 1]
      BY <1>2, HeadTailProperties, EmptySeq
    <2> QED BY <2>1 DEF Mailed
  <1>3. ASSUME mail # <<>>, mail' = Tail(mail), NEW f
        PROVE  Mailed(f) <=> Mailed(f)' \/ f = Head(mail)
    <2>1. /\ Head(mail) = mail[1] /\ Len(mail) \in Nat /\ Len(mail) > 0
          /\ Len(mail') = Len(mail) - 1
          /\ \A i \in 1..Len(mail') : mail'[i] = mail[i + 1]
      BY <1>2, <1>3
    <2>2. ASSUME NEW i \in 1..Len(mail), mail[i] = f, f # Head(mail) PROVE Mailed(f)'
      <3>1. i - 1 \in 1..Len(mail') /\ mail'[i - 1] = f
        BY <2>1, <2>2
      <3> QED BY <3>1 DEF Mailed
    <2>3. ASSUME NEW i \in 1..Len(mail'), mail'[i] = f PROVE Mailed(f)
      <3>1. i + 1 \in 1..Len(mail) /\ mail[i + 1] = f
        BY <2>1, <2>3
      <3> QED BY <3>1 DEF Mailed
    <2> QED BY <1>2, <1>3, <2>2, <2>3 DEF Mailed
  <1> QED BY <1>1, <1>2, <1>3

LEMMA OracleKeeps ==
    ASSUME IInv, OracleNext
    PROVE  IInv'
  <1>1. UNCHANGED <<tables, role, now, attesting, setup, watched, erased, crashes>> /\ Later
    BY DEF Later, OracleNext, Sync, NewAnnouncementFetched, NewAttestationFetched, MonitorAttestation,
           actorVars
  <1>2. TypeOK /\ Tables /\ Tables' /\ \A u : Kept(u)
    BY <1>1, Unchanged DEF IInv, TypeOK
  <1> DEFINE Goal ==
        /\ announcements' \subseteq Events /\ announcing' \subseteq Events
        /\ pending' \subseteq Events /\ asked' \subseteq Events /\ fetching' \subseteq Events
        /\ mail' \in Seq(Events)
        /\ \A e : e \in pending \cup asked \/ Mailed(e) => e \in pending' \cup asked' \/ Mailed(e)'
        /\ \A e \in Events : (e \in pending' \cup asked' \cup fetching' \/ Mailed(e)')
                             => e \in pending \cup asked \cup fetching \/ Mailed(e)
  <1>3. ASSUME Sync PROVE Goal
    <2>1. /\ announcing' \subseteq Events /\ fetching' \subseteq pending \cup fetching
          /\ fetching \subseteq fetching' /\ UNCHANGED <<announcements, pending, asked, mail>>
      BY <1>3 DEF Sync, EnsureHavingAnnouncements, UpdatePendingAttestations, actorVars
    <2>2. \A e : Mailed(e)' <=> Mailed(e)
      BY <2>1 DEF Mailed
    <2> QED BY <1>2, <2>1, <2>2 DEF TypeOK
  <1>4. ASSUME NEW e \in Events, NewAnnouncementFetched(e) PROVE Goal
    <2>1. /\ announcing' \subseteq announcing /\ announcements' = announcements \cup {e}
          /\ UNCHANGED <<pending, asked, fetching, mail>>
      BY <1>4 DEF NewAnnouncementFetched, actorVars
    <2>2. \A f : Mailed(f)' <=> Mailed(f)
      BY <2>1 DEF Mailed
    <2> QED BY <1>2, <2>1, <2>2 DEF TypeOK
  <1>5. ASSUME NEW e \in Events, NewAttestationFetched(e) PROVE Goal
    <2>1. /\ fetching' = fetching \ {e} /\ pending' = pending \ {e} /\ e \in fetching
          /\ mail' = Append(mail, e) /\ UNCHANGED <<announcements, announcing, asked>>
      BY <1>5 DEF NewAttestationFetched
    <2>2. mail' \in Seq(Events) /\ \A f : Mailed(f)' <=> Mailed(f) \/ f = e
      BY <1>2, <2>1, Mails DEF TypeOK
    <2> QED BY <1>2, <2>1, <2>2 DEF TypeOK
  <1>6. ASSUME NEW e \in Events, MonitorAttestation(e) PROVE Goal
    <2>1. /\ e \in asked /\ asked' = asked \ {e} /\ pending' = pending \cup {e}
          /\ UNCHANGED <<announcements, announcing, fetching, mail>>
      BY <1>6 DEF MonitorAttestation, actorVars
    <2>2. \A f : Mailed(f)' <=> Mailed(f)
      BY <2>1 DEF Mailed
    <2> QED BY <1>2, <2>1, <2>2 DEF TypeOK
  <1>7. Goal
    BY <1>3, <1>4, <1>5, <1>6 DEF OracleNext
  <1>8. TypeOK'
    BY <1>1, <1>2, <1>7 DEF TypeOK
  <1>9. \A u \in Uuids, e \in Events : Covered(u, e) => Covered(u, e)'
    BY <1>1, <1>7 DEF Covered, Idle
  <1> HIDE DEF Goal
  <1>10. \A e \in Events : (e \in pending' \cup asked' \cup fetching' \/ Mailed(e)')
                           => e \in pending \cup asked \cup fetching \/ Mailed(e)
    BY <1>7 DEF Goal
  <1> QED BY <1>1, <1>2, <1>8, <1>9, <1>10, Quiet

(* The cfd actor begins with the CFDs of an attested event.                *)
LEMMA AttestationKeeps ==
    ASSUME IInv, OracleAttestation
    PROVE  IInv'
  <1>1. /\ Idle /\ mail # <<>> /\ mail' = Tail(mail)
        /\ UNCHANGED <<tables, role, now, announcements, announcing, pending, asked, fetching,
                       setup, watched, erased, crashes>>
        /\ Later
    BY DEF OracleAttestation, oracleVars, Later
  <1>2. TypeOK /\ Tables /\ Tables' /\ \A u : Kept(u)
    BY <1>1, Unchanged DEF IInv, TypeOK
  <1>3. Views
    BY <1>2, ViewsHold
  <1>4. PICK h : h = Head(mail)
    OBVIOUS
  <1> DEFINE loop == {cfd.order.uuid : cfd \in CfdsOfEvent(h)}
  <1>5. attesting' = [event |-> h, left |-> loop]
    BY <1>4 DEF OracleAttestation
  <1>6. /\ h \in Events /\ Mailed(h) /\ mail' \in Seq(Events)
        /\ \A f : Mailed(f) <=> Mailed(f)' \/ f = h
    BY <1>1, <1>2, <1>4, Mails DEF TypeOK
  <1>7. ASSUME NEW u, Loadable(u), OrderOf(u).event = h PROVE u \in loop
    <2>1. [order |-> OrderOf(u), state |-> State(u)] \in AllCfds /\ OrderOf(u).uuid = u
      BY <1>3, <1>7 DEF Views
    <2>2. [order |-> OrderOf(u), state |-> State(u)] \in CfdsOfEvent(h)
      BY <1>7, <2>1 DEF CfdsOfEvent
    <2> QED BY <2>1, <2>2
  <1>8. loop \subseteq Uuids
    <2>1. ASSUME NEW cfd \in CfdsOfEvent(h) PROVE cfd.order.uuid \in Uuids
      <3>1. PICK u \in Uuids : Loadable(u) /\ cfd = [order |-> OrderOf(u), state |-> State(u)]
        BY <1>3 DEF Views, CfdsOfEvent
      <3>2. OrderOf(u).uuid = u
        BY <1>3, <3>1 DEF Views
      <3> QED BY <3>1, <3>2
    <2> QED BY <2>1
  <1>9. loop # {}
    <2>1. HasCfd(h)
      BY <1>6 DEF IInv, Wanted
    <2> QED BY <1>7, <2>1 DEF HasCfd
  <1> HIDE DEF loop
  <1>10. attesting' \in [event : Events, left : (SUBSET Uuids) \ {{}}] /\ attesting' # None
    <2>1. attesting' \in [event : Events, left : (SUBSET Uuids) \ {{}}]
      BY <1>5, <1>6, <1>8, <1>9
    <2>2. attesting' \in [event : Events, left : SUBSET Uuids]
      BY <1>5, <1>6, <1>8
    <2> QED BY <2>1, <2>2, ApartAssumption
  <1>11. TypeOK'
    BY <1>1, <1>2, <1>6, <1>10 DEF TypeOK, Option
  <1>12. SettingUp' /\ Followed'
    BY <1>1, <1>2, Stays DEF IInv
  <1>13. Wanted'
    BY <1>1, <1>2, <1>6, Stays DEF IInv, Wanted
  <1>14. ASSUME NEW u \in Uuids, Needs(u)' PROVE (Covered(u, OrderOf(u).event))'
    <2>1. Needs(u) /\ OrderOf(u)' = OrderOf(u)
      BY <1>1, <1>2, <1>14, Stays
    <2>2. PICK e : e = OrderOf(u).event
      OBVIOUS
    <2>3. Covered(u, e) /\ Loadable(u)
      BY <1>2, <2>1, <2>2, NothingMissedIs DEF Needs, Waits, IInv
    <2>4. e \in pending' \cup asked' \/ Mailed(e)' \/ e = h
      BY <1>1, <1>6, <2>3 DEF Covered
    <2>5. e = h => attesting'.event = e /\ u \in attesting'.left
      BY <1>5, <1>7, <2>2, <2>3
    <2>6. Covered(u, e)'
      BY <1>10, <2>4, <2>5 DEF Covered, Idle
    <2>7. e = OrderOf(u)'.event
      BY <2>1, <2>2
    <2> QED BY <2>6, <2>7 DEF Covered, Mailed
  <1>15. NothingMissed'
    BY <1>11, <1>14, NothingMissedIsNext
  <1> QED BY <1>11, <1>12, <1>13, <1>15 DEF IInv

(* A step that writes the state s of one CFD.                              *)
LEMMA WriteKeeps ==
    ASSUME IInv, TypeOK', NEW u \in Uuids, NEW s, Wrote(u, s), erased \subseteq erased',
           Later, watched' \subseteq watched \cup {u},
           u \in watched' => s.kind \notin CleanupKinds,
           \/ setup' = None
           \/ setup' = setup /\ setup # u
           \/ setup' = u /\ s = Bare("ContractSetup"),
           \A v \in Uuids, e \in Events : v # u /\ Covered(v, e) => Covered(v, e)',
           \A e \in Events :
             (e \in pending' \cup asked' \cup fetching' \/ Mailed(e)')
             => e \in pending \cup asked \cup fetching \/ Mailed(e) \/ e = OrderOf(u).event,
           NEW f, f = OrderOf(u).event, Needs(u)' => Covered(u, f)'
    PROVE  IInv'
  <1>1. /\ TypeOK /\ SettingUp /\ Followed /\ Wanted
        /\ Loadable(u) /\ Loadable(u)' /\ State(u)' = s /\ OrderOf(u)' = OrderOf(u)
        /\ \A v : v # u => Kept(v)
    BY DEF IInv, Wrote
  <1>2. SettingUp'
    <2>1. PICK w : w = setup'
      OBVIOUS
    <2>2. CASE w = None
      BY <2>1, <2>2 DEF SettingUp
    <2>3. CASE w = u /\ s = Bare("ContractSetup")
      BY <1>1, <2>1, <2>3 DEF SettingUp
    <2>4. CASE w = setup /\ setup # u /\ w # None
      <3>1. Loadable(w) /\ State(w) = Bare("ContractSetup")
        BY <1>1, <2>4 DEF SettingUp
      <3>2. Loadable(w)' /\ State(w)' = Bare("ContractSetup")
        BY <1>1, <2>4, <3>1 DEF Kept
      <3> QED BY <2>1, <3>2 DEF SettingUp
    <2> QED BY <2>1, <2>2, <2>3, <2>4
  <1>3. \A v : Loadable(v) => Loadable(v)' /\ OrderOf(v)' = OrderOf(v)
    BY <1>1 DEF Kept
  <1>4. \A e : HasCfd(e) => HasCfd(e)'
    BY <1>3 DEF HasCfd
  <1>6. HasCfd(f)'
    BY <1>1 DEF HasCfd
  <1>7. Wanted'
    BY <1>1, <1>4, <1>6 DEF Wanted
  <1>8. Followed'
    <2>1. ASSUME NEW v \in watched' PROVE Loadable(v)' /\ State(v)'.kind \notin CleanupKinds
      <3>1. CASE v = u
        BY <1>1, <2>1, <3>1
      <3>2. CASE v # u
        <4>1. v \in watched /\ Kept(v)
          BY <1>1, <2>1, <3>2
        <4> QED BY <1>1, <4>1 DEF Followed, Kept
      <3> QED BY <3>1, <3>2
    <2> QED BY <2>1 DEF Followed
  <1>9. ASSUME NEW v \in Uuids, Needs(v)' PROVE (Covered(v, OrderOf(v).event))'
    <2>1. CASE v = u
      <3>1. Covered(v, f)' /\ f = OrderOf(v)'.event
        BY <1>1, <1>9, <2>1
      <3> QED BY <3>1 DEF Covered, Mailed
    <2>2. CASE v # u
      <3>1. Waits(v) /\ OrderOf(v)' = OrderOf(v) /\ Loadable(v)
        BY <1>1, <1>9, <2>2 DEF Needs, Waits, Kept
      <3>2. Needs(v)
        <4>1. v \in watched' => v \in watched
          BY <2>2
        <4> QED BY <1>1, <1>9, <3>1, <4>1, RequestedBefore DEF Needs
      <3>3. PICK e : e = OrderOf(v).event
        OBVIOUS
      <3>4. Covered(v, e) /\ e \in Events
        BY <1>1, <3>1, <3>2, <3>3, NothingMissedIs, Loaded DEF IInv, TypeOK
      <3>5. Covered(v, e)' /\ e = OrderOf(v)'.event
        BY <2>2, <3>1, <3>3, <3>4
      <3> QED BY <3>5 DEF Covered, Mailed
    <2> QED BY <2>1, <2>2
  <1>10. NothingMissed'
    BY <1>9, NothingMissedIsNext
  <1> QED BY <1>2, <1>7, <1>8, <1>10 DEF IInv

LEMMA SameMail ==
    ASSUME UNCHANGED mail
    PROVE  \A e : Mailed(e)' <=> Mailed(e)
  BY DEF Mailed

(* The cfd actor writes while nothing but its set-up, what the monitor     *)
(* follows, the requests to the oracle actor and what was erased change.   *)
(* The CFD does not wait, or its attestation is asked for, or the write    *)
(* makes no difference.                                                    *)
LEMMA ActorWrites ==
    ASSUME IInv, NEW u \in Uuids, NEW s \in CfdStates, AppendCfdState(u, s),
           UNCHANGED <<role, now, announcements, announcing, pending, fetching, mail, attesting,
                       crashes>>,
           asked' = asked \/ asked' = asked \cup {OrderOf(u).event},
           erased' = erased \/ erased' = erased \cup {u},
           watched' = watched \/ watched' = watched \cup {u},
           u \in watched' => s.kind \notin CleanupKinds,
           \/ setup' = None
           \/ setup' = setup /\ setup # u
           \/ setup' = u /\ s = Bare("ContractSetup"),
           \/ u \in erased' \/ s.kind \notin AwaitingKinds \/ s.att # None
           \/ OrderOf(u).event \in pending' \cup asked'
           \/ watched' = watched /\ (Requested(u) => Waits(u))
    PROVE  IInv' /\ Wrote(u, s)
  <1>1. TypeOK /\ Tables /\ Later
    BY DEF IInv, TypeOK, Later
  <1>2. Tables' /\ Wrote(u, s)
    BY <1>1, Appends
  <1>3. OrderOf(u).event \in Events /\ Loadable(u)
    BY <1>1, Loaded DEF AppendCfdState
  <1>4. setup' \in Option(Uuids) /\ watched' \subseteq Uuids
    BY <1>1 DEF TypeOK, Option
  <1>5. TypeOK'
    BY <1>1, <1>2, <1>3, <1>4 DEF TypeOK
  <1>6. asked \subseteq asked' /\ erased \subseteq erased' /\ watched' \subseteq watched \cup {u}
    OBVIOUS
  <1>7. \A v \in Uuids : \A e : Covered(v, e) => Covered(v, e)'
    BY <1>6, SameMail DEF Covered, Idle
  <1>8. \A e \in Events :
          (e \in pending' \cup asked' \cup fetching' \/ Mailed(e)')
          => e \in pending \cup asked \cup fetching \/ Mailed(e) \/ e = OrderOf(u).event
    BY SameMail
  <1>9. PICK f : f = OrderOf(u).event
    OBVIOUS
  <1>10. ASSUME Needs(u)' PROVE Covered(u, f)'
    <2>1. u \notin erased' /\ s.kind \in AwaitingKinds /\ s.att = None /\ OrderOf(u)' = OrderOf(u)
      BY <1>2, <1>10 DEF Needs, Waits, Wrote
    <2>2. CASE f \in pending' \cup asked'
      BY <2>2 DEF Covered
    <2>3. CASE watched' = watched /\ (Requested(u) => Waits(u))
      <3>1. Requested(u)
        BY <1>1, <1>3, <1>10, <2>1, <2>3, RequestedBefore DEF Needs
      <3>2. Needs(u)
        BY <2>3, <3>1 DEF Needs
      <3>3. Covered(u, f)
        BY <1>1, <1>9, <3>2, NothingMissedIs DEF IInv
      <3> QED BY <1>7, <3>3
    <2> QED BY <1>9, <2>1, <2>2, <2>3
  <1> QED BY <1>1, <1>2, <1>5, <1>6, <1>7, <1>8, <1>9, <1>10, WriteKeeps

-----------------------------------------------------------------------------
(* The actions that write, and what each does to the CFD it is about.      *)

LEMMA IsAwaiting ==
    /\ \A k \in CleanupKinds \cup {"SetupFailed"} : k \notin AwaitingKinds /\ Bare(k).kind = k
    /\ \A s : HasDlc(s) <=> s.kind \in AwaitingKinds
    /\ \A k \in CleanupKinds \cup {"SetupFailed"} : Bare(k) \in CfdStates /\ ~HasDlc(Bare(k))
  BY IsState, FieldsOf DEF AwaitingKinds, CleanupKinds, HasDlc, BareKinds

LEMMA Accepts ==
    ASSUME IInv, NEW u \in Uuids, AcceptOrder(u) \/ OrderAccepted(u)
    PROVE  IInv' /\ Loadable(u) /\ State(u) \in Requests /\ Wrote(u, Bare("ContractSetup"))
  <1>1. TypeOK /\ Tables
    BY DEF IInv, TypeOK
  <1>2. Loadable(u) /\ State(u).kind \in {"IncomingOrderRequest", "OutgoingOrderRequest"}
    BY DEF AcceptOrder, OrderAccepted
  <1>3. State(u) \in CfdStates
    BY <1>1, <1>2, Loaded
  <1>4. State(u) \in Requests
    BY <1>2, <1>3, Fields DEF Requests, CleanupKinds
  <1>5. PICK s : s = Bare("ContractSetup")
    OBVIOUS
  <1>6. s \in CfdStates /\ s.kind \notin AwaitingKinds
    BY <1>5, IsAwaiting DEF CleanupKinds
  <1>7. /\ AppendCfdState(u, s) /\ setup = None
        /\ UNCHANGED <<role, now, announcements, announcing, pending, fetching, mail, attesting,
                       watched, crashes, erased>>
        /\ asked' = asked \/ asked' = asked \cup {OrderOf(u).event}
        /\ setup' = u \/ setup' = setup
    BY <1>5 DEF AcceptOrder, OrderAccepted, Write, oracleVars
  <1>8. u \notin watched
    BY <1>2, <1>4 DEF IInv, Followed, CleanupKinds
  <1>9. IInv' /\ Wrote(u, s)
    BY <1>5, <1>6, <1>7, <1>8, ActorWrites
  <1> QED BY <1>2, <1>4, <1>5, <1>9

LEMMA SetupEnds ==
    ASSUME IInv, Early, NEW u \in Uuids, CfdSetupCompleted(u) \/ CfdSetupFailed(u)
    PROVE  /\ IInv' /\ Loadable(u) /\ State(u) = Bare("ContractSetup")
           /\ \E s \in {Bare("SetupFailed")} \cup {PendingOpen(e, None) : e \in Events} :
                Wrote(u, s)
  <1>1. TypeOK /\ Tables
    BY DEF IInv, TypeOK
  <1>2. setup = u /\ setup' = None /\ u # None
    BY ApartAssumption DEF CfdSetupCompleted, CfdSetupFailed
  <1>3. Loadable(u) /\ State(u) = Bare("ContractSetup")
    BY <1>2 DEF IInv, SettingUp
  <1>4. OrderOf(u).event \in Events
    BY <1>1, <1>3, Loaded
  <1>7. u \notin watched
    BY <1>3, FieldsOf DEF IInv, Followed, CleanupKinds
  <1>5. CASE CfdSetupCompleted(u)
    <2>1. PICK s : s = PendingOpen(OrderOf(u).event, None)
      OBVIOUS
    <2>2. s \in CfdStates /\ s.kind \notin CleanupKinds
      BY <1>4, <2>1, IsState, FieldsOf DEF Option, CleanupKinds
    <2>3. /\ AppendCfdState(u, s)
          /\ \/ watched' = watched \cup {u} /\ asked' = asked \cup {OrderOf(u).event}
             \/ watched' = watched /\ asked' = asked
          /\ UNCHANGED <<role, now, announcements, announcing, pending, fetching, mail, attesting,
                         crashes, erased>>
      BY <1>5, <2>1 DEF CfdSetupCompleted, Write
    <2>4. CASE watched' = watched \cup {u} /\ asked' = asked \cup {OrderOf(u).event}
      <3>1. IInv' /\ Wrote(u, s)
        BY <1>2, <2>2, <2>3, <2>4, ActorWrites
      <3> QED BY <1>3, <1>4, <2>1, <3>1
    <2>5. CASE watched' = watched /\ asked' = asked
      <3>1. Requested(u) => OrderOf(u).event \in pending \cup asked
        BY <1>2, <1>7 DEF Requested, Early, SetupAsked
      <3>2. \/ OrderOf(u).event \in pending' \cup asked'
            \/ watched' = watched /\ (Requested(u) => Waits(u))
        BY <2>3, <2>5, <3>1
      <3>3. IInv' /\ Wrote(u, s)
        BY <1>2, <2>2, <2>3, <2>5, <3>2, ActorWrites
      <3> QED BY <1>3, <1>4, <2>1, <3>3
    <2> QED BY <2>3, <2>4, <2>5
  <1>6. CASE CfdSetupFailed(u)
    <2>1. PICK s : s = Bare("SetupFailed")
      OBVIOUS
    <2>2. s \in CfdStates /\ s.kind \notin AwaitingKinds
      BY <2>1, IsAwaiting
    <2>3. /\ AppendCfdState(u, s) /\ asked' = asked
          /\ UNCHANGED <<role, now, announcements, announcing, pending, fetching, mail, attesting,
                         watched, crashes, erased>>
      BY <1>6, <2>1 DEF CfdSetupFailed, Write, oracleVars
    <2>4. IInv' /\ Wrote(u, s)
      BY <1>2, <1>7, <2>2, <2>3, ActorWrites
    <2> QED BY <1>3, <2>1, <2>4
  <1> QED BY <1>5, <1>6

(* A CFD that has a contract is not the one being set up.                  *)
LEMMA NotSettingUp ==
    ASSUME IInv, NEW u \in Uuids, HasDlc(State(u))
    PROVE  setup # u
  <1>1. u # None
    BY ApartAssumption
  <1>2. ~HasDlc(Bare("ContractSetup"))
    BY IsAwaiting DEF CleanupKinds
  <1> QED BY <1>1, <1>2 DEF IInv, SettingUp

(* A CFD that has a contract moves on, and keeps what it has of an         *)
(* attestation while it waits.                                             *)
LEMMA MovesOn ==
    ASSUME IInv, NEW u \in Uuids, Loadable(u), NEW s, s = State(u), HasDlc(s),
           NEW t \in CfdStates, AppendCfdState(u, t), t.kind \notin CleanupKinds,
           UNCHANGED <<role, now, announcements, announcing, pending, asked, fetching, mail,
                       attesting, setup, watched, crashes>>,
           erased' = erased \/ erased' = erased \cup {u},
           \/ u \in erased' \/ s.att = None
           \/ t.kind \notin AwaitingKinds \/ t.att # None
    PROVE  IInv' /\ Wrote(u, t)
  <1>1. setup # u
    BY NotSettingUp
  <1>2. s.kind \in AwaitingKinds
    BY IsAwaiting
  <1>3. s.att = None /\ u \notin erased' => Waits(u)
    BY <1>2 DEF Waits
  <1>4. \/ u \in erased' \/ t.kind \notin AwaitingKinds \/ t.att # None
        \/ watched' = watched /\ (Requested(u) => Waits(u))
    BY <1>3
  <1> QED BY <1>1, <1>4, ActorWrites

LEMMA MonitorReports ==
    ASSUME IInv, NEW u \in Uuids, NEW ev \in Reported, HandleMonitoringEvent(u, ev)
    PROVE  /\ IInv' /\ Loadable(u) /\ HasDlc(State(u))
           /\ \E t : /\ Changed(AfterMonitorEvent(State(u), ev))
                     /\ t \in {AfterMonitorEvent(State(u), ev),
                               AfterCetSent(AfterMonitorEvent(State(u), ev))}
                     /\ Wrote(u, t)
  <1>1. TypeOK /\ Tables
    BY DEF IInv, TypeOK
  <1>2. PICK s : s = State(u)
    OBVIOUS
  <1>3. Loadable(u) /\ s \in CfdStates
    BY <1>1, <1>2, Loaded DEF HandleMonitoringEvent
  <1> DEFINE after == AfterMonitorEvent(s, ev)
  <1>4. Changed(Handle(s, after))
    BY <1>2 DEF HandleMonitoringEvent
  <1>5. /\ Handle(s, after) = after /\ after \in CfdStates /\ HasDlc(s)
        /\ after.kind \notin CleanupKinds
        /\ \/ ev = "LockFinality" \/ s.att = None
           \/ after.kind \notin AwaitingKinds \/ after.att # None
    BY <1>3, <1>4, TakesMonitorEvent
  <1>6. /\ \/ AppendCfdState(u, after)
           \/ CanPublishCet(after) /\ AppendCfdState(u, AfterCetSent(after))
        /\ erased' = IF ev = "LockFinality" /\ s.att # None THEN erased \cup {u} ELSE erased
        /\ UNCHANGED <<role, now, announcements, announcing, pending, asked, fetching, mail,
                       attesting, setup, watched, crashes>>
    BY <1>2, <1>5 DEF HandleMonitoringEvent, Write, oracleVars, actorVars
  <1>7. PICK t : /\ AppendCfdState(u, t)
                 /\ \/ t = after
                    \/ CanPublishCet(after) /\ t = AfterCetSent(after)
    BY <1>6
  <1>8. /\ t \in CfdStates /\ t.kind \notin CleanupKinds
        /\ \/ ev = "LockFinality" \/ s.att = None
           \/ t.kind \notin AwaitingKinds \/ t.att # None
    <2>1. CASE t = after
      BY <1>5, <2>1
    <2>2. CASE CanPublishCet(after) /\ t = AfterCetSent(after)
      <3>1. t \in CfdStates /\ t.att # None /\ HasDlc(t)
        BY <1>5, <2>2, SendsCet
      <3> QED BY <3>1, Fields
    <2> QED BY <1>7, <2>1, <2>2
  <1>9. \/ u \in erased' \/ s.att = None
        \/ t.kind \notin AwaitingKinds \/ t.att # None
    BY <1>6, <1>8
  <1>10. IInv' /\ Wrote(u, t)
    BY <1>2, <1>3, <1>5, <1>6, <1>7, <1>8, <1>9, MovesOn
  <1> QED BY <1>2, <1>3, <1>4, <1>5, <1>7, <1>10

LEMMA Commits ==
    ASSUME IInv, NEW u \in Uuids, Commit(u)
    PROVE  /\ IInv' /\ Loadable(u) /\ HasDlc(State(u))
           /\ \E t : /\ Changed(t) /\ t = AfterCommitTxSent(State(u)) /\ Wrote(u, t)
  <1>1. TypeOK /\ Tables
    BY DEF IInv, TypeOK
  <1>2. PICK s : s = State(u)
    OBVIOUS
  <1>3. Loadable(u) /\ s \in CfdStates
    BY <1>1, <1>2, Loaded DEF Commit
  <1> DEFINE after == AfterCommitTxSent(s)
  <1>4. Changed(Handle(s, after))
    BY <1>2 DEF Commit
  <1>5. /\ Handle(s, after) = after /\ after \in CfdStates /\ HasDlc(s)
        /\ after.kind \notin CleanupKinds /\ after.att = s.att
    BY <1>3, <1>4, TakesCommit
  <1>6. /\ AppendCfdState(u, after)
        /\ UNCHANGED <<role, now, announcements, announcing, pending, asked, fetching, mail,
                       attesting, setup, watched, erased, crashes>>
    BY <1>2, <1>5 DEF Commit, Write, oracleVars, actorVars
  <1>7. PICK t : t = after
    OBVIOUS
  <1>8. IInv' /\ Wrote(u, t)
    BY <1>2, <1>3, <1>5, <1>6, <1>7, MovesOn
  <1> QED BY <1>2, <1>3, <1>4, <1>5, <1>7, <1>8

LEMMA Tells ==
    ASSUME IInv, NEW u \in Uuids, TellCfd(u)
    PROVE  /\ IInv'
           /\ \/ UNCHANGED tables
              \/ /\ Loadable(u) /\ HasDlc(State(u))
                 /\ \E e \in Events : \E t :
                      /\ Changed(AfterOracleAttestation(State(u), e))
                      /\ t \in {AfterOracleAttestation(State(u), e),
                                AfterCetSent(AfterOracleAttestation(State(u), e))}
                      /\ Wrote(u, t)
  <1>1. TypeOK /\ Tables
    BY DEF IInv, TypeOK
  <1>2. /\ attesting # None /\ u \in attesting.left
        /\ attesting \in [event : Events, left : (SUBSET Uuids) \ {{}}]
    BY <1>1 DEF TellCfd, Idle, TypeOK, Option
  <1>3. PICK e \in Events, left \in SUBSET Uuids :
          attesting = [event |-> e, left |-> left] /\ attesting.event = e /\ attesting.left = left
    BY <1>2
  <1>4. \/ attesting' = None /\ left = {u}
        \/ attesting' = [event |-> e, left |-> left \ {u}] /\ left # {u}
    BY <1>3 DEF TellCfd, Told
  <1>5. attesting' # None => attesting'.event = e /\ attesting'.left = left \ {u}
    BY <1>4
  <1>6. attesting' = None \/ attesting' \in [event : Events, left : (SUBSET Uuids) \ {{}}]
    <2>1. left # {u} => left \ {u} # {} /\ left \ {u} \in SUBSET Uuids
      BY <1>2, <1>3
    <2> QED BY <1>4, <2>1
  <1>7. ASSUME NEW v, v # u, v \in left PROVE attesting' # None
    <2>1. attesting' = [event |-> e, left |-> left \ {u}]
      BY <1>4, <1>7
    <2>2. left \ {u} \in SUBSET Uuids
      OBVIOUS
    <2>3. attesting' \in [event : Events, left : SUBSET Uuids]
      BY <2>1, <2>2
    <2> QED BY <2>3, ApartAssumption
  <1>8. /\ UNCHANGED <<role, now, announcements, announcing, pending, asked, fetching, mail, setup,
                       watched, erased, crashes>>
        /\ Later
    BY DEF TellCfd, oracleVars, Later
  <1>9. ASSUME NEW v, NEW f, v # u, Covered(v, f) PROVE Covered(v, f)'
    <2>1. CASE f \in pending \cup asked \/ Mailed(f)
      BY <1>8, <2>1, SameMail DEF Covered
    <2>2. CASE ~Idle /\ attesting.event = f /\ v \in attesting.left
      <3>1. attesting' # None /\ attesting'.event = f /\ v \in attesting'.left
        BY <1>3, <1>5, <1>7, <1>9, <2>2
      <3> QED BY <3>1 DEF Covered, Idle
    <2> QED BY <1>9, <2>1, <2>2 DEF Covered
  <1>10. PICK s : s = State(u)
    OBVIOUS
  <1> DEFINE after == AfterOracleAttestation(s, e)
  <1>11. CASE HasDlc(s) /\ Changed(Handle(s, after))
    <2>1. PICK t : /\ AppendCfdState(u, t)
                   /\ \/ t = Handle(s, after)
                      \/ CanPublishCet(Handle(s, after)) /\ t = AfterCetSent(Handle(s, after))
      BY <1>3, <1>10, <1>11 DEF TellCfd, Write
    <2>2. Loadable(u) /\ s \in CfdStates
      BY <1>1, <1>10, <2>1, Loaded DEF AppendCfdState
    <2>3. Handle(s, after) = after /\ after \in CfdStates /\ HasDlc(after) /\ after.att = e
      BY <1>11, <2>2, TakesAttestation
    <2>4. /\ t \in CfdStates /\ t.att # None /\ t \in {after, AfterCetSent(after)}
          /\ t.kind \notin CleanupKinds
      <3>1. e # None
        BY ApartAssumption
      <3>2. t \in CfdStates /\ t.att # None /\ t \in {after, AfterCetSent(after)} /\ HasDlc(t)
        BY <2>1, <2>3, <3>1, SendsCet
      <3> QED BY <3>2, Fields
    <2>5. Tables' /\ Wrote(u, t)
      BY <1>1, <2>1, <2>4, Appends
    <2>6. setup # u
      BY <1>10, <1>11, NotSettingUp
    <2>7. TypeOK'
      BY <1>1, <1>6, <1>8, <2>5 DEF TypeOK, Option
    <2>8. \A f \in Events :
            (f \in pending' \cup asked' \cup fetching' \/ Mailed(f)')
            => f \in pending \cup asked \cup fetching \/ Mailed(f) \/ f = OrderOf(u).event
      BY <1>8, SameMail
    <2>11. ~Waits(u)'
      BY <2>4, <2>5 DEF Waits, Wrote
    <2>9. IInv'
      <3>1. PICK f : f = OrderOf(u).event
        OBVIOUS
      <3> QED BY <1>8, <1>9, <2>4, <2>5, <2>6, <2>7, <2>8, <2>11, <3>1, WriteKeeps DEF Needs
    <2>10. Changed(after)
      BY <1>11, <2>3
    <2> QED BY <1>10, <1>11, <2>2, <2>4, <2>5, <2>9, <2>10
  <1>12. CASE ~(HasDlc(s) /\ Changed(Handle(s, after)))
    <2>1. UNCHANGED tables
      BY <1>3, <1>10, <1>12 DEF TellCfd
    <2>2. Tables' /\ \A v : Kept(v)
      BY <1>1, <2>1, Unchanged
    <2>3. TypeOK'
      BY <1>1, <1>6, <1>8, <2>2 DEF TypeOK, Option
    <2>4. ~Waits(u)
      <3>1. SUFFICES ASSUME Waits(u) PROVE FALSE
        OBVIOUS
      <3>2. s \in CfdStates /\ HasDlc(s) /\ s.att = None
        BY <1>1, <1>10, <3>1, Loaded, IsAwaiting DEF Waits
      <3> QED BY <1>12, <3>2, TakesAttestation
    <2>5. SettingUp' /\ Followed'
      BY <1>8, <2>2, Stays DEF IInv
    <2>6. Wanted'
      BY <1>8, <2>2, Stays, SameMail DEF IInv, Wanted
    <2>7. ASSUME NEW v \in Uuids, Needs(v)' PROVE (Covered(v, OrderOf(v).event))'
      <3>1. Needs(v) /\ OrderOf(v)' = OrderOf(v) /\ v # u
        BY <1>1, <1>8, <2>2, <2>4, <2>7, Stays DEF Needs
      <3>2. PICK f : f = OrderOf(v).event
        OBVIOUS
      <3>3. Covered(v, f)
        BY <1>1, <3>1, <3>2, NothingMissedIs DEF IInv
      <3>4. Covered(v, f)' /\ f = OrderOf(v)'.event
        BY <1>9, <3>1, <3>2, <3>3
      <3> QED BY <3>4 DEF Covered, Mailed
    <2>8. NothingMissed'
      BY <2>3, <2>7, NothingMissedIsNext
    <2> QED BY <2>1, <2>3, <2>5, <2>6, <2>8 DEF IInv
  <1> QED BY <1>11, <1>12

LEMMA OrderMade ==
    ASSUME IInv, NewOrder
    PROVE  IInv' /\ \A u : Kept(u)
  <1>1. TypeOK /\ Tables
    BY DEF IInv, TypeOK
  <1>2. PICK e \in Events : InsertOrder(Len(orders) + 1, e)
    BY DEF NewOrder
  <1>3. Tables' /\ \A u : Kept(u)
    BY <1>1, <1>2, Inserts DEF NewOrder
  <1>4. /\ UNCHANGED <<role, now, announcements, announcing, pending, asked, fetching, mail,
                       attesting, setup, watched, erased, crashes>>
        /\ Later
    BY DEF NewOrder, oracleVars, actorVars, Later
  <1>5. TypeOK'
    BY <1>1, <1>3, <1>4 DEF TypeOK
  <1>6. \A u, f : Covered(u, f) => Covered(u, f)'
    BY <1>4, SameMail DEF Covered, Idle
  <1>7. \A f \in Events : (f \in pending' \cup asked' \cup fetching' \/ Mailed(f)')
                          => f \in pending \cup asked \cup fetching \/ Mailed(f)
    BY <1>4, SameMail
  <1> QED BY <1>3, <1>4, <1>5, <1>6, <1>7, Quiet

LEMMA Rests ==
    ASSUME IInv, Hour \/ UNCHANGED vars
    PROVE  IInv' /\ UNCHANGED tables
  <1>1. TypeOK /\ Tables
    BY DEF IInv, TypeOK
  <1>2. /\ UNCHANGED <<tables, role, announcements, announcing, pending, asked, fetching, mail,
                       attesting, setup, watched, erased, crashes>>
        /\ Later
    BY DEF Hour, vars, oracleVars, actorVars, Later
  <1>3. now' \in 0..MaxHour
    BY <1>1, HoursAssumption DEF Hour, vars, TypeOK
  <1>4. Tables' /\ \A u : Kept(u)
    BY <1>1, <1>2, Unchanged
  <1>5. TypeOK'
    BY <1>1, <1>2, <1>3, <1>4 DEF TypeOK
  <1>6. \A u, f : Covered(u, f) => Covered(u, f)'
    BY <1>2, SameMail DEF Covered, Idle
  <1>7. \A f \in Events : (f \in pending' \cup asked' \cup fetching' \/ Mailed(f)')
                          => f \in pending \cup asked \cup fetching \/ Mailed(f)
    BY <1>2, SameMail
  <1> QED BY <1>2, <1>4, <1>5, <1>6, <1>7, Quiet

LEMMA Takes ==
    ASSUME IInv, NEW u \in Uuids, TakeOrder(u)
    PROVE  IInv' /\ ~Loadable(u) /\ \E s \in Requests : Created(u, s)
  <1>1. TypeOK /\ Tables
    BY DEF IInv, TypeOK
  <1>2. PICK k \in CleanupKinds : k = Request
    BY DEF Request, CleanupKinds
  <1>3. PICK s : s = Bare(k)
    OBVIOUS
  <1>4. s \in CfdStates /\ s \in Requests /\ s.kind \notin AwaitingKinds
    BY <1>2, <1>3, IsAwaiting DEF Request, Requests
  <1>5. /\ InsertCfd(u, s)
        /\ UNCHANGED <<role, now, announcements, announcing, pending, asked, fetching, mail,
                       attesting, setup, watched, erased, crashes>>
        /\ Later
    BY <1>2, <1>3 DEF TakeOrder, oracleVars, actorVars, Later
  <1>6. Tables' /\ Created(u, s)
    BY <1>1, <1>4, <1>5, InsertsCfd
  <1>7. TypeOK'
    BY <1>1, <1>5, <1>6 DEF TypeOK
  <1>8. \A v : Loadable(v) => v # u /\ Loadable(v)' /\ State(v)' = State(v) /\ OrderOf(v)' = OrderOf(v)
    BY <1>6 DEF Created, Kept
  <1>9. SettingUp'
    <2>1. PICK w : w = setup
      OBVIOUS
    <2>2. w # None => Loadable(w)' /\ State(w)' = Bare("ContractSetup")
      BY <1>8, <2>1 DEF IInv, SettingUp
    <2> QED BY <1>5, <2>1, <2>2 DEF SettingUp
  <1>10. Wanted'
    BY <1>5, <1>8, SameMail DEF IInv, Wanted, HasCfd
  <1>13. Followed'
    BY <1>5, <1>8 DEF IInv, Followed
  <1>11. ASSUME NEW v \in Uuids, Needs(v)' PROVE (Covered(v, OrderOf(v).event))'
    <2>1. v # u
      BY <1>4, <1>6, <1>11 DEF Needs, Waits, Created
    <2>6. Waits(v) /\ OrderOf(v)' = OrderOf(v) /\ Loadable(v)
      BY <1>5, <1>6, <1>11, <2>1 DEF Needs, Waits, Created, Kept
    <2>2. Needs(v) /\ OrderOf(v)' = OrderOf(v)
      BY <1>1, <1>5, <1>11, <2>6, RequestedBefore DEF Needs
    <2>3. PICK f : f = OrderOf(v).event
      OBVIOUS
    <2>4. Covered(v, f)
      BY <1>1, <2>2, <2>3, NothingMissedIs DEF IInv
    <2>5. Covered(v, f)' /\ f = OrderOf(v)'.event
      BY <1>5, <2>2, <2>3, <2>4, SameMail DEF Covered, Idle
    <2> QED BY <2>5 DEF Covered, Mailed
  <1>12. NothingMissed'
    BY <1>7, <1>11, NothingMissedIsNext
  <1> QED BY <1>4, <1>6, <1>7, <1>9, <1>10, <1>12, <1>13 DEF IInv, Created

LEMMA Starts ==
    ASSUME IInv, FailUnfinished, Start,
           UNCHANGED <<orders, cfds>> \/ \E u : InsertCfdRow(u)
    PROVE  IInv' /\ CleanedUp
  <1>1. TypeOK /\ Tables
    BY DEF IInv, TypeOK
  <1>2. Tables' /\ CleanedUp
    BY <1>1, CleansUp
  <1>3. /\ role' = role /\ now' = now /\ announcements' = {} /\ announcing' = {} /\ asked' = {}
        /\ fetching' = {} /\ mail' = <<>> /\ attesting' = None /\ setup' = None /\ erased' = {}
        /\ crashes' = crashes + 1 /\ crashes < MaxCrashes
        /\ ActorNew /\ MonitorNew
    BY DEF Start
  <1>4. Views'
    BY <1>2, ViewsHoldNext
  <1>5. \A u : Loadable(u)' /\ State(u)'.kind \in AwaitingKinds => OrderOf(u)'.event \in pending'
    <2>1. ASSUME NEW u, Loadable(u)', State(u)'.kind \in AwaitingKinds
          PROVE  OrderOf(u)'.event \in pending'
      <3>1. PICK c : c = [order |-> OrderOf(u)', state |-> State(u)']
        OBVIOUS
      <3>2. c \in AllCfds' /\ c.state.kind \in AwaitingKinds /\ c.order.event = OrderOf(u)'.event
        BY <1>4, <2>1, <3>1 DEF Views
      <3> QED BY <1>3, <3>2 DEF ActorNew
    <2> QED BY <2>1
  <1>6. ASSUME NEW e \in pending' PROVE e \in Events /\ HasCfd(e)'
    <2>1. PICK c \in AllCfds' : c.order.event = e
      BY <1>3 DEF ActorNew
    <2>2. PICK u \in Uuids : Loadable(u)' /\ c = [order |-> OrderOf(u)', state |-> State(u)']
      BY <1>4, <2>1 DEF Views
    <2>3. OrderOf(u)'.event = e /\ OrderOf(u)'.event \in Events
      BY <1>4, <2>1, <2>2 DEF Views
    <2> QED BY <2>2, <2>3 DEF HasCfd
  <1>7. mail' \in Seq(Events) /\ \A e : ~Mailed(e)'
    BY <1>3 DEF Mailed
  <1>13. ASSUME NEW u \in watched'
         PROVE  u \in Uuids /\ Loadable(u)' /\ State(u)'.kind \notin CleanupKinds
    <2>1. PICK c \in AllCfds' : /\ c.order.uuid = u
                                /\ c.state.kind \in AwaitingKinds \cup {"PendingRefund"}
      BY <1>3 DEF MonitorNew
    <2>2. PICK v \in Uuids : Loadable(v)' /\ c = [order |-> OrderOf(v)', state |-> State(v)']
      BY <1>4, <2>1 DEF Views
    <2>3. OrderOf(v)'.uuid = v
      BY <1>4, <2>2 DEF Views
    <2>4. v = u /\ State(u)'.kind \in AwaitingKinds \cup {"PendingRefund"}
      BY <2>1, <2>2, <2>3
    <2> QED BY <2>2, <2>4 DEF AwaitingKinds, CleanupKinds
  <1>8. TypeOK'
    BY <1>1, <1>2, <1>3, <1>6, <1>7, <1>13, HoursAssumption DEF TypeOK, Option
  <1>9. SettingUp'
    BY <1>3 DEF SettingUp
  <1>14. Followed'
    BY <1>13 DEF Followed
  <1>10. Wanted'
    BY <1>3, <1>6, <1>7 DEF Wanted
  <1>11. ASSUME NEW u \in Uuids, Needs(u)' PROVE (Covered(u, OrderOf(u).event))'
    BY <1>5, <1>11 DEF Needs, Waits, Covered
  <1>12. NothingMissed'
    BY <1>8, <1>11, NothingMissedIsNext
  <1> QED BY <1>2, <1>8, <1>9, <1>10, <1>12, <1>14 DEF IInv

LEMMA Initially ==
    ASSUME Init
    PROVE  IInv /\ Early /\ \A u : ~Loadable(u)
  <1>1. orders = <<>> /\ cfds = <<>> /\ cfd_states = <<>>
    BY DEF Init, EmptyTables
  <1>2. Tables
    <2>1. OrderRows
      BY <1>1, HoursAssumption DEF OrderRows
    <2>2. CfdRows
      BY <1>1 DEF CfdRows
    <2>3. StateRows
      BY <1>1 DEF StateRows
    <2> QED BY <2>1, <2>2, <2>3 DEF Tables
  <1>3. \A u : ~Loadable(u)
    BY <1>1 DEF Loadable, AllCfds, Ids
  <1>4. mail = <<>> /\ mail \in Seq(Events) /\ \A e : ~Mailed(e)
    BY DEF Init, Mailed
  <1>5. TypeOK
    BY <1>2, <1>4, HoursAssumption DEF Init, TypeOK, Option
  <1>6. SettingUp
    BY DEF Init, SettingUp
  <1>7. Wanted
    BY <1>4 DEF Init, Wanted
  <1>8. NothingMissed
    BY <1>3 DEF NothingMissed, Waits
  <1>9. Followed /\ Early
    BY DEF Init, Followed, Early, SetupAsked
  <1> QED BY <1>3, <1>5, <1>6, <1>7, <1>8, <1>9 DEF IInv

LEMMA NextIInv == IInv /\ Early /\ [Next]_vars => IInv'
  <1> SUFFICES ASSUME IInv, Early, [Next]_vars PROVE IInv'
    OBVIOUS
  <1>1. CASE OracleNext
    BY <1>1, OracleKeeps
  <1>2. CASE OracleAttestation
    BY <1>2, AttestationKeeps
  <1>3. ASSUME NEW u \in Uuids, TellCfd(u) PROVE IInv'
    BY <1>3, Tells
  <1>4. ASSUME NEW u \in Uuids, TakeOrder(u) PROVE IInv'
    BY <1>4, Takes
  <1>5. ASSUME NEW u \in Uuids, AcceptOrder(u) \/ OrderAccepted(u) PROVE IInv'
    BY <1>5, Accepts
  <1>6. ASSUME NEW u \in Uuids, CfdSetupCompleted(u) \/ CfdSetupFailed(u) PROVE IInv'
    BY <1>6, SetupEnds
  <1>7. ASSUME NEW u \in Uuids, NEW ev \in Reported, HandleMonitoringEvent(u, ev) PROVE IInv'
    BY <1>7, MonitorReports
  <1>8. ASSUME NEW u \in Uuids, DiesInserting(u) PROVE IInv'
    BY <1>8, Starts DEF DiesInserting
  <1>9. CASE NewOrder
    BY <1>9, OrderMade
  <1>10. CASE Restart
    BY <1>10, Starts DEF Restart
  <1>11. CASE Hour \/ UNCHANGED vars
    BY <1>11, Rests
  <1>12. ASSUME NEW u \in Uuids, Commit(u) PROVE IInv'
    BY <1>12, Commits
  <1> QED BY <1>1, <1>2, <1>3, <1>4, <1>5, <1>6, <1>7, <1>8, <1>9, <1>10, <1>11, <1>12
          DEF Next, AttestationNext

(* The order of a CFD does not change.                                     *)
LEMMA OrderStays ==
    ASSUME IInv, Early, [Next]_vars, NEW w, Loadable(w)
    PROVE  OrderOf(w)' = OrderOf(w)
  <1>1. TypeOK /\ Tables
    BY DEF IInv, TypeOK
  <1>2. ASSUME UNCHANGED tables PROVE OrderOf(w)' = OrderOf(w)
    BY <1>1, <1>2, Unchanged DEF Kept
  <1>3. ASSUME NEW u, NEW t, Wrote(u, t) PROVE OrderOf(w)' = OrderOf(w)
    BY <1>3 DEF Wrote, Kept
  <1>4. CASE OracleNext \/ OracleAttestation
    <2>1. UNCHANGED tables
      BY <1>4 DEF OracleNext, Sync, NewAnnouncementFetched, NewAttestationFetched,
                  MonitorAttestation, OracleAttestation
    <2> QED BY <1>2, <2>1
  <1>5. ASSUME NEW u \in Uuids, TellCfd(u) PROVE OrderOf(w)' = OrderOf(w)
    BY <1>2, <1>3, <1>5, Tells
  <1>6. ASSUME NEW u \in Uuids, TakeOrder(u) PROVE OrderOf(w)' = OrderOf(w)
    BY <1>6, Takes DEF Created, Kept
  <1>7. ASSUME NEW u \in Uuids, AcceptOrder(u) \/ OrderAccepted(u)
        PROVE  OrderOf(w)' = OrderOf(w)
    BY <1>3, <1>7, Accepts
  <1>8. ASSUME NEW u \in Uuids, CfdSetupCompleted(u) \/ CfdSetupFailed(u)
        PROVE  OrderOf(w)' = OrderOf(w)
    BY <1>3, <1>8, SetupEnds
  <1>9. ASSUME NEW u \in Uuids, NEW ev \in Reported, HandleMonitoringEvent(u, ev)
        PROVE  OrderOf(w)' = OrderOf(w)
    BY <1>3, <1>9, MonitorReports
  <1>10. ASSUME NEW u \in Uuids, Commit(u) PROVE OrderOf(w)' = OrderOf(w)
    BY <1>3, <1>10, Commits
  <1>11. ASSUME NEW u \in Uuids, DiesInserting(u) PROVE OrderOf(w)' = OrderOf(w)
    BY <1>11, Starts DEF DiesInserting, CleanedUp
  <1>12. CASE Restart
    BY <1>12, Starts DEF Restart, CleanedUp
  <1>13. CASE NewOrder
    BY <1>13, OrderMade DEF Kept
  <1>14. CASE Hour \/ UNCHANGED vars
    BY <1>2, <1>14, Rests
  <1> QED BY <1>4, <1>5, <1>6, <1>7, <1>8, <1>9, <1>10, <1>11, <1>12, <1>13, <1>14
          DEF Next, AttestationNext

LEMMA NextEarly == IInv /\ Early /\ [Next]_vars => Early'
  <1> SUFFICES ASSUME IInv, Early, [Next]_vars PROVE Early'
    OBVIOUS
  <1>1. TypeOK
    BY DEF IInv
  <1>2. Later
    <2>1. UNCHANGED <<role, now>> \/ Hour \/ UNCHANGED vars
      BY DEF Next, OracleNext, AttestationNext, Sync, NewAnnouncementFetched,
             NewAttestationFetched, MonitorAttestation, OracleAttestation, TellCfd, TakeOrder,
             AcceptOrder, OrderAccepted, CfdSetupCompleted, CfdSetupFailed, Commit,
             HandleMonitoringEvent, DiesInserting, NewOrder, Restart, Start
    <2> QED BY <2>1 DEF Later, Hour, vars
  <1>3. now \in Int /\ Events \subseteq Int
    BY <1>1, HoursAssumption DEF TypeOK, Events
  <1>4. \A e \in Events : Occurred(e) => Occurred(e)'
    BY <1>2, <1>3 DEF Later, Occurred
  <1> DEFINE Goal ==
        /\ \A e \in fetching' : e \in fetching \/ (e \in Events /\ Occurred(e))
        /\ \/ setup' = None
           \/ /\ setup' = setup
              /\ \A e \in pending \cup asked : e \in pending' \cup asked' \/ e \in fetching
           \/ /\ setup' # None /\ Loadable(setup')
              /\ role = "maker" \/ OrderOf(setup').event \in asked'
  <1>5. ASSUME Sync \/ \E e \in Events : NewAnnouncementFetched(e) \/ MonitorAttestation(e)
        PROVE  Goal
    BY <1>1, <1>5 DEF TypeOK, Sync, UpdatePendingAttestations, NewAnnouncementFetched,
                     MonitorAttestation, actorVars
  <1>6. ASSUME \E e \in Events : NewAttestationFetched(e) PROVE Goal
    BY <1>6 DEF NewAttestationFetched
  <1>7. ASSUME \/ OracleAttestation \/ NewOrder \/ Hour \/ UNCHANGED vars
               \/ \E u \in Uuids : TellCfd(u) \/ TakeOrder(u) \/ Commit(u)
               \/ \E u \in Uuids, ev \in Reported : HandleMonitoringEvent(u, ev)
        PROVE  Goal
    BY <1>7 DEF OracleAttestation, NewOrder, Hour, vars, TellCfd, TakeOrder, Commit,
                HandleMonitoringEvent, oracleVars, actorVars
  <1>8. ASSUME \E u \in Uuids : CfdSetupCompleted(u) \/ CfdSetupFailed(u) PROVE Goal
    BY <1>8 DEF CfdSetupCompleted, CfdSetupFailed, oracleVars
  <1>9. ASSUME Restart \/ \E u \in Uuids : DiesInserting(u) PROVE Goal
    BY <1>9 DEF Restart, DiesInserting, Start
  <1>10. ASSUME NEW u \in Uuids, AcceptOrder(u) PROVE Goal
    BY <1>10 DEF AcceptOrder, oracleVars
  <1>11. ASSUME NEW u \in Uuids, OrderAccepted(u) PROVE Goal
    BY <1>11 DEF OrderAccepted
  <1>12. Goal
    BY <1>5, <1>6, <1>7, <1>8, <1>9, <1>10, <1>11 DEF Next, OracleNext, AttestationNext
  <1>13. \A e \in fetching' : Occurred(e)'
    BY <1>1, <1>4, <1>12 DEF Early, TypeOK
  <1>14. SetupAsked'
    <2>1. PICK w : w = setup'
      OBVIOUS
    <2>2. CASE w = setup /\ w # None
      <3>1. Loadable(w)
        BY <2>2 DEF IInv, SettingUp
      <3>2. PICK e \in Events : e = OrderOf(w).event /\ e = OrderOf(w)'.event
        BY <1>1, <3>1, OrderStays, Loaded DEF TypeOK
      <3>3. role = "taker" /\ ~Occurred(e) => e \in pending \cup asked /\ e \notin fetching
        BY <2>2, <3>2 DEF Early, SetupAsked
      <3>4. role' = "taker" /\ ~Occurred(e)' => e \in pending' \cup asked'
        BY <1>2, <1>4, <1>12, <2>1, <2>2, <3>1, <3>2, <3>3 DEF Later
      <3> QED BY <2>1, <3>2, <3>4 DEF SetupAsked, Occurred
    <2>3. CASE w # setup /\ w # None
      <3>1. Loadable(w) /\ (role = "maker" \/ OrderOf(w).event \in asked')
        BY <1>12, <2>1, <2>3
      <3>2. PICK e : e = OrderOf(w).event /\ e = OrderOf(w)'.event
        BY <3>1, OrderStays
      <3> QED BY <1>2, <2>1, <3>1, <3>2 DEF Later, SetupAsked
    <2> QED BY <2>1, <2>2, <2>3 DEF SetupAsked
  <1> QED BY <1>13, <1>14 DEF Early

-----------------------------------------------------------------------------
(* The theorems.                                                           *)

THEOREM InvariantHolds == Spec => [](IInv /\ Early)
  BY Initially, NextIInv, NextEarly, PTL DEF Spec

(* Every variable has its type; each order has one CFD at most, and each   *)
(* CFD one state.  The loop of handle_oracle_attestation is about some CFD *)
(* whenever it begins.                                                     *)
THEOREM TypeCorrect == Spec => []TypeOK
  <1>1. IInv => TypeOK
    BY DEF IInv
  <1> QED BY InvariantHolds, <1>1, PTL

(* The attestation a contract needs is pending, asked for or on its way to *)
(* it, for any number of CFDs that share events, of restarts and of        *)
(* downloads (oracle.rs, handle_oracle_attestation).                       *)
THEOREM NoneMissed == Spec => []NothingMissed
  <1>1. IInv => NothingMissed
    BY DEF IInv
  <1> QED BY InvariantHolds, <1>1, PTL

-----------------------------------------------------------------------------
(* The refinement of CfdStore.                                             *)

StateOrNone == [u \in Uuids |-> IF Loadable(u) THEN State(u) ELSE None]

LEMMA StoreIs ==
    /\ \A u \in Uuids : StateOrNone[u] = IF Loadable(u) THEN State(u) ELSE None
    /\ \A u \in Uuids : (StateOrNone')[u] = IF Loadable(u)' THEN State(u)' ELSE None
  BY DEF StateOrNone

LEMMA StoreKept ==
    ASSUME \A u : Kept(u)
    PROVE  UNCHANGED StateOrNone
  BY DEF StateOrNone, Kept

LEMMA StoreCreates ==
    ASSUME NEW u \in Uuids, NEW s \in Requests, Created(u, s)
    PROVE  Store!StoreNext
  <1>1. StateOrNone[u] = None /\ (StateOrNone')[u] = s
    BY StoreIs DEF Created
  <1>2. \A v \in Uuids \ {u} : (StateOrNone')[v] = StateOrNone[v]
    BY StoreIs DEF Created, Kept
  <1>3. Store!Create(u)
    BY <1>1, <1>2 DEF Store!Create, Store!Others, StateOrNone
  <1> QED BY <1>3 DEF Store!StoreNext

LEMMA StoreUpdates ==
    ASSUME Tables, NEW u \in Uuids, NEW t, Wrote(u, t), Moves(State(u), t)
    PROVE  Store!StoreNext
  <1>1. StateOrNone[u] = State(u) /\ (StateOrNone')[u] = t
    BY StoreIs DEF Wrote
  <1>2. StateOrNone[u] # None
    BY <1>1, Loaded, ApartAssumption DEF Wrote
  <1>3. \A v \in Uuids \ {u} : (StateOrNone')[v] = StateOrNone[v]
    BY StoreIs DEF Wrote, Kept
  <1>4. Moves(StateOrNone[u], (StateOrNone')[u])
    BY <1>1
  <1>5. Store!Update(u)
    BY <1>2, <1>3, <1>4 DEF Store!Update, Store!Others, StateOrNone
  <1> QED BY <1>5 DEF Store!StoreNext

LEMMA StoreCleansUp ==
    ASSUME Tables, CleanedUp
    PROVE  Store!StoreNext
  <1> DEFINE unfinished == {Bare(k) : k \in CleanupKinds}
  <1>1. ASSUME NEW s \in CfdStates PROVE s \in unfinished <=> s.kind \in CleanupKinds
    BY Fields, FieldsOf
  <1>2. None \notin unfinished
    BY IsAwaiting, ApartAssumption
  <1>3. ASSUME NEW u \in Uuids
        PROVE  (StateOrNone')[u] = IF StateOrNone[u] \in unfinished THEN Bare("SetupFailed")
                                   ELSE StateOrNone[u]
    <2>1. CASE Loadable(u)
      <3>1. State(u) \in CfdStates
        BY <2>1, Loaded
      <3> QED BY <1>1, <2>1, <3>1, StoreIs DEF CleanedUp
    <2>2. CASE ~Loadable(u)
      BY <1>2, <2>2, StoreIs DEF CleanedUp
    <2> QED BY <2>1, <2>2
  <1>4. StateOrNone' = [u \in Uuids |-> IF StateOrNone[u] \in unfinished
                                        THEN Bare("SetupFailed") ELSE StateOrNone[u]]
    BY <1>3 DEF StateOrNone
  <1>5. Store!CleanUp
    BY <1>4 DEF Store!CleanUp, StateOrNone
  <1> QED BY <1>5 DEF Store!StoreNext

LEMMA StoreStep ==
    ASSUME IInv, Early, [Next]_vars
    PROVE  Store!StoreNext \/ UNCHANGED StateOrNone
  <1>1. TypeOK /\ Tables
    BY DEF IInv, TypeOK
  <1>2. ASSUME UNCHANGED tables PROVE UNCHANGED StateOrNone
    BY <1>1, <1>2, Unchanged, StoreKept
  <1>3. CASE OracleNext
    <2>1. UNCHANGED tables
      BY <1>3 DEF OracleNext, Sync, NewAnnouncementFetched, NewAttestationFetched,
                  MonitorAttestation
    <2> QED BY <1>2, <2>1
  <1>4. CASE OracleAttestation
    BY <1>2, <1>4 DEF OracleAttestation
  <1>5. ASSUME NEW u \in Uuids, TellCfd(u) PROVE Store!StoreNext \/ UNCHANGED StateOrNone
    <2>1. CASE UNCHANGED tables
      BY <1>2, <2>1
    <2>2. ASSUME Loadable(u), HasDlc(State(u)), NEW e \in Events, NEW t,
                 Changed(AfterOracleAttestation(State(u), e)),
                 t \in {AfterOracleAttestation(State(u), e),
                        AfterCetSent(AfterOracleAttestation(State(u), e))},
                 Wrote(u, t)
          PROVE  Store!StoreNext
      <3>1. Moves(State(u), t)
        BY <2>2 DEF Moves
      <3> QED BY <1>1, <2>2, <3>1, StoreUpdates
    <2> QED BY <1>5, <2>1, <2>2, Tells
  <1>6. ASSUME NEW u \in Uuids, TakeOrder(u) PROVE Store!StoreNext
    BY <1>6, Takes, StoreCreates
  <1>7. ASSUME NEW u \in Uuids, AcceptOrder(u) \/ OrderAccepted(u) PROVE Store!StoreNext
    <2>1. PICK t : t = Bare("ContractSetup")
      OBVIOUS
    <2>2. Wrote(u, t) /\ State(u) \in Requests
      BY <1>7, <2>1, Accepts
    <2>3. Moves(State(u), t)
      BY <2>1, <2>2 DEF Moves
    <2> QED BY <1>1, <2>2, <2>3, StoreUpdates
  <1>8. ASSUME NEW u \in Uuids, CfdSetupCompleted(u) \/ CfdSetupFailed(u) PROVE Store!StoreNext
    <2>1. State(u) = Bare("ContractSetup")
      BY <1>8, SetupEnds
    <2>2. PICK t \in {Bare("SetupFailed")} \cup {PendingOpen(e, None) : e \in Events} : Wrote(u, t)
      BY <1>8, SetupEnds
    <2>3. Moves(State(u), t)
      BY <2>1, <2>2 DEF Moves
    <2> QED BY <1>1, <2>2, <2>3, StoreUpdates
  <1>9. ASSUME NEW u \in Uuids, NEW ev \in Reported, HandleMonitoringEvent(u, ev)
        PROVE  Store!StoreNext
    <2>1. HasDlc(State(u))
      BY <1>9, MonitorReports
    <2>2. PICK t : /\ Changed(AfterMonitorEvent(State(u), ev))
                   /\ t \in {AfterMonitorEvent(State(u), ev),
                             AfterCetSent(AfterMonitorEvent(State(u), ev))}
                   /\ Wrote(u, t)
      BY <1>9, MonitorReports
    <2>3. Moves(State(u), t)
      BY <2>1, <2>2 DEF Moves
    <2> QED BY <1>1, <2>2, <2>3, StoreUpdates
  <1>10. ASSUME NEW u \in Uuids, DiesInserting(u) PROVE Store!StoreNext
    BY <1>1, <1>10, Starts, StoreCleansUp DEF DiesInserting
  <1>11. CASE Restart
    BY <1>1, <1>11, Starts, StoreCleansUp DEF Restart
  <1>12. CASE NewOrder
    BY <1>12, OrderMade, StoreKept
  <1>13. CASE Hour \/ UNCHANGED vars
    BY <1>2, <1>13, Rests
  <1>14. ASSUME NEW u \in Uuids, Commit(u) PROVE Store!StoreNext
    <2>1. HasDlc(State(u))
      BY <1>14, Commits
    <2>2. PICK t : Changed(t) /\ t = AfterCommitTxSent(State(u)) /\ Wrote(u, t)
      BY <1>14, Commits
    <2>3. Moves(State(u), t)
      BY <2>1, <2>2 DEF Moves
    <2> QED BY <1>1, <2>2, <2>3, StoreUpdates
  <1> QED BY <1>3, <1>4, <1>5, <1>6, <1>7, <1>8, <1>9, <1>10, <1>11, <1>12, <1>13, <1>14
          DEF Next, AttestationNext

(* The tables implement a store with one state for each order's CFD: what  *)
(* is read is the state last written, through insertions that break off    *)
(* and restarts (db.rs, append_cfd_state, load_cfd_by_order_id).           *)
THEOREM StoreImplemented == Spec => StoreRefined
  <1>1. Init => Store!StoreInit
    BY Initially DEF Store!StoreInit
  <1>2. IInv /\ Early /\ [Next]_vars
        => [Store!StoreNext]_[uuid \in Uuids |-> IF Loadable(uuid) THEN State(uuid) ELSE None]
    BY StoreStep DEF StateOrNone
  <1> QED BY <1>1, <1>2, InvariantHolds, PTL DEF Spec, StoreRefined, Store!StoreSpec

=============================================================================
