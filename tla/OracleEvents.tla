---------------------------- MODULE OracleEvents ----------------------------
(***************************************************************************)
(* One daemon with several CFDs: its database, its oracle actor, and the   *)
(* cfd actor as far as orders, contracts and attestations go.  CFDs share  *)
(* oracle events, which happen on the hour.                                *)
(*                                                                         *)
(* `now' = h says that the time is after hour h and before h + 1.  Event h *)
(* has occurred once now >= h.  A contract is named by the event its CETs  *)
(* are for.  The other side is not modelled, nor are transactions: of the  *)
(* monitor only which CFDs it follows, and for those it may report any     *)
(* event.  Roll-overs are RollOver's, closes Updates'.                     *)
(***************************************************************************)

EXTENDS Database

CONSTANTS
    None,
    MaxOrders,     \* bound: orders
    Interval,      \* settlement_time_interval_hours of the maker
    TakerLookahead,\* ANNOUNCEMENT_LOOKAHEAD of the taker (24 in the code)
    MaxHour,       \* bound on the clock
    MaxCrashes,    \* bound: restarts
    Reported       \* bound: the events the monitor reports

ASSUME HoursAssumption ==
    /\ Interval \in Nat \ {0} /\ TakerLookahead \in Nat /\ MaxHour \in Nat
    /\ MaxOrders \in Nat /\ MaxCrashes \in Nat

(* Order ids are random and never repeat: the n-th order has id n.         *)
Uuids == 1..MaxOrders

(* Events later than the hour after MaxHour are left out.                  *)
Events == (Interval + 1)..(MaxHour + 1)

INSTANCE CfdState WITH
    Dlcs <- Events, Attestations <- Events, Settlements <- {},
    Cets <- [e \in Events |-> {e}]

ASSUME ReportedAssumption == Reported \subseteq MonitorEvents

(* None is no order, event, state of a CFD or loop over CFDs.             *)
ASSUME ApartAssumption ==
    /\ None \notin Uuids /\ None \notin Events /\ None \notin CfdStates
    /\ None \notin [event : Events, left : SUBSET Uuids]

VARIABLES
    role,           \* "maker" or "taker"
    now,            \* the hour
    announcements,  \* events the oracle actor has the announcement of
    announcing,     \* announcements being downloaded
    pending,        \* pending_attestations
    asked,          \* MonitorAttestation messages not handled yet
    fetching,       \* events whose attestation is being downloaded
    mail,           \* attestations on the way to the cfd actor
    attesting,      \* the CFDs the cfd actor has still to tell, or None
    setup,          \* the order whose contract is being set up, or None
    watched,        \* CFDs the monitor follows
    erased,         \* CFDs whose attestation LockFinality dropped since the start
    crashes         \* restarts so far

oracleVars == <<announcements, announcing, pending, asked, fetching>>
actorVars == <<mail, attesting, setup, watched>>
vars == <<tables, role, now, oracleVars, actorVars, erased, crashes>>

(* next_announcement_after(now + hours): the hour after, also on the hour. *)
NextAnnouncementAfter(hours) == now + hours + 1

Occurred(event) == now >= event

Lookahead == IF role = "maker" THEN Interval ELSE TakerLookahead

Request == IF role = "maker" THEN "IncomingOrderRequest" ELSE "OutgoingOrderRequest"

-----------------------------------------------------------------------------
(* The oracle actor.                                                       *)

(* What is not here yet is asked for again by every sync: a download that  *)
(* has no answer by then has failed, for all the actor knows.              *)

(* Mutant: the last hour is left out.                                      *)
EnsureHavingAnnouncementsShort ==
    announcing' = {e \in Events : \E h \in 1..(Lookahead - 1) :
                                    e = NextAnnouncementAfter(h)} \ announcements

EnsureHavingAnnouncements ==
    announcing' = {e \in Events : \E h \in 1..Lookahead :
                                    e = NextAnnouncementAfter(h)} \ announcements

UpdatePendingAttestations ==
    fetching' = fetching \cup {e \in pending : Occurred(e)}

Sync ==
    /\ EnsureHavingAnnouncements
    /\ UpdatePendingAttestations
    /\ UNCHANGED <<tables, role, now, announcements, pending, asked, actorVars, erased, crashes>>

NewAnnouncementFetched(e) ==
    /\ e \in announcing
    /\ announcing' = announcing \ {e}
    /\ announcements' = announcements \cup {e}
    /\ UNCHANGED <<tables, role, now, pending, asked, fetching, actorVars, erased, crashes>>

(* The attestation goes through the fan-out actor to the cfd actor.        *)
NewAttestationFetched(e) ==
    /\ e \in fetching
    /\ fetching' = fetching \ {e}
    /\ mail' = Append(mail, e)
    /\ pending' = pending \ {e}
    /\ UNCHANGED <<tables, role, now, announcements, announcing, asked,
                   attesting, setup, watched, erased, crashes>>

MonitorAttestation(e) ==
    /\ e \in asked
    /\ asked' = asked \ {e}
    /\ pending' = pending \cup {e}
    /\ UNCHANGED <<tables, role, now, announcements, announcing, fetching,
                   actorVars, erased, crashes>>

-----------------------------------------------------------------------------
(* The cfd actor.  It handles one message at a time; `attesting' is its    *)
(* loop over the CFDs of an event.                                         *)

Idle == attesting = None

State(uuid) == LoadCfd(uuid).state
Write(uuid, state) == AppendCfdState(uuid, state)

(* The maker makes an order; the taker gets one the maker made by now.     *)
NewOrder ==
    /\ Idle /\ Len(orders) < MaxOrders
    /\ \E e \in Events :
        /\ \/ e = NextAnnouncementAfter(Interval)
           \/ role = "taker" /\ e < NextAnnouncementAfter(Interval)
        /\ InsertOrder(Len(orders) + 1, e)
    /\ UNCHANGED <<role, now, oracleVars, actorVars, erased, crashes>>

TakeOrder(uuid) ==
    /\ Idle
    /\ InsertCfd(uuid, Bare(Request))
    /\ UNCHANGED <<role, now, oracleVars, actorVars, erased, crashes>>

(* handle_accept_order looks for the announcement first, and changes       *)
(* nothing without it.                                                     *)
AcceptOrder(uuid) ==
    /\ Idle /\ role = "maker" /\ setup = None
    /\ Loadable(uuid) /\ State(uuid).kind = "IncomingOrderRequest"
    /\ OrderOf(uuid).event \in announcements
    /\ Write(uuid, Bare("ContractSetup"))
    /\ setup' = uuid
    /\ UNCHANGED <<role, now, oracleVars, mail, attesting, watched, erased, crashes>>

(* handle_order_accepted writes the state first, and stays in it without   *)
(* the announcement.                                                       *)
OrderAccepted(uuid) ==
    /\ Idle /\ role = "taker" /\ setup = None
    /\ Loadable(uuid) /\ State(uuid).kind = "OutgoingOrderRequest"
    /\ Write(uuid, Bare("ContractSetup"))
    /\ IF OrderOf(uuid).event \in announcements
       THEN /\ setup' = uuid
            /\ asked' = asked \cup {OrderOf(uuid).event}
       ELSE UNCHANGED <<setup, asked>>
    /\ UNCHANGED <<role, now, announcements, announcing, pending, fetching, mail,
                   attesting, watched, erased, crashes>>

(* Mutant: the attestation is not asked for, on the taker's argument that  *)
(* it was when the order was accepted.                                     *)
CfdSetupCompletedUnasked(uuid) ==
    /\ Idle /\ setup = uuid /\ setup' = None
    /\ Write(uuid, PendingOpen(OrderOf(uuid).event, None))
    /\ watched' = watched \cup {uuid} \/ watched' = watched
    /\ UNCHANGED <<role, now, oracleVars, mail, attesting, erased, crashes>>

(* Where the lock cannot be broadcast, the handler ends before it tells    *)
(* the monitor and the oracle actor of the contract it has stored.         *)
CfdSetupCompleted(uuid) ==
    /\ Idle /\ setup = uuid /\ setup' = None
    /\ Write(uuid, PendingOpen(OrderOf(uuid).event, None))
    /\ \/ /\ watched' = watched \cup {uuid}
          /\ asked' = asked \cup {OrderOf(uuid).event}
       \/ UNCHANGED <<watched, asked>>
    /\ UNCHANGED <<role, now, announcements, announcing, pending, fetching, mail,
                   attesting, erased, crashes>>

CfdSetupFailed(uuid) ==
    /\ Idle /\ setup = uuid /\ setup' = None
    /\ Write(uuid, Bare("SetupFailed"))
    /\ UNCHANGED <<role, now, oracleVars, mail, attesting, watched, erased, crashes>>

(* handle_commit: nothing changes where the broadcast fails.               *)
Commit(uuid) ==
    /\ Idle /\ Loadable(uuid) /\ CanCommit(State(uuid))
    /\ LET after == Handle(State(uuid), AfterCommitTxSent(State(uuid)))
       IN  Changed(after) /\ Write(uuid, after)
    /\ UNCHANGED <<role, now, oracleVars, actorVars, erased, crashes>>

(* Events of the monitor that move a CFD on; the CET follows at once when  *)
(* it can be built and the wallet sends it.                                *)
HandleMonitoringEvent(uuid, ev) ==
    /\ Idle /\ uuid \in watched /\ Loadable(uuid)
    /\ LET after == Handle(State(uuid), AfterMonitorEvent(State(uuid), ev))
       IN  /\ Changed(after) /\ after # State(uuid)
           /\ \/ Write(uuid, after)
              \/ CanPublishCet(after) /\ Write(uuid, AfterCetSent(after))
           /\ erased' = IF ev = "LockFinality" /\ State(uuid).att # None
                        THEN erased \cup {uuid} ELSE erased
    /\ UNCHANGED <<role, now, oracleVars, actorVars, crashes>>

(* handle_oracle_attestation loads the CFDs whose order names the event    *)
(* (there is at least one: it was asked for, and CFDs are never deleted)... *)
OracleAttestation ==
    /\ Idle /\ mail # <<>>
    /\ attesting' = [event |-> Head(mail),
                     left |-> {cfd.order.uuid : cfd \in CfdsOfEvent(Head(mail))}]
    /\ mail' = Tail(mail)
    /\ UNCHANGED <<tables, role, now, oracleVars, setup, watched, erased, crashes>>

Told(uuid) ==
    attesting' = IF attesting.left = {uuid} THEN None
                 ELSE [attesting EXCEPT !.left = @ \ {uuid}]

(* Mutant: one CFD that cannot take the attestation ends the loop.         *)
TellCfdOrStop(uuid) ==
    /\ ~Idle /\ uuid \in attesting.left
    /\ LET after == Handle(State(uuid), AfterOracleAttestation(State(uuid), attesting.event))
       IN  IF HasDlc(State(uuid)) /\ Changed(after)
           THEN Write(uuid, after) /\ Told(uuid)
           ELSE attesting' = None /\ UNCHANGED tables
    /\ UNCHANGED <<role, now, oracleVars, mail, setup, watched, erased, crashes>>

(* ...and tells each of them that has a contract, going on to the next one *)
(* after an error.  A CFD it cannot change is left as it is.               *)
TellCfd(uuid) ==
    /\ ~Idle /\ uuid \in attesting.left
    /\ Told(uuid)
    /\ LET after == Handle(State(uuid), AfterOracleAttestation(State(uuid), attesting.event))
       IN  IF HasDlc(State(uuid)) /\ Changed(after)
           THEN \/ Write(uuid, after)
                \/ CanPublishCet(after) /\ Write(uuid, AfterCetSent(after))
           ELSE UNCHANGED tables
    /\ UNCHANGED <<role, now, oracleVars, mail, setup, watched, erased, crashes>>

-----------------------------------------------------------------------------
(* The daemon stops, in the middle of an insertion or elsewhere, and       *)
(* starts again.                                                           *)

AwaitingKinds == {"PendingOpen", "Open", "PendingCommit", "OpenCommitted", "PendingCet"}

(* transition_non_continue_cfds_to_setup_failed, with one row for a CFD.   *)
FailUnfinished ==
    cfd_states' = [i \in Ids(cfd_states) |->
        IF cfd_states[i].state.kind \in CleanupKinds
        THEN [cfd_states[i] EXCEPT !.state = Bare("SetupFailed")] ELSE cfd_states[i]]

(* oracle::Actor::new *)
ActorNew ==
    pending' = {cfd.order.event : cfd \in {c \in AllCfds' : c.state.kind \in AwaitingKinds}}

(* monitor::Actor::new *)
MonitorNew ==
    watched' = {cfd.order.uuid :
                  cfd \in {c \in AllCfds' : c.state.kind \in AwaitingKinds \cup {"PendingRefund"}}}

Start ==
    /\ crashes < MaxCrashes /\ crashes' = crashes + 1
    /\ ActorNew /\ MonitorNew
    /\ announcements' = {} /\ announcing' = {} /\ asked' = {}
    /\ fetching' = {}
    /\ mail' = <<>> /\ attesting' = None /\ setup' = None
    /\ erased' = {}
    /\ UNCHANGED <<role, now>>

Restart == FailUnfinished /\ UNCHANGED <<orders, cfds>> /\ Start

(* The order can never be taken again: order_uuid is unique.               *)
DiesInserting(uuid) == Idle /\ InsertCfdRow(uuid) /\ FailUnfinished /\ Start

Hour ==
    /\ now < MaxHour /\ now' = now + 1
    /\ UNCHANGED <<tables, role, oracleVars, actorVars, erased, crashes>>

Init ==
    /\ EmptyTables
    /\ role \in {"maker", "taker"} /\ now = 0
    /\ announcements = {} /\ announcing = {} /\ pending = {} /\ asked = {}
    /\ fetching = {}
    /\ mail = <<>> /\ attesting = None /\ setup = None /\ watched = {}
    /\ erased = {} /\ crashes = 0

OracleNext ==
    \/ Sync
    \/ \E e \in Events :
        NewAnnouncementFetched(e) \/ NewAttestationFetched(e) \/ MonitorAttestation(e)

AttestationNext ==
    \/ OracleAttestation
    \/ \E uuid \in Uuids : TellCfd(uuid)

Next ==
    \/ OracleNext \/ AttestationNext
    \/ \E uuid \in Uuids :
        \/ TakeOrder(uuid)
        \/ AcceptOrder(uuid) \/ OrderAccepted(uuid)
        \/ CfdSetupCompleted(uuid) \/ CfdSetupFailed(uuid)
        \/ Commit(uuid)
        \/ \E ev \in Reported : HandleMonitoringEvent(uuid, ev)
        \/ DiesInserting(uuid)
    \/ NewOrder \/ Restart \/ Hour

Spec == Init /\ [][Next]_vars

(* The oracle actor syncs every five seconds, messages are handled, and a  *)
(* download that is tried again and again succeeds in the end.  Nothing    *)
(* makes the clock advance or an order proceed.                            *)
FairSpec ==
    /\ Spec
    /\ WF_vars(Sync) /\ WF_vars(AttestationNext)
    /\ \A e \in Events :
        /\ WF_vars(MonitorAttestation(e)) /\ WF_vars(NewAttestationFetched(e))
        /\ SF_vars(NewAnnouncementFetched(e))

-----------------------------------------------------------------------------
(* Properties.                                                             *)

(* A contract that still needs the attestation of its order's event.       *)
Waits(uuid) ==
    /\ Loadable(uuid) /\ uuid \notin erased
    /\ State(uuid).kind \in AwaitingKinds /\ State(uuid).att = None

(* A contract whose attestation was asked for: the lock was broadcast, now *)
(* or after a restart, or it is a taker's and its event is still to come.  *)
Requested(uuid) ==
    \/ uuid \in watched
    \/ role = "taker" /\ ~Occurred(OrderOf(uuid).event)

(* An attestation a contract needs is not lost between the actors: the     *)
(* oracle actor waits for it, was asked to, or handed it on, whichever     *)
(* other CFD of the same event was told meanwhile, and after a restart.    *)
(* Two things break this until a restart: the confirmation of the lock of  *)
(* a contract that was attested before drops the attestation, and a lock   *)
(* that cannot be broadcast leaves a stored contract nobody asked for (the *)
(* taker asked when its order was accepted, and misses it only if the      *)
(* event occurs before the contract is there).                             *)
NothingMissed ==
    \A uuid \in Uuids : Waits(uuid) /\ Requested(uuid) =>
        LET e == OrderOf(uuid).event
        IN  \/ e \in pending \cup asked \/ \E i \in DOMAIN mail : mail[i] = e
            \/ ~Idle /\ attesting.event = e /\ uuid \in attesting.left

Requests == {Bare("IncomingOrderRequest"), Bare("OutgoingOrderRequest")}

(* What may become of a CFD in one step.                                   *)
Moves(s, t) ==
    \/ s \in Requests /\ t = Bare("ContractSetup")
    \/ /\ s = Bare("ContractSetup")
       /\ t \in {Bare("SetupFailed")} \cup {PendingOpen(e, None) : e \in Events}
    \/ /\ HasDlc(s)
       /\ \E u \in {AfterMonitorEvent(s, ev) : ev \in Reported}
                    \cup {AfterOracleAttestation(s, e) : e \in Events}
                    \cup {AfterCommitTxSent(s)} :
            Changed(u) /\ t \in {u, AfterCetSent(u)}

(* The tables are a store with one state for each order's CFD: a handler   *)
(* reads the newest state of the CFD it is about, and what it appends goes *)
(* to that CFD, through insertions that break off and restarts.            *)
Store == INSTANCE CfdStore WITH
    Keys <- Uuids, Absent <- None,
    Unfinished <- {Bare(k) : k \in CleanupKinds}, Failed <- Bare("SetupFailed"),
    store <- [uuid \in Uuids |-> IF Loadable(uuid) THEN State(uuid) ELSE None]

StoreRefined == Store!StoreSpec

(* A contract the monitor follows learns the attestation once its event    *)
(* has occurred, however many CFDs share the event and whatever becomes of *)
(* the others.  The exceptions are those of NothingMissed.                 *)
CfdAttested ==
    \A uuid \in Uuids :
        Waits(uuid) /\ uuid \in watched /\ Occurred(OrderOf(uuid).event) ~> ~Waits(uuid)

(* An order on offer whose event cannot be used yet, two hours or more     *)
(* ahead: it cannot be accepted.                                           *)
Unannounced(uuid) ==
    /\ HasOrder(uuid) /\ OrderOf(uuid).event \notin announcements
    /\ OrderOf(uuid).event >= now + 2

(* The announcement of an order is found while the event is two hours or   *)
(* more ahead, also after a restart.  (The interval of the maker must not  *)
(* exceed the taker's look-ahead, which nothing in the code ensures.)      *)
OrderAnnounced == \A uuid \in Uuids : Unannounced(uuid) ~> ~Unannounced(uuid)

=============================================================================
