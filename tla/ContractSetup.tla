--------------------------- MODULE ContractSetup ----------------------------
(***************************************************************************)
(* Setting contracts up: setup_contract::new of maker and taker, for the   *)
(* orders one taker has taken on one connection, between the two cfd       *)
(* actors that start it and route its messages.                            *)
(*                                                                         *)
(* An order is its number, and so are the keys and the coins a party makes *)
(* up for it.  A contract is the lock transaction - both parties' keys and *)
(* the margins - and the payouts at an event that its CETs pay.  A         *)
(* signature verifies if the signer built the same transaction.            *)
(*                                                                         *)
(* Each set-up is a task of its own beside the cfd actor: Msg0 exchanges   *)
(* the keys, Msg1 the signatures on commit tx, CETs and refund, Msg2 the   *)
(* signature on the lock tx.  No message says which order it belongs to.   *)
(* The announcements are known here (OrderTaking and OracleEvents have a   *)
(* taker whose oracle lacks one), and a taker that comes back has another  *)
(* id, so what happens after the connection is lost stays on one side.     *)
(***************************************************************************)

EXTENDS Naturals, Sequences

CONSTANTS
    None,
    MaxOrders,    \* bound: orders the taker has taken
    Margins, Events,  \* what their terms may be
    MaxFailures   \* bound: wallet calls that fail

ASSUME BoundsAssumption == MaxOrders \in Nat \ {0} /\ MaxFailures \in Nat
ASSUME TermsAssumption == Margins # {} /\ Events # {}

VARIABLES
    terms,      \* of each order: the margins, the event and price to settle at
    cfd, dlc,   \* both databases: the state of each CFD and its contract
    setup,      \* setup_state: the order whose set-up gets the messages, or None
    tasks,      \* the set-up of each party and order
    linked,     \* the connection is up
    toMaker, toTaker,
    sent,       \* history: messages each party's set-ups have sent
    failures,
    disturbed   \* history: something failed, or a wait was given up too early

dbVars   == <<terms, cfd, dlc>>
wireVars == <<linked, toMaker, toTaker>>
vars == <<dbVars, setup, tasks, wireVars, sent, failures, disturbed>>

Parties  == {"maker", "taker"}
Other(p) == IF p = "maker" THEN "taker" ELSE "maker"
Orders   == 1..MaxOrders

Terms     == [margin : Margins, event : Events]
Locks     == [maker : Orders, taker : Orders, margin : Margins]
Contracts == [lock : Locks, event : Events]

ASSUME NoneAssumption == None \notin Orders \cup Contracts

Accepted(o)  == [kind |-> "accepted", order |-> o]
Msg0(o)      == [kind |-> "msg0", key |-> o, margin |-> terms[o].margin]
Msg1(c)      == [kind |-> "msg1", signed |-> c]
Msg2(c)      == [kind |-> "msg2", lock |-> c.lock]

SetupMsgs == [kind : {"msg0"}, key : Orders, margin : Margins]
             \cup [kind : {"msg1"}, signed : Contracts]
             \cup [kind : {"msg2"}, lock : Locks]
ToTaker   == [kind : {"accepted"}, order : Orders] \cup SetupMsgs

(* A set-up: what it waits for or how it ended, the other party's key,     *)
(* messages not read yet.                                                  *)
NoTask == [step |-> "none", other |-> None, inbox |-> <<>>]
Tasks == [step : {"none", "params", "msg0", "msg1", "msg2", "ok", "failed", "done"},
          other : Orders \cup {None}, inbox : Seq(SetupMsgs)]

At(p, o, step, other, inbox) ==
    tasks' = [tasks EXCEPT ![p][o] = [step |-> step, other |-> other, inbox |-> inbox]]

Running(p, o) == tasks[p][o].step \in {"params", "msg0", "msg1", "msg2"}

(* The contract p builds for the order o with the other party's key.       *)
Built(p, o, other) ==
    [lock  |-> [maker  |-> IF p = "maker" THEN o ELSE other,
                taker  |-> IF p = "taker" THEN o ELSE other,
                margin |-> terms[o].margin],
     event |-> terms[o].event]

Own(p, o) == Built(p, o, tasks[p][o].other)

(* Terms are only compared with each other: the first order's may be any.  *)
First == CHOOSE t \in Terms : TRUE

Init ==
    /\ terms \in [Orders -> Terms] /\ terms[1] = First
    /\ cfd = [p \in Parties |-> [o \in Orders |-> "requested"]]
    /\ dlc = [p \in Parties |-> [o \in Orders |-> None]]
    /\ setup = [p \in Parties |-> None]
    /\ tasks = [p \in Parties |-> [o \in Orders |-> NoTask]]
    /\ linked = TRUE /\ toMaker = <<>> /\ toTaker = <<>>
    /\ sent = [p \in Parties |-> {}]
    /\ failures = 0 /\ disturbed = FALSE

-----------------------------------------------------------------------------
(* The cfd actors.                                                         *)

(* What is sent on a lost connection goes nowhere.                         *)
Send(p, ms) ==
    LET carried == IF linked THEN ms ELSE <<>> IN
    IF p = "maker" THEN toTaker' = toTaker \o carried /\ UNCHANGED toMaker
                   ELSE toMaker' = toMaker \o carried /\ UNCHANGED toTaker

Starts(p, o) ==
    /\ cfd' = [cfd EXCEPT ![p][o] = "setup"]
    /\ setup' = [setup EXCEPT ![p] = o]
    /\ At(p, o, "params", None, <<>>)

(* handle_accept_order, on the user's request; on a connection known to be *)
(* lost it does nothing.                                                   *)
AcceptOrder(o) ==
    /\ setup["maker"] = None /\ cfd["maker"][o] = "requested"
    /\ Starts("maker", o)
    /\ Send("maker", <<Accepted(o)>>)
    /\ UNCHANGED <<terms, dlc, linked, sent, failures, disturbed>>

(* handle_order_accepted: while it sets another contract up it refuses.    *)
HandleOrderAccepted ==
    /\ toTaker # <<>> /\ Head(toTaker).kind = "accepted"
    /\ toTaker' = Tail(toTaker)
    /\ IF setup["taker"] = None THEN Starts("taker", Head(toTaker).order)
                                ELSE UNCHANGED <<cfd, setup, tasks>>
    /\ disturbed' = (disturbed \/ setup["taker"] # None)
    /\ UNCHANGED <<terms, dlc, linked, toMaker, sent, failures>>

(* Mutant: the sender is stored when the parameters are there.             *)
RoutedOnceGreeted(p, msg) ==
    LET o == setup[p] IN
    IF o # None /\ Running(p, o) /\ tasks[p][o].step # "params"
    THEN At(p, o, tasks[p][o].step, tasks[p][o].other, Append(tasks[p][o].inbox, msg))
    ELSE UNCHANGED tasks

(* handle_inc_protocol_msg: a message goes to the set-up that is active;   *)
(* without one, or when it has ended, it is dropped.                       *)
Routed(p, msg) ==
    LET o == setup[p] IN
    IF o # None /\ Running(p, o)
    THEN At(p, o, tasks[p][o].step, tasks[p][o].other, Append(tasks[p][o].inbox, msg))
    ELSE UNCHANGED tasks

MakerHandlesProtocolMsg ==
    /\ toMaker # <<>>
    /\ Routed("maker", Head(toMaker))
    /\ toMaker' = Tail(toMaker)
    /\ UNCHANGED <<dbVars, setup, linked, toTaker, sent, failures, disturbed>>

TakerHandlesProtocolMsg ==
    /\ toTaker # <<>> /\ Head(toTaker).kind # "accepted"
    /\ Routed("taker", Head(toTaker))
    /\ toTaker' = Tail(toTaker)
    /\ UNCHANGED <<dbVars, setup, linked, toMaker, sent, failures, disturbed>>

(* Mutant: the error returns before setup_state is reset.                  *)
SetupCompletedKeepsSender(p, o) ==
    /\ tasks[p][o].step \in {"ok", "failed"}
    /\ At(p, o, "done", tasks[p][o].other, tasks[p][o].inbox)
    /\ IF tasks[p][o].step = "ok"
       THEN /\ cfd' = [cfd EXCEPT ![p][o] = "open"]
            /\ dlc' = [dlc EXCEPT ![p][o] = Own(p, o)]
            /\ setup' = [setup EXCEPT ![p] = None]
       ELSE cfd' = [cfd EXCEPT ![p][o] = "failed"] /\ UNCHANGED <<dlc, setup>>
    /\ UNCHANGED <<terms, wireVars, sent, failures, disturbed>>

(* handle_cfd_setup_completed, up to the record.                           *)
SetupCompleted(p, o) ==
    /\ tasks[p][o].step \in {"ok", "failed"}
    /\ setup' = [setup EXCEPT ![p] = None]
    /\ At(p, o, "done", tasks[p][o].other, tasks[p][o].inbox)
    /\ IF tasks[p][o].step = "ok"
       THEN /\ cfd' = [cfd EXCEPT ![p][o] = "open"]
            /\ dlc' = [dlc EXCEPT ![p][o] = Own(p, o)]
       ELSE cfd' = [cfd EXCEPT ![p][o] = "failed"] /\ UNCHANGED dlc
    /\ UNCHANGED <<terms, wireVars, sent, failures, disturbed>>

-----------------------------------------------------------------------------
(* The set-ups.                                                            *)

taskUnchanged == <<dbVars, setup, linked, failures>>

Says(p, msg) ==
    /\ Send(p, <<msg>>)
    /\ sent' = [sent EXCEPT ![p] = @ \cup {msg}]

Goes(p, o, step) ==
    At(p, o, step, tasks[p][o].other, Tail(tasks[p][o].inbox))

Fails(p, o) ==
    /\ At(p, o, "failed", tasks[p][o].other, <<>>)
    /\ UNCHANGED <<dbVars, setup, wireVars, sent>>

Unread(p, o) == Head(tasks[p][o].inbox)
Reads(p, o, kind) ==
    /\ tasks[p][o].step = kind /\ tasks[p][o].inbox # <<>>
    /\ Unread(p, o).kind = kind

(* The wallet has made the party's parameters up: Msg0.                    *)
BuildPartyParams(p, o) ==
    /\ tasks[p][o].step = "params"
    /\ At(p, o, "msg0", tasks[p][o].other, tasks[p][o].inbox)
    /\ Says(p, Msg0(o))
    /\ UNCHANGED <<taskUnchanged, disturbed>>

(* "Amounts sent by counterparty don't add up."                            *)
MarginFits(o, msg) == msg.margin = terms[o].margin

(* Mutant: the lock transaction is signed along with the others.           *)
ReadMsg0SignsLock(p, o) ==
    /\ Reads(p, o, "msg0") /\ MarginFits(o, Unread(p, o))
    /\ LET c == Built(p, o, Unread(p, o).key) IN
         /\ At(p, o, "msg1", Unread(p, o).key, Tail(tasks[p][o].inbox))
         /\ Send(p, <<Msg1(c), Msg2(c)>>)
         /\ sent' = [sent EXCEPT ![p] = @ \cup {Msg1(c), Msg2(c)}]
    /\ UNCHANGED <<taskUnchanged, disturbed>>

(* Both parties' transactions can be made: Msg1 signs them.                *)
ReadMsg0(p, o) ==
    /\ Reads(p, o, "msg0") /\ MarginFits(o, Unread(p, o))
    /\ LET key == Unread(p, o).key IN
         /\ At(p, o, "msg1", key, Tail(tasks[p][o].inbox))
         /\ Says(p, Msg1(Built(p, o, key)))
    /\ UNCHANGED <<taskUnchanged, disturbed>>

CommitVerifies(own, other) == other.lock = own.lock
RefundVerifies(own, other) == other.lock = own.lock

(* Mutant: the ranges of the CETs are compared, not what they sign.        *)
CetsVerifyAnyEvent(own, other) == other.lock = own.lock
CetsVerify(own, other) == other.lock = own.lock /\ other.event = own.event

Verified(own, other) ==
    CommitVerifies(own, other) /\ CetsVerify(own, other) /\ RefundVerifies(own, other)

(* All signatures verify: Msg2 gives the lock transaction's away.          *)
ReadMsg1(p, o) ==
    /\ Reads(p, o, "msg1") /\ Verified(Own(p, o), Unread(p, o).signed)
    /\ Goes(p, o, "msg2")
    /\ Says(p, Msg2(Own(p, o)))
    /\ UNCHANGED <<taskUnchanged, disturbed>>

ReadMsg2(p, o) ==
    /\ Reads(p, o, "msg2") /\ Unread(p, o).lock = Own(p, o).lock
    /\ Goes(p, o, "ok")
    /\ UNCHANGED <<taskUnchanged, toMaker, toTaker, sent, disturbed>>

(* A message of another kind, with another margin, a signature that does   *)
(* not verify, the lock of another contract.                               *)
ReadWrong(p, o) ==
    /\ tasks[p][o].step \in {"msg0", "msg1", "msg2"} /\ tasks[p][o].inbox # <<>>
    /\ LET msg == Unread(p, o) IN
         \/ msg.kind # tasks[p][o].step
         \/ msg.kind = "msg0" /\ ~MarginFits(o, msg)
         \/ msg.kind = "msg1" /\ ~Verified(Own(p, o), msg.signed)
         \/ msg.kind = "msg2" /\ msg.lock # Own(p, o).lock
    /\ Fails(p, o)
    /\ UNCHANGED <<failures, disturbed>>

(* No parameters (too few coins), transactions or signatures can be made.  *)
WalletFails(p, o) ==
    /\ failures < MaxFailures
    /\ \/ tasks[p][o].step = "params"
       \/ Reads(p, o, "msg0") \/ Reads(p, o, "msg1")
    /\ failures' = failures + 1 /\ disturbed' = TRUE
    /\ Fails(p, o)

(* Something is on its way or being worked at.                             *)
Moving ==
    \/ toMaker # <<>> \/ toTaker # <<>>
    \/ \E p \in Parties, o \in Orders :
         tasks[p][o].step = "params" \/ tasks[p][o].inbox # <<>>

(* Mutant: no time-out where the code's TODO asks for a fallback.          *)
GivesUpUnlessSigned(p, o) ==
    /\ tasks[p][o].step \in {"msg0", "msg1"}
    /\ tasks[p][o].inbox = <<>> \/ ~linked
    /\ Fails(p, o)
    /\ disturbed' = (disturbed \/ Moving)
    /\ UNCHANGED failures

(* 60 seconds without a message, or the sink's connection is lost.         *)
GivesUp(p, o) ==
    /\ tasks[p][o].step \in {"msg0", "msg1", "msg2"}
    /\ tasks[p][o].inbox = <<>> \/ ~linked
    /\ Fails(p, o)
    /\ disturbed' = (disturbed \/ Moving)
    /\ UNCHANGED failures

-----------------------------------------------------------------------------
(* The connection is lost with what was on its way.                        *)
Truncated(q, n) == SubSeq(q, 1, n)

ConnectionCloses == \E i \in 0..Len(toMaker), j \in 0..Len(toTaker) :
    /\ linked /\ linked' = FALSE
    /\ toMaker' = Truncated(toMaker, i) /\ toTaker' = Truncated(toTaker, j)
    /\ disturbed' = TRUE
    /\ UNCHANGED <<dbVars, setup, tasks, sent, failures>>

(* A restart ends the set-ups; housekeeping fails their CFDs.              *)
Restart(p) ==
    /\ setup[p] # None
    /\ linked' = FALSE /\ disturbed' = TRUE
    /\ toMaker' = IF p = "maker" THEN <<>> ELSE toMaker
    /\ toTaker' = IF p = "taker" THEN <<>> ELSE toTaker
    /\ setup' = [setup EXCEPT ![p] = None]
    /\ cfd' = [cfd EXCEPT ![p][setup[p]] = "failed"]
    /\ At(p, setup[p], "done", tasks[p][setup[p]].other, <<>>)
    /\ UNCHANGED <<terms, dlc, sent, failures>>

-----------------------------------------------------------------------------
SetupStep(p, o) ==
    \/ BuildPartyParams(p, o) \/ ReadMsg0(p, o) \/ ReadMsg1(p, o) \/ ReadMsg2(p, o)
    \/ ReadWrong(p, o) \/ GivesUp(p, o) \/ SetupCompleted(p, o)

Work ==
    \/ HandleOrderAccepted \/ MakerHandlesProtocolMsg \/ TakerHandlesProtocolMsg
    \/ \E p \in Parties, o \in Orders : SetupStep(p, o)

Next ==
    \/ Work
    \/ \E o \in Orders : AcceptOrder(o)
    \/ \E p \in Parties, o \in Orders : WalletFails(p, o)
    \/ ConnectionCloses
    \/ \E p \in Parties : Restart(p)

Spec == Init /\ [][Next]_vars

(* As long as an actor has mail, a task a message to read or a timer runs, *)
(* something goes on; which first is left open, as all of it comes to an   *)
(* end.  Users and failures owe nothing.                                   *)
Fairness == WF_vars(Work)

FairSpec == Spec /\ Fairness

-----------------------------------------------------------------------------
(* The active set-up is the only one that has not been completed.          *)
TypeOK ==
    /\ terms \in [Orders -> Terms]
    /\ cfd \in [Parties -> [Orders -> {"requested", "setup", "open", "failed"}]]
    /\ dlc \in [Parties -> [Orders -> Contracts \cup {None}]]
    /\ setup \in [Parties -> Orders \cup {None}]
    /\ tasks \in [Parties -> [Orders -> Tasks]]
    /\ \A p \in Parties, o \in Orders :
         setup[p] = o <=> tasks[p][o].step \notin {"none", "done"}
    /\ linked \in BOOLEAN
    /\ toMaker \in Seq(SetupMsgs) /\ toTaker \in Seq(ToTaker)
    /\ sent \in [Parties -> SUBSET SetupMsgs]
    /\ failures \in 0..MaxFailures /\ disturbed \in BOOLEAN

(* What messages of another set-up bring does not set the parties apart:   *)
(* contracts on one lock transaction, and the two of one order, are the    *)
(* same contract (verify_cets, verify_signature).  They belong to          *)
(* different orders only if the maker's set-up of the taker's order failed *)
(* before it sent anything: its Msg0 is the first thing the taker's set-up *)
(* reads (handle_accept_order notifies the taker first).                   *)
ContractsMatch ==
    /\ \A o, q \in Orders :
         LET m == dlc["maker"][o]
             t == dlc["taker"][q]
         IN  m # None /\ t # None /\ (o = q \/ m.lock = t.lock) => m = t
    /\ \A p \in Parties, o \in Orders :
         dlc[p][o] # None => LET lock == dlc[p][o].lock IN
            lock.maker # lock.taker => Msg0(lock.taker) \notin sent["maker"]

(* Nobody's coins are locked without a way out: who signs a lock           *)
(* transaction has been sent the other's signatures on commit transaction, *)
(* CETs and refund of the very contract it built, and who holds a contract *)
(* has been sent the lock's.                                               *)
LockIsBacked == \A p \in Parties, o \in Orders :
    /\ Msg2(Own(p, o)) \in sent[p] /\ tasks[p][o].other # None
          => Msg1(Own(p, o)) \in sent[Other(p)]
    /\ dlc[p][o] # None => Msg2(dlc[p][o]) \in sent[Other(p)]

(* No set-up stays active: neither waits for ever for the other, whatever  *)
(* is lost, and the next order can be accepted (timeout).                  *)
SetupEnds == \A p \in Parties, o \in Orders : setup[p] = o ~> setup[p] # o

(* When nothing fails and no one gives up a wait for what is on its way,   *)
(* an accepted order becomes an open CFD on both sides: the two set-ups    *)
(* neither wait for each other nor miss a message (handle_accept_order,    *)
(* handle_order_accepted, handle_inc_protocol_msg).                        *)
SetupSucceeds == \A o \in Orders : cfd["maker"][o] = "setup"
    ~> disturbed \/ (\A p \in Parties : cfd[p][o] = "open")

=============================================================================
