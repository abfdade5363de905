----------------------------- MODULE OrderTaking -----------------------------
(***************************************************************************)
(* How an order is offered, taken, and accepted or rejected: the maker's   *)
(* cfd actor and connection actor, and the takers' cfd actors, connected   *)
(* by one TCP stream per session of a taker.                               *)
(*                                                                         *)
(* An actor handles one message at a time, and messages to the connection  *)
(* actor arrive in the order sent.  Two handlers wait for an answer of     *)
(* another actor and are split there: accepting an order waits for the     *)
(* connection actor (`accepting'), and greeting a new connection waits for *)
(* the cfd actor (`greeting').  The set-up itself is only its outcome.     *)
(***************************************************************************)

EXTENDS Naturals, Sequences, FiniteSets

CONSTANTS
    None,
    Takers,        \* taker daemons
    Orders,        \* the orders the maker may publish
    MaxSessions,   \* bound: starts of each taker daemon
    MaxRestarts,   \* bound: restarts of the maker daemon
    MaxConnections,\* bound: starts of all takers together
    MaxRequests,   \* bound: orders taken, by all takers together
    AnnouncementsKnown  \* FALSE: a taker's oracle may lack an announcement

ASSUME SessionAssumption ==
    /\ MaxSessions \in Nat \ {0}
    /\ MaxRestarts \in Nat /\ MaxRequests \in Nat
    /\ MaxConnections \in Nat
    /\ AnnouncementsKnown \in BOOLEAN

VARIABLES
    \* the maker's database
    published,  \* orders in its orders table
    mState,     \* the latest state of the maker's CFD for each order
    who,        \* taker_id of the IncomingOrderRequest of each order
    \* the maker's cfd actor
    current,    \* current_order_id
    mSetup,     \* setup_state, and how far the set-up future is
    accepting,  \* handle_accept_order waiting for the connection actor
    restarts,   \* restarts so far
    \* the maker's connection actor
    connMail,   \* its mailbox
    greeting,   \* the connection whose NewTakerOnline it waits on, or None
    link,       \* each connection
    \* the wire
    up,         \* per connection: orders asked for, not handled yet
    down,       \* per connection: messages to the taker, not handled yet
    \* the takers
    sess,       \* number of the current session, 0 before the first
    known,      \* orders in the taker's orders table
    tState,     \* the latest state of the taker's CFD for each order
    feed,       \* the order its UI shows, or None
    tSetup,     \* setup_state, and how far the set-up future is
    \* history
    verdict     \* the answer written to each taker about each order

makerVars == <<published, mState, who, current, mSetup, accepting, restarts>>
connVars  == <<connMail, greeting, link>>
takerVars == <<sess, known, tState, feed, tSetup>>
vars == <<makerVars, connVars, up, down, takerVars, verdict>>

(* A connection is a session of a taker; the maker makes up a new TakerId  *)
(* for each.                                                               *)
Conns  == Takers \X (1..MaxSessions)
Own(t) == <<t, sess[t]>>

(* The taker daemon got through connection::Actor::new: its actors run.    *)
Online(t) == sess[t] > 0 /\ link[Own(t)] \in {"up", "reset"}

Message(kind, to, order) == [kind |-> kind, to |-> to, order |-> order]
BroadcastOrder(order)    == Message("broadcast", None, order)

Answers == {"invalid", "reject", "confirm"}

(* A set-up in progress: its order, the taker, how its future stands.      *)
Setup(o, c) == [order |-> o, conn |-> c, outcome |-> "running"]

States   == {"none", "incoming", "outgoing", "rejected", "setup", "open", "failed"}
Setups   == [order : Orders, conn : Conns, outcome : {"running", "ok", "failed"}]
Accepts  == [order : Orders, reply : {"waiting", "ok", "err"}]
Messages ==
    [kind : {"broadcast"}, to : {None}, order : Orders \cup {None}]
    \cup [kind : {"new", "send"}, to : Conns, order : Orders \cup {None}]
    \cup [kind : Answers, to : Conns, order : Orders]
ToTaker ==
    [kind : {"current"}, order : Orders \cup {None}] \cup [kind : Answers, order : Orders]

ASSUME NoneAssumption == None \notin Orders \cup Conns \cup Setups \cup Accepts

Unfinished == {"incoming", "outgoing", "setup"}

(* transition_non_continue_cfds_to_setup_failed                            *)
Housekeeping(states) ==
    [o \in Orders |-> IF states[o] \in Unfinished THEN "failed" ELSE states[o]]

Init ==
    /\ published = {} /\ current = None
    /\ mState = [o \in Orders |-> "none"]
    /\ who = [o \in Orders |-> None]
    /\ mSetup = None /\ accepting = None /\ restarts = 0
    /\ connMail = <<>> /\ greeting = None
    /\ link = [c \in Conns |-> "unused"]
    /\ up = [c \in Conns |-> <<>>] /\ down = [c \in Conns |-> <<>>]
    /\ sess = [t \in Takers |-> 0]
    /\ known = [t \in Takers |-> {}]
    /\ tState = [t \in Takers |-> [o \in Orders |-> "none"]]
    /\ feed = [t \in Takers |-> None]
    /\ tSetup = [t \in Takers |-> None]
    /\ verdict = [t \in Takers |-> [o \in Orders |-> "none"]]

-----------------------------------------------------------------------------
(* The maker's cfd actor.                                                  *)

Idle == accepting = None

Post(messages) == connMail' = connMail \o messages /\ UNCHANGED <<greeting, link>>

NewOrder(o) ==
    /\ Idle /\ o \notin published
    /\ published' = published \cup {o}
    /\ current' = o
    /\ Post(<<BroadcastOrder(o)>>)
    /\ UNCHANGED <<mState, who, mSetup, accepting, restarts, up, down,
                   takerVars, verdict>>

(* The cfd actor answers NewTakerOnline, and the connection actor is free. *)
NewTakerOnline ==
    /\ Idle /\ greeting # None
    /\ connMail' = Append(connMail, Message("send", greeting, current))
    /\ greeting' = None
    /\ UNCHANGED <<makerVars, link, up, down, takerVars, verdict>>

(* The next TakeOrder of connection c.                                     *)
TakeOrderOf(c, o) ==
    /\ Idle /\ link[c] \in {"up", "gone"}
    /\ up[c] # <<>> /\ o = Head(up[c])
    /\ up' = [up EXCEPT ![c] = Tail(@)]
    /\ UNCHANGED <<published, mSetup, accepting, restarts, down, takerVars,
                   verdict>>

TakeOutdated(c, o) ==
    /\ TakeOrderOf(c, o) /\ o # current
    /\ Post(<<Message("invalid", c, o)>>)
    /\ UNCHANGED <<mState, who, current>>

(* insert_cfd, in the given state in the end; the order is off the market. *)
InsertCfd(c, o, state) ==
    /\ mState[o] = "none"
    /\ mState' = [mState EXCEPT ![o] = state]
    /\ who' = [who EXCEPT ![o] = c]
    /\ current' = None

(* A quantity out of bounds is rejected at once, by reject_order.          *)
TakeOutOfBounds(c, o) ==
    /\ TakeOrderOf(c, o) /\ o = current
    /\ InsertCfd(c, o, "rejected")
    /\ Post(<<Message("reject", c, o), BroadcastOrder(None)>>)

(* Mutant: the takers are not told that the order is gone.                 *)
TakeCurrentSilently(c, o) ==
    /\ TakeOrderOf(c, o) /\ o = current
    /\ InsertCfd(c, o, "incoming")
    /\ UNCHANGED connVars

TakeCurrent(c, o) ==
    /\ TakeOrderOf(c, o) /\ o = current
    /\ InsertCfd(c, o, "incoming")
    /\ Post(<<BroadcastOrder(None)>>)

HandleTakeOrder(c) == \E o \in Orders :
    TakeOutdated(c, o) \/ TakeOutOfBounds(c, o) \/ TakeCurrent(c, o)

(* Mutant: an order already accepted can still be rejected.                *)
RejectAnyOrder(o) ==
    /\ Idle /\ who[o] # None /\ mState[o] # "rejected"
    /\ mState' = [mState EXCEPT ![o] = "rejected"]
    /\ current' = None
    /\ Post(<<Message("reject", who[o], o), BroadcastOrder(None)>>)
    /\ UNCHANGED <<published, who, mSetup, accepting, restarts, up, down,
                   takerVars, verdict>>

(* Mutant: the taker is not told of the rejection.                         *)
RejectSilently(o) ==
    /\ Idle /\ mState[o] = "incoming"
    /\ mState' = [mState EXCEPT ![o] = "rejected"]
    /\ current' = None
    /\ Post(<<BroadcastOrder(None)>>)
    /\ UNCHANGED <<published, who, mSetup, accepting, restarts, up, down,
                   takerVars, verdict>>

(* The rejection takes whatever order is on offer off the market.          *)
RejectOrder(o) ==
    /\ Idle /\ mState[o] = "incoming"
    /\ mState' = [mState EXCEPT ![o] = "rejected"]
    /\ current' = None
    /\ Post(<<Message("reject", who[o], o), BroadcastOrder(None)>>)
    /\ UNCHANGED <<published, who, mSetup, accepting, restarts, up, down,
                   takerVars, verdict>>

(* Mutant: an order is accepted while another set-up is running.           *)
AcceptAnotherOrder(o) ==
    /\ Idle /\ mState[o] = "incoming"
    /\ accepting' = [order |-> o, reply |-> "waiting"]
    /\ Post(<<Message("confirm", who[o], o)>>)
    /\ UNCHANGED <<published, mState, who, current, mSetup, restarts, up, down,
                   takerVars, verdict>>

(* Mutant: the state of the CFD is not looked at, only that there is one.  *)
AcceptAnyState(o) ==
    /\ Idle /\ mSetup = None /\ mState[o] # "none"
    /\ accepting' = [order |-> o, reply |-> "waiting"]
    /\ Post(<<Message("confirm", who[o], o)>>)
    /\ UNCHANGED <<published, mState, who, current, mSetup, restarts, up, down,
                   takerVars, verdict>>

(* handle_accept_order up to `.send', which waits for the connection actor *)
(* to have written the confirmation.                                       *)
AcceptOrder(o) ==
    /\ Idle /\ mSetup = None /\ mState[o] = "incoming"
    /\ accepting' = [order |-> o, reply |-> "waiting"]
    /\ Post(<<Message("confirm", who[o], o)>>)
    /\ UNCHANGED <<published, mState, who, current, mSetup, restarts, up, down,
                   takerVars, verdict>>

(* ... and the rest of it; if the taker could not be told nothing changes. *)
AcceptContinues ==
    /\ ~Idle /\ accepting.reply # "waiting"
    /\ accepting' = None
    /\ IF accepting.reply = "ok"
       THEN /\ mState' = [mState EXCEPT ![accepting.order] = "setup"]
            /\ mSetup' = Setup(accepting.order, who[accepting.order])
       ELSE UNCHANGED <<mState, mSetup>>
    /\ UNCHANGED <<published, who, current, restarts, connVars, up, down,
                   takerVars, verdict>>

(* The maker's set-up future ends.  It succeeds only with messages of the  *)
(* taker's own set-up; it fails by a time-out or a bad message.            *)
MakerSetupEnds ==
    /\ mSetup # None /\ mSetup.outcome = "running"
    /\ \E outcome \in {"ok", "failed"} :
          /\ outcome = "ok" => tState[mSetup.conn[1]][mSetup.order] # "outgoing"
          /\ mSetup' = [mSetup EXCEPT !.outcome = outcome]
    /\ UNCHANGED <<published, mState, who, current, accepting, restarts,
                   connVars, up, down, takerVars, verdict>>

Concluded(outcome) == IF outcome = "ok" THEN "open" ELSE "failed"

MakerSetupCompleted ==
    /\ Idle /\ mSetup # None /\ mSetup.outcome # "running"
    /\ mState' = [mState EXCEPT ![mSetup.order] = Concluded(mSetup.outcome)]
    /\ mSetup' = None
    /\ UNCHANGED <<published, who, current, accepting, restarts, connVars,
                   up, down, takerVars, verdict>>

(* The maker daemon stops and starts again: its connections are cut, and   *)
(* no taker connects again before it is restarted itself.                  *)
MakerRestarts ==
    /\ restarts < MaxRestarts /\ restarts' = restarts + 1
    /\ mState' = Housekeeping(mState)
    /\ current' = None /\ mSetup' = None /\ accepting' = None
    /\ connMail' = <<>> /\ greeting' = None
    /\ link' = [c \in Conns |-> CASE link[c] = "up" -> "reset"
                                  [] link[c] = "unused" -> "unused"
                                  [] link[c] = "reset" -> "reset"
                                  [] OTHER -> "failed"]
    /\ up' = [c \in Conns |-> <<>>]
    /\ UNCHANGED <<published, who, down, takerVars, verdict>>

-----------------------------------------------------------------------------
(* The maker's connection actor.                                           *)

NextMessage(kinds) ==
    /\ greeting = None
    /\ connMail # <<>> /\ Head(connMail).kind \in kinds
    /\ connMail' = Tail(connMail)

(* A message for connections cs; nobody reads it once the taker has gone.  *)
Deliver(cs, kind, order) ==
    down' = [c \in Conns |-> IF c \in cs /\ link[c] = "up"
                             THEN Append(down[c], [kind |-> kind, order |-> order])
                             ELSE down[c]]

(* The handshake, which fails if the taker has gone, and the question to   *)
(* the cfd actor.                                                          *)
HandleNewConnection ==
    /\ NextMessage({"new"})
    /\ LET c == Head(connMail).to IN
       IF Own(c[1]) = c
       THEN link' = [link EXCEPT ![c] = "up"] /\ greeting' = c
       ELSE link' = [link EXCEPT ![c] = "failed"] /\ UNCHANGED greeting
    /\ UNCHANGED <<makerVars, up, down, takerVars, verdict>>

(* write_connections has every connection, those that ended included, in   *)
(* no particular order; the first dead one ends the handler.               *)
HandleBroadcastOrder ==
    /\ NextMessage({"broadcast"})
    /\ LET alive == {c \in Conns : link[c] \in {"up", "gone"}} IN
       \E cs \in SUBSET alive :
          /\ (\A c \in Conns : link[c] # "dead") => cs = alive
          /\ Deliver(cs, "current", Head(connMail).order)
    /\ UNCHANGED <<makerVars, greeting, link, up, takerVars, verdict>>

VerdictOf(kind) == IF kind = "confirm" THEN "accepted" ELSE "refused"

(* send_to_taker waits until the message is written, and fails for a dead  *)
(* connection and for one it never had.                                    *)
HandleTakerMessage ==
    /\ NextMessage({"send"} \cup Answers)
    /\ LET m == Head(connMail)
           written == link[m.to] \in {"up", "gone"}
       IN
       /\ Deliver(IF written THEN {m.to} ELSE {},
                  IF m.kind = "send" THEN "current" ELSE m.kind, m.order)
       /\ accepting' = IF m.kind = "confirm"
                       THEN [accepting EXCEPT !.reply = IF written THEN "ok" ELSE "err"]
                       ELSE accepting
       /\ verdict' = IF written /\ m.kind \in Answers
                     THEN [verdict EXCEPT ![m.to[1]][m.order] = VerdictOf(m.kind)]
                     ELSE verdict
    /\ UNCHANGED <<published, mState, who, current, mSetup, restarts, greeting,
                   link, up, takerVars>>

(* The taker's stream ends, and with it the actor writing to the taker.    *)
ConnectionCloses(c) ==
    /\ link[c] = "gone" /\ up[c] = <<>>
    /\ link' = [link EXCEPT ![c] = "dead"]
    /\ UNCHANGED <<makerVars, connMail, greeting, up, down, takerVars, verdict>>

ConnectionActor ==
    HandleNewConnection \/ HandleBroadcastOrder \/ HandleTakerMessage

-----------------------------------------------------------------------------
(* The takers.                                                             *)

Connected == {c \in Conns : link[c] # "unused"}

(* A taker daemon starts, or stops and starts again, and connects.         *)
TakerStarts(t) ==
    /\ sess[t] < MaxSessions /\ Cardinality(Connected) < MaxConnections
    /\ sess' = [sess EXCEPT ![t] = @ + 1]
    /\ tState' = [tState EXCEPT ![t] = Housekeeping(@)]
    /\ feed' = [feed EXCEPT ![t] = None]
    /\ tSetup' = [tSetup EXCEPT ![t] = None]
    /\ connMail' = Append(connMail, Message("new", <<t, sess[t] + 1>>, None))
    /\ link' = [c \in Conns |-> CASE c = <<t, sess[t] + 1>> -> "pending"
                                  [] c = Own(t) /\ link[c] = "up" -> "gone"
                                  [] OTHER -> link[c]]
    /\ down' = [c \in Conns |-> IF c = Own(t) THEN <<>> ELSE down[c]]
    /\ UNCHANGED <<makerVars, greeting, up, known, verdict>>

Requests == {x \in Takers \X Orders : tState[x[1]][x[2]] # "none"}

(* The user takes an order the daemon knows, by its id.                    *)
TakeOffer(t, o) ==
    /\ Online(t) /\ o \in known[t] /\ tState[t][o] = "none"
    /\ Cardinality(Requests) < MaxRequests
    /\ tState' = [tState EXCEPT ![t][o] = "outgoing"]
    /\ feed' = [feed EXCEPT ![t] = None]
    /\ up' = IF link[Own(t)] = "up" THEN [up EXCEPT ![Own(t)] = Append(@, o)] ELSE up
    /\ UNCHANGED <<makerVars, connVars, down, sess, known, tSetup, verdict>>

(* The next message of the maker.                                          *)
Receive(t, kinds, o) ==
    /\ Online(t) /\ down[Own(t)] # <<>>
    /\ Head(down[Own(t)]).kind \in kinds /\ o = Head(down[Own(t)]).order
    /\ down' = [down EXCEPT ![Own(t)] = Tail(@)]
    /\ UNCHANGED <<makerVars, connVars, up, sess, verdict>>

(* CurrentOrder: an order the table has already is an error, and then the  *)
(* feed stays as it is.                                                    *)
HandleNewOrder(t) == \E o \in Orders \cup {None} :
    /\ Receive(t, {"current"}, o)
    /\ known' = [known EXCEPT ![t] = @ \cup ({o} \ {None})]
    /\ feed' = IF o \in known[t] THEN feed ELSE [feed EXCEPT ![t] = o]
    /\ UNCHANGED <<tState, tSetup>>

HandleOrderRejected(t) == \E o \in Orders :
    /\ Receive(t, {"reject", "invalid"}, o)
    /\ tState' = [tState EXCEPT ![t][o] = "rejected"]
    /\ UNCHANGED <<known, feed, tSetup>>

(* ConfirmOrder: nothing happens while another set-up is active; without   *)
(* the announcement the state changes and no set-up is started.            *)
HandleOrderAccepted(t) == \E o \in Orders :
    /\ Receive(t, {"confirm"}, o)
    /\ IF tSetup[t] # None
       THEN UNCHANGED <<tState, tSetup>>
       ELSE /\ tState' = [tState EXCEPT ![t][o] = "setup"]
            /\ \/ tSetup' = [tSetup EXCEPT ![t] = Setup(o, Own(t))]
               \/ ~AnnouncementsKnown /\ UNCHANGED tSetup
    /\ UNCHANGED <<known, feed>>

(* The taker's future succeeds only with messages of the maker's own.      *)
TakerSetupEnds(t) ==
    /\ tSetup[t] # None /\ tSetup[t].outcome = "running"
    /\ \E outcome \in {"ok", "failed"} :
          /\ outcome = "ok" => mState[tSetup[t].order] # "incoming"
          /\ tSetup' = [tSetup EXCEPT ![t].outcome = outcome]
    /\ UNCHANGED <<makerVars, connVars, up, down, sess, known, tState, feed,
                   verdict>>

(* Mutant: the set-up stays active when its completion is handled.         *)
TakerSetupStaysActive(t) ==
    /\ tSetup[t] # None /\ tSetup[t].outcome \in {"ok", "failed"}
    /\ tState' = [tState EXCEPT ![t][tSetup[t].order] = Concluded(tSetup[t].outcome)]
    /\ tSetup' = [tSetup EXCEPT ![t].outcome = "handled"]
    /\ UNCHANGED <<makerVars, connVars, up, down, sess, known, feed, verdict>>

TakerSetupCompleted(t) ==
    /\ tSetup[t] # None /\ tSetup[t].outcome # "running"
    /\ tState' = [tState EXCEPT ![t][tSetup[t].order] = Concluded(tSetup[t].outcome)]
    /\ tSetup' = [tSetup EXCEPT ![t] = None]
    /\ UNCHANGED <<makerVars, connVars, up, down, sess, known, feed, verdict>>

-----------------------------------------------------------------------------
TakerActor(t) == HandleNewOrder(t) \/ HandleOrderRejected(t)
                 \/ HandleOrderAccepted(t) \/ TakerSetupCompleted(t)

Next ==
    \/ \E o \in Orders : NewOrder(o) \/ RejectOrder(o) \/ AcceptOrder(o)
    \/ NewTakerOnline
    \/ \E c \in Conns : HandleTakeOrder(c) \/ ConnectionCloses(c)
    \/ AcceptContinues \/ MakerSetupEnds \/ MakerSetupCompleted
    \/ MakerRestarts
    \/ ConnectionActor
    \/ \E t \in Takers : TakerStarts(t) \/ TakerActor(t) \/ TakerSetupEnds(t)
    \/ \E t \in Takers, o \in Orders : TakeOffer(t, o)

Spec == Init /\ [][Next]_vars

(* Actors handle what is in their mailboxes.  This much is enough for an   *)
(* answer to arrive.                                                       *)
MessagesHandled ==
    /\ WF_vars(NewTakerOnline) /\ WF_vars(AcceptContinues)
    /\ WF_vars(ConnectionActor)
    /\ \A t \in Takers : WF_vars(TakerActor(t))

AnswerSpec == Spec /\ MessagesHandled

(* A set-up ends because each of its waits has a time-out.  Users and      *)
(* failures owe nothing.                                                   *)
Fairness ==
    /\ MessagesHandled
    /\ WF_vars(MakerSetupEnds) /\ WF_vars(MakerSetupCompleted)
    /\ \A c \in Conns : WF_vars(HandleTakeOrder(c)) /\ WF_vars(ConnectionCloses(c))
    /\ \A t \in Takers : WF_vars(TakerSetupEnds(t))

FairSpec == Spec /\ Fairness

-----------------------------------------------------------------------------
(* Properties.                                                             *)

TypeOK ==
    /\ published \subseteq Orders
    /\ mState \in [Orders -> States \ {"outgoing"}]
    /\ who \in [Orders -> Conns \cup {None}]
    /\ current \in published \cup {None}
    /\ mSetup \in Setups \cup {None}
    /\ accepting \in Accepts \cup {None}
    /\ restarts \in 0..MaxRestarts
    /\ connMail \in Seq(Messages)
    /\ greeting \in Conns \cup {None}
    /\ link \in [Conns -> {"unused", "pending", "up", "gone", "dead", "reset", "failed"}]
    /\ up \in [Conns -> Seq(Orders)]
    /\ down \in [Conns -> Seq(ToTaker)]
    /\ sess \in [Takers -> 0..MaxSessions]
    /\ known \in [Takers -> SUBSET Orders]
    /\ tState \in [Takers -> [Orders -> States \ {"incoming"}]]
    /\ feed \in [Takers -> Orders \cup {None}]
    /\ tSetup \in [Takers -> Setups \cup {None}]
    /\ verdict \in [Takers -> [Orders -> {"none", "accepted", "refused"}]]

(* A CFD is in ContractSetup at the maker exactly while its set-up is the  *)
(* active one: no set-up runs unattended and no CFD waits for one that     *)
(* does not run (handle_accept_order, handle_cfd_setup_completed).         *)
MakerSetupRuns ==
    \A o \in Orders : mState[o] = "setup" <=> (mSetup # None /\ mSetup.order = o)

(* Maker and taker never hold opposite views of an order: a taker sets a   *)
(* contract up only for an order the maker gave to it and did not reject,  *)
(* and the taker that got an order is rejected only if the maker rejected. *)
VerdictsAgree ==
    \A t \in Takers, o \in Orders :
       LET taken == who[o] # None /\ who[o][1] = t IN
       /\ tState[t][o] \in {"setup", "open"} =>
             /\ taken
             /\ \/ mState[o] \in {"setup", "open", "failed"}
                \/ mState[o] = "incoming" /\ ~Idle /\ accepting.order = o
       /\ taken /\ tState[t][o] = "rejected" => mState[o] = "rejected"

(* At most one taker is accepted per order, every taker is answered at     *)
(* most once, and its CFD follows the answer (handle_take_order,           *)
(* handle_accept_order, handle_order_accepted, append_cfd_state_rejected). *)
Decision == INSTANCE OrderDecision WITH taker <- tState
DecisionRefined == Decision!Spec

Quiescent ==
    /\ Idle /\ connMail = <<>> /\ greeting = None
    /\ \A c \in Conns : up[c] = <<>> /\ down[c] = <<>>

(* Until a daemon stops: when all messages are handled no taker is shown   *)
(* an order that is not on offer, and one that has taken nothing is shown  *)
(* the one that is (handle_broadcast_order against                         *)
(* handle_new_taker_online).                                               *)
FeedsAgree ==
    Quiescent /\ restarts = 0 /\ (\A t \in Takers : sess[t] <= 1) => \A t \in Takers : Online(t) =>
       /\ feed[t] \in {current, None}
       /\ (\A o \in Orders : tState[t][o] = "none") => feed[t] = current

(* The maker has refused the request of the taker: the CFD is rejected, or *)
(* an answer that says no was written (handle_take_order, reject_order).   *)
Refused(t, o) ==
    \/ who[o] = Own(t) /\ mState[o] = "rejected"
    \/ verdict[t][o] = "refused"

(* handle_accept_order waits for the confirmation to be written.           *)
Confirming(o) == ~Idle /\ accepting.order = o /\ accepting.reply = "waiting"

(* Both actors of the maker wait, each for the other.                      *)
Stuck == greeting # None /\ \E o \in Orders : Confirming(o)

SettingUpAnother(t, o) == tSetup[t] # None /\ tSetup[t].order # o

(* A request that was refused or accepted does not stay open at the taker  *)
(* while the maker runs, whatever other takers and orders are under way.   *)
(* Two things break this: the actors of the maker wait for each other      *)
(* before the answer is out, and a confirmation that finds the taker       *)
(* setting up another contract is dropped (reject_order,                   *)
(* handle_accept_order, handle_order_accepted).                            *)
DecisionLearntBy(t, o) ==
    /\ Refused(t, o) ~> (tState[t][o] # "outgoing" \/ Stuck)
    /\ (who[o] = Own(t) /\ Confirming(o))
          ~> (tState[t][o] # "outgoing" \/ Stuck \/ SettingUpAnother(t, o))

-----------------------------------------------------------------------------
(* What comments, docs and tests say, and the code does not do.            *)

(* Accepting an order goes on once the taker has been told                 *)
(* (maker_cfd.rs:577, handle_accept_order).                                *)
AcceptGoesOn == ~Idle ~> Idle

=============================================================================
