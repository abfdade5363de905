-------------------------- MODULE OrderTakingProofs --------------------------
(***************************************************************************)
(* What OrderTaking guarantees for every number of takers, orders,         *)
(* sessions and restarts, by three inductive invariants.                   *)
(*                                                                         *)
(* IInv is about the maker: who asked for an order is known as long as the *)
(* CFD exists, and while the maker waits for a confirmation to be written  *)
(* the order stays incoming, no set-up is active, and the confirmation is  *)
(* the only one in the connection actor's mailbox.                         *)
(*                                                                         *)
(* Answered follows a request to its answer: it is on the wire, at the     *)
(* maker, or its one answer is in the mailbox, on the wire back or known   *)
(* to the taker.  Agreement of the parties' views and the implementation   *)
(* of OrderDecision follow from it.                                        *)
(*                                                                         *)
(* Feeds follows the orders a taker has still to be told of, up to the one *)
(* on offer, until a daemon stops.                                         *)
(***************************************************************************)

EXTENDS OrderTaking, TLAPS

(* A CFD of the maker was asked for by a connection.                       *)
WhoKnown == \A o \in Orders : mState[o] # "none" => who[o] # None

(* While an accept waits, its order is incoming and no set-up is active.   *)
AcceptPending ==
    accepting # None => mSetup = None /\ mState[accepting.order] = "incoming"

(* A confirmation in the mailbox is the one the maker waits for.           *)
ConfirmAwaited ==
    /\ \A i \in 1..Len(connMail) :
          connMail[i].kind = "confirm" => accepting # None /\ accepting.reply = "waiting"
    /\ \A i, j \in 1..Len(connMail) :
          connMail[i].kind = "confirm" /\ connMail[j].kind = "confirm" => i = j

IInv == TypeOK /\ WhoKnown /\ AcceptPending /\ ConfirmAwaited /\ MakerSetupRuns

-----------------------------------------------------------------------------
THEOREM InitInv == Init => IInv
  BY SessionAssumption, NoneAssumption
     DEF Init, IInv, TypeOK, WhoKnown, AcceptPending, ConfirmAwaited,
         MakerSetupRuns, States

LEMMA HeadAndTail ==
    ASSUME NEW S, NEW q \in Seq(S), q # <<>>
    PROVE  Head(q) \in S /\ Tail(q) \in Seq(S)
  OBVIOUS

(* A taker that handles a message leaves well-formed queues behind.        *)
LEMMA ReceiveDown ==
    ASSUME TypeOK, NEW t \in Takers, NEW kinds, NEW o, Receive(t, kinds, o)
    PROVE  /\ down' \in [Conns -> Seq(ToTaker)]
           /\ o \in Orders \cup {None}
  <1>1. Own(t) \in Conns
    BY SessionAssumption DEF Receive, Online, Own, Conns, TypeOK
  <1>2. down[Own(t)] \in Seq(ToTaker) /\ down[Own(t)] # <<>>
    BY <1>1 DEF TypeOK, Receive
  <1>3. Head(down[Own(t)]) \in ToTaker /\ Tail(down[Own(t)]) \in Seq(ToTaker)
    BY <1>2, HeadAndTail
  <1>4. o \in Orders \cup {None}
    BY <1>3 DEF Receive, ToTaker
  <1> QED BY <1>1, <1>3, <1>4 DEF Receive, TypeOK

LEMMA NextTypeOK ==
    ASSUME IInv, [Next]_vars
    PROVE  TypeOK'
  <1> USE SessionAssumption, NoneAssumption DEF IInv, TypeOK, makerVars, connVars, takerVars
  <1>1. CASE UNCHANGED vars
    BY <1>1 DEF vars
  <1>2. ASSUME NEW o \in Orders, NewOrder(o) PROVE TypeOK'
    BY <1>2 DEF NewOrder, Post, BroadcastOrder, Message, Messages
  <1>3. ASSUME NEW o \in Orders, RejectOrder(o) PROVE TypeOK'
    BY <1>3 DEF RejectOrder, Post, BroadcastOrder, Message, Messages, WhoKnown, Answers, States
  <1>4. ASSUME NEW o \in Orders, AcceptOrder(o) PROVE TypeOK'
    BY <1>4 DEF AcceptOrder, Post, Message, Messages, WhoKnown, Answers, Accepts
  <1>5. CASE NewTakerOnline
    BY <1>5 DEF NewTakerOnline, Message, Messages
  <1>6. ASSUME NEW c \in Conns, HandleTakeOrder(c) PROVE TypeOK'
    <2>1. PICK o \in Orders : TakeOutdated(c, o) \/ TakeOutOfBounds(c, o) \/ TakeCurrent(c, o)
      BY <1>6 DEF HandleTakeOrder
    <2>2. up' \in [Conns -> Seq(Orders)]
      <3>1. up[c] # <<>> /\ up' = [up EXCEPT ![c] = Tail(@)]
        BY <2>1 DEF TakeOutdated, TakeOutOfBounds, TakeCurrent, TakeOrderOf
      <3>2. Tail(up[c]) \in Seq(Orders)
        BY <3>1, HeadAndTail
      <3> QED BY <3>1, <3>2
    <2>3. CASE TakeOutdated(c, o)
      <3>1. Message("invalid", c, o) \in Messages
        BY DEF Message, Messages, Answers
      <3> QED BY <2>2, <2>3, <3>1 DEF TakeOutdated, TakeOrderOf, Post
    <2>4. CASE TakeOutOfBounds(c, o)
      <3>1. {Message("reject", c, o), BroadcastOrder(None)} \subseteq Messages
        BY DEF BroadcastOrder, Message, Messages, Answers
      <3> QED BY <2>2, <2>4, <3>1 DEF TakeOutOfBounds, TakeOrderOf, InsertCfd, Post, States
    <2>5. CASE TakeCurrent(c, o)
      <3>1. BroadcastOrder(None) \in Messages
        BY DEF BroadcastOrder, Message, Messages
      <3> QED BY <2>2, <2>5, <3>1 DEF TakeCurrent, TakeOrderOf, InsertCfd, Post, States
    <2> QED BY <2>1, <2>3, <2>4, <2>5
  <1>7. ASSUME NEW c \in Conns, ConnectionCloses(c) PROVE TypeOK'
    BY <1>7 DEF ConnectionCloses
  <1>8. CASE AcceptContinues
    <2>1. accepting \in Accepts
      BY <1>8 DEF AcceptContinues, Idle
    <2>2. accepting.order \in Orders /\ who[accepting.order] \in Conns
      BY <1>8, <2>1 DEF AcceptContinues, Accepts, AcceptPending, WhoKnown, Idle
    <2>3. mState' \in [Orders -> States \ {"outgoing"}]
      BY <1>8, <2>2 DEF AcceptContinues, States
    <2>4. mSetup' \in Setups \cup {None}
      BY <1>8, <2>2 DEF AcceptContinues, Setup, Setups
    <2> QED BY <1>8, <2>3, <2>4 DEF AcceptContinues
  <1>9. CASE MakerSetupEnds
    BY <1>9 DEF MakerSetupEnds, Setups
  <1>10. CASE MakerSetupCompleted
    BY <1>10 DEF MakerSetupCompleted, Concluded, Setups, States
  <1>11. CASE MakerRestarts
    BY <1>11 DEF MakerRestarts, Housekeeping, States, Unfinished
  <1>12. CASE HandleNewConnection
    <2>1. Head(connMail) \in Messages /\ Tail(connMail) \in Seq(Messages)
      BY <1>12, HeadAndTail DEF HandleNewConnection, NextMessage
    <2>2. Head(connMail).to \in Conns
      BY <1>12, <2>1 DEF HandleNewConnection, NextMessage, Messages, Answers
    <2>3. greeting' \in Conns \cup {None}
      BY <1>12, <2>2 DEF HandleNewConnection, NextMessage
    <2>4. link' \in [Conns -> {"unused", "pending", "up", "gone", "dead", "reset", "failed"}]
      BY <1>12, <2>2 DEF HandleNewConnection
    <2> QED BY <1>12, <2>1, <2>3, <2>4 DEF HandleNewConnection, NextMessage
  <1>13. CASE HandleBroadcastOrder
    BY <1>13 DEF HandleBroadcastOrder, NextMessage, Messages, Deliver, ToTaker, Answers
  <1>14. CASE HandleTakerMessage
    <2>1. Head(connMail) \in Messages /\ Tail(connMail) \in Seq(Messages)
      BY <1>14, HeadAndTail DEF HandleTakerMessage, NextMessage
    <2> DEFINE m == Head(connMail)
    <2>2. /\ m.to \in Conns
          /\ \/ m.kind = "send" /\ m.order \in Orders \cup {None}
             \/ m.kind \in Answers /\ m.order \in Orders
      BY <1>14, <2>1 DEF HandleTakerMessage, NextMessage, Messages, Answers
    <2>3. down' \in [Conns -> Seq(ToTaker)]
      <3>1. [kind |-> IF m.kind = "send" THEN "current" ELSE m.kind, order |-> m.order] \in ToTaker
        BY <2>2 DEF ToTaker, Answers
      <3> QED BY <1>14, <3>1 DEF HandleTakerMessage, Deliver
    <2>4. accepting' \in Accepts \cup {None}
      <3>1. CASE m.kind = "confirm"
        <4>1. connMail # <<>> /\ 1 \in 1..Len(connMail) /\ m = connMail[1]
          BY <1>14 DEF HandleTakerMessage, NextMessage
        <4>2. accepting \in Accepts
          BY <3>1, <4>1 DEF ConfirmAwaited
        <4> QED BY <1>14, <3>1, <4>2 DEF HandleTakerMessage, Accepts
      <3> QED BY <1>14, <3>1 DEF HandleTakerMessage
    <2>5. verdict' \in [Takers -> [Orders -> {"none", "accepted", "refused"}]]
      BY <1>14, <2>2 DEF HandleTakerMessage, VerdictOf
    <2> QED BY <1>14, <2>1, <2>3, <2>4, <2>5 DEF HandleTakerMessage, NextMessage
  <1>15. ASSUME NEW t \in Takers, TakerStarts(t) PROVE TypeOK'
    BY <1>15 DEF TakerStarts, Housekeeping, States, Unfinished, Message, Messages, Own, Conns
  <1>16. ASSUME NEW t \in Takers, HandleNewOrder(t) PROVE TypeOK'
    <2>1. PICK o \in Orders \cup {None} :
             /\ Receive(t, {"current"}, o)
             /\ known' = [known EXCEPT ![t] = @ \cup ({o} \ {None})]
             /\ feed' = IF o \in known[t] THEN feed ELSE [feed EXCEPT ![t] = o]
             /\ UNCHANGED <<tState, tSetup>>
      BY <1>16 DEF HandleNewOrder
    <2>2. known' \in [Takers -> SUBSET Orders] /\ feed' \in [Takers -> Orders \cup {None}]
      BY <2>1
    <2>3. down' \in [Conns -> Seq(ToTaker)]
      BY <2>1, ReceiveDown
    <2> QED BY <2>1, <2>2, <2>3 DEF Receive
  <1>17. ASSUME NEW t \in Takers, HandleOrderRejected(t) PROVE TypeOK'
    <2>1. PICK o \in Orders :
             /\ Receive(t, {"reject", "invalid"}, o)
             /\ tState' = [tState EXCEPT ![t][o] = "rejected"]
             /\ UNCHANGED <<known, feed, tSetup>>
      BY <1>17 DEF HandleOrderRejected
    <2>2. tState' \in [Takers -> [Orders -> States \ {"incoming"}]]
      BY <2>1 DEF States
    <2>3. down' \in [Conns -> Seq(ToTaker)]
      BY <2>1, ReceiveDown
    <2> QED BY <2>1, <2>2, <2>3 DEF Receive
  <1>18. ASSUME NEW t \in Takers, HandleOrderAccepted(t) PROVE TypeOK'
    <2>1. PICK o \in Orders :
             /\ Receive(t, {"confirm"}, o)
             /\ \/ UNCHANGED <<tState, tSetup>>
                \/ /\ tState' = [tState EXCEPT ![t][o] = "setup"]
                   /\ \/ tSetup' = [tSetup EXCEPT ![t] = Setup(o, Own(t))]
                      \/ UNCHANGED tSetup
             /\ UNCHANGED <<known, feed>>
      BY <1>18 DEF HandleOrderAccepted
    <2>2. tState' \in [Takers -> [Orders -> States \ {"incoming"}]]
      <3>1. [tState EXCEPT ![t][o] = "setup"] \in [Takers -> [Orders -> States \ {"incoming"}]]
        BY DEF States
      <3>2. tState' = tState \/ tState' = [tState EXCEPT ![t][o] = "setup"]
        BY <2>1
      <3> QED BY <3>1, <3>2
    <2>3. tSetup' \in [Takers -> Setups \cup {None}]
      <3>1. Own(t) \in Conns
        BY <2>1 DEF Receive, Online, Own, Conns
      <3>2. [tSetup EXCEPT ![t] = Setup(o, Own(t))] \in [Takers -> Setups \cup {None}]
        BY <3>1 DEF Setup, Setups
      <3>3. tSetup' = tSetup \/ tSetup' = [tSetup EXCEPT ![t] = Setup(o, Own(t))]
        BY <2>1
      <3> QED BY <3>2, <3>3
    <2>4. down' \in [Conns -> Seq(ToTaker)]
      BY <2>1, ReceiveDown
    <2> QED BY <2>1, <2>2, <2>3, <2>4 DEF Receive
  <1>19. ASSUME NEW t \in Takers, TakerSetupCompleted(t) PROVE TypeOK'
    BY <1>19 DEF TakerSetupCompleted, Concluded, States, Setups
  <1>20. ASSUME NEW t \in Takers, TakerSetupEnds(t) PROVE TypeOK'
    <2>1. PICK outcome \in {"ok", "failed"} :
             tSetup' = [tSetup EXCEPT ![t].outcome = outcome]
      BY <1>20 DEF TakerSetupEnds
    <2>2. tSetup[t] \in Setups
      BY <1>20 DEF TakerSetupEnds
    <2>3. [tSetup[t] EXCEPT !.outcome = outcome] \in Setups
      BY <2>2 DEF Setups
    <2>4. tSetup' \in [Takers -> Setups \cup {None}]
      BY <2>1, <2>3
    <2> QED BY <1>20, <2>4 DEF TakerSetupEnds
  <1>21. ASSUME NEW t \in Takers, NEW o \in Orders, TakeOffer(t, o) PROVE TypeOK'
    <2>1. tState' \in [Takers -> [Orders -> States \ {"incoming"}]]
      BY <1>21 DEF TakeOffer, States
    <2>2. up' \in [Conns -> Seq(Orders)]
      <3>1. Own(t) \in Conns
        BY <1>21 DEF TakeOffer, Online, Own, Conns
      <3>2. Append(up[Own(t)], o) \in Seq(Orders)
        BY <3>1
      <3>3. [up EXCEPT ![Own(t)] = Append(@, o)] \in [Conns -> Seq(Orders)]
        BY <3>1, <3>2
      <3>4. up' = up \/ up' = [up EXCEPT ![Own(t)] = Append(@, o)]
        BY <1>21 DEF TakeOffer
      <3> QED BY <3>3, <3>4
    <2>3. feed' \in [Takers -> Orders \cup {None}]
      BY <1>21 DEF TakeOffer
    <2> QED BY <1>21, <2>1, <2>2, <2>3 DEF TakeOffer
  <1> QED
    BY <1>1, <1>2, <1>3, <1>4, <1>5, <1>6, <1>7, <1>8, <1>9, <1>10, <1>11,
       <1>12, <1>13, <1>14, <1>15, <1>16, <1>17, <1>18, <1>19, <1>20, <1>21
       DEF Next, ConnectionActor, TakerActor

-----------------------------------------------------------------------------
(* The mailbox after a message is taken from its front, or put at its end. *)
LEMMA TailElements ==
    ASSUME NEW S, NEW q \in Seq(S), q # <<>>
    PROVE  /\ Len(Tail(q)) = Len(q) - 1
           /\ \A i \in 1..Len(Tail(q)) : i + 1 \in 1..Len(q) /\ Tail(q)[i] = q[i + 1]
  OBVIOUS

LEMMA ConcatElements ==
    ASSUME NEW S, NEW q \in Seq(S), NEW r \in Seq(S)
    PROVE  \A i \in 1..Len(q \o r) :
              \/ i \in 1..Len(q) /\ (q \o r)[i] = q[i]
              \/ i - Len(q) \in 1..Len(r) /\ (q \o r)[i] = r[i - Len(q)]
  OBVIOUS

LEMMA AppendElement ==
    ASSUME NEW S, NEW q \in Seq(S), NEW e \in S
    PROVE  Append(q, e) = q \o <<e>>
  OBVIOUS

(* Only confirmations matter to ConfirmAwaited.                            *)
LEMMA PostOthers ==
    ASSUME ConfirmAwaited, connMail \in Seq(Messages), NEW ms \in Seq(Messages),
           \A i \in 1..Len(ms) : ms[i].kind # "confirm",
           connMail' = connMail \o ms, UNCHANGED accepting
    PROVE  ConfirmAwaited'
  BY ConcatElements DEF ConfirmAwaited

LEMMA TakeFirst ==
    ASSUME ConfirmAwaited, connMail \in Seq(Messages), connMail # <<>>,
           connMail' = Tail(connMail),
           UNCHANGED accepting \/ Head(connMail).kind = "confirm"
    PROVE  ConfirmAwaited'
  BY TailElements DEF ConfirmAwaited

LEMMA NextConfirmAwaited ==
    ASSUME IInv, TypeOK', [Next]_vars
    PROVE  ConfirmAwaited'
  <1> USE DEF IInv, makerVars, connVars, takerVars
  <1>0. connMail \in Seq(Messages)
    BY DEF TypeOK
  <1>1. CASE UNCHANGED <<connMail, accepting>>
    BY <1>1 DEF ConfirmAwaited
  <1>2. ASSUME NEW o \in Orders, NewOrder(o) PROVE ConfirmAwaited'
    <2>1. <<BroadcastOrder(o)>> \in Seq(Messages)
      BY DEF BroadcastOrder, Message, Messages
    <2>2. \A i \in 1..Len(<<BroadcastOrder(o)>>) : <<BroadcastOrder(o)>>[i].kind # "confirm"
      BY DEF BroadcastOrder, Message
    <2>3. connMail' = connMail \o <<BroadcastOrder(o)>> /\ UNCHANGED accepting
      BY <1>2 DEF NewOrder, Post
    <2> QED BY <1>0, <2>1, <2>2, <2>3, PostOthers
  <1>3. ASSUME NEW o \in Orders, RejectOrder(o) PROVE ConfirmAwaited'
    <2> DEFINE ms == <<Message("reject", who[o], o), BroadcastOrder(None)>>
    <2>1. who[o] \in Conns
      BY <1>3 DEF RejectOrder, WhoKnown, TypeOK
    <2>2. ms \in Seq(Messages)
      BY <2>1 DEF BroadcastOrder, Message, Messages, Answers
    <2>3. \A i \in 1..Len(ms) : ms[i].kind # "confirm"
      BY DEF BroadcastOrder, Message
    <2>4. connMail' = connMail \o ms /\ UNCHANGED accepting
      BY <1>3 DEF RejectOrder, Post
    <2> QED BY <1>0, <2>2, <2>3, <2>4, PostOthers
  <1>4. ASSUME NEW o \in Orders, AcceptOrder(o) PROVE ConfirmAwaited'
    <2> DEFINE ms == <<Message("confirm", who[o], o)>>
    <2>1. who[o] \in Conns
      BY <1>4 DEF AcceptOrder, WhoKnown, TypeOK
    <2>2. ms \in Seq(Messages)
      BY <2>1 DEF Message, Messages, Answers
    <2>3. \A i \in 1..Len(connMail) : connMail[i].kind # "confirm"
      BY <1>4 DEF AcceptOrder, Idle, ConfirmAwaited
    <2>4. /\ connMail' = connMail \o ms
          /\ accepting' = [order |-> o, reply |-> "waiting"]
      BY <1>4 DEF AcceptOrder, Post
    <2>5. accepting' # None
      BY <2>4, NoneAssumption DEF Accepts
    <2> QED BY <1>0, <2>2, <2>3, <2>4, <2>5, ConcatElements DEF ConfirmAwaited
  <1>5. CASE NewTakerOnline
    <2>1. /\ connMail' = Append(connMail, Message("send", greeting, current))
          /\ Message("send", greeting, current) \in Messages
          /\ UNCHANGED accepting
      BY <1>5 DEF NewTakerOnline, Message, Messages, TypeOK
    <2> DEFINE m == Message("send", greeting, current)
    <2>2. connMail' = connMail \o <<m>>
      BY <1>0, <2>1, AppendElement
    <2>3. <<m>> \in Seq(Messages) /\ \A i \in 1..Len(<<m>>) : <<m>>[i].kind # "confirm"
      BY <2>1 DEF Message
    <2> QED BY <1>0, <2>1, <2>2, <2>3, PostOthers
  <1>6. ASSUME NEW c \in Conns, HandleTakeOrder(c) PROVE ConfirmAwaited'
    <2>1. PICK o \in Orders : TakeOutdated(c, o) \/ TakeOutOfBounds(c, o) \/ TakeCurrent(c, o)
      BY <1>6 DEF HandleTakeOrder
    <2>2. UNCHANGED accepting
      BY <2>1 DEF TakeOutdated, TakeOutOfBounds, TakeCurrent, TakeOrderOf
    <2>3. /\ Message("invalid", c, o) \in Messages
          /\ Message("reject", c, o) \in Messages
          /\ BroadcastOrder(None) \in Messages
      BY DEF BroadcastOrder, Message, Messages, Answers
    <2>4. PICK ms \in {<<Message("invalid", c, o)>>,
                      <<Message("reject", c, o), BroadcastOrder(None)>>,
                      <<BroadcastOrder(None)>>} : connMail' = connMail \o ms
      BY <2>1 DEF TakeOutdated, TakeOutOfBounds, TakeCurrent, Post
    <2>5. ms \in Seq(Messages) /\ \A i \in 1..Len(ms) : ms[i].kind # "confirm"
      BY <2>3, <2>4 DEF BroadcastOrder, Message
    <2> QED BY <1>0, <2>2, <2>4, <2>5, PostOthers
  <1>7. CASE AcceptContinues
    BY <1>7 DEF AcceptContinues, ConfirmAwaited
  <1>8. CASE MakerRestarts
    BY <1>8 DEF MakerRestarts, ConfirmAwaited
  <1>9. CASE ConnectionActor
    BY <1>0, <1>9, TakeFirst
       DEF ConnectionActor, HandleNewConnection, HandleBroadcastOrder,
           HandleTakerMessage, NextMessage
  <1>10. ASSUME NEW t \in Takers, TakerStarts(t) PROVE ConfirmAwaited'
    <2> DEFINE m == Message("new", <<t, sess[t] + 1>>, None)
    <2>1. connMail' = Append(connMail, m) /\ UNCHANGED accepting
      BY <1>10 DEF TakerStarts
    <2>2. m \in Messages
      BY <1>10, SessionAssumption DEF TakerStarts, TypeOK, Message, Messages, Conns
    <2>3. connMail' = connMail \o <<m>>
      BY <1>0, <2>1, <2>2, AppendElement
    <2>4. <<m>> \in Seq(Messages) /\ \A i \in 1..Len(<<m>>) : <<m>>[i].kind # "confirm"
      BY <2>2 DEF Message
    <2> QED BY <1>0, <2>1, <2>3, <2>4, PostOthers
  <1> QED
    BY <1>1, <1>2, <1>3, <1>4, <1>5, <1>6, <1>7, <1>8, <1>9, <1>10
       DEF Next, vars, ConnectionCloses, MakerSetupEnds, MakerSetupCompleted,
           TakerActor, HandleNewOrder, HandleOrderRejected, HandleOrderAccepted,
           Receive, TakerSetupCompleted, TakerSetupEnds, TakeOffer

(* The maker's databases and set-up state: only its own actor and a        *)
(* restart change them.                                                    *)
LEMMA NextMakerInv ==
    ASSUME IInv, TypeOK', [Next]_vars
    PROVE  WhoKnown' /\ AcceptPending' /\ MakerSetupRuns'
  <1> USE NoneAssumption DEF IInv, connVars, takerVars
  <1> DEFINE M == WhoKnown /\ AcceptPending /\ MakerSetupRuns
  <1>1. CASE UNCHANGED <<mState, who, mSetup, accepting>>
    BY <1>1 DEF WhoKnown, AcceptPending, MakerSetupRuns
  <1>2. ASSUME NEW o \in Orders, RejectOrder(o) PROVE M'
    BY <1>2 DEF RejectOrder, Idle, WhoKnown, AcceptPending, MakerSetupRuns, TypeOK
  <1>3. ASSUME NEW o \in Orders, AcceptOrder(o) PROVE M'
    BY <1>3 DEF AcceptOrder, Idle, WhoKnown, AcceptPending, MakerSetupRuns, TypeOK
  <1>4. ASSUME NEW c \in Conns, HandleTakeOrder(c) PROVE M'
    <2>1. PICK o \in Orders, state \in {"incoming", "rejected"} :
             InsertCfd(c, o, state) \/ UNCHANGED <<mState, who>>
      BY <1>4 DEF HandleTakeOrder, TakeOutdated, TakeOutOfBounds, TakeCurrent
    <2>2. UNCHANGED <<mSetup, accepting>> /\ Idle
      BY <1>4 DEF HandleTakeOrder, TakeOutdated, TakeOutOfBounds, TakeCurrent, TakeOrderOf
    <2>3. c # None
      OBVIOUS
    <2>4. CASE InsertCfd(c, o, state)
      <3>1. /\ mState[o] = "none" /\ mState' = [mState EXCEPT ![o] = state]
            /\ who' = [who EXCEPT ![o] = c]
        BY <2>4 DEF InsertCfd
      <3>2. WhoKnown'
        BY <2>3, <3>1 DEF WhoKnown, TypeOK
      <3>3. MakerSetupRuns'
        BY <2>1, <2>2, <3>1 DEF MakerSetupRuns, TypeOK
      <3>4. AcceptPending'
        BY <2>2 DEF Idle, AcceptPending
      <3> QED BY <3>2, <3>3, <3>4
    <2>5. CASE UNCHANGED <<mState, who>>
      BY <2>2, <2>5 DEF WhoKnown, AcceptPending, MakerSetupRuns
    <2> QED BY <2>1, <2>4, <2>5
  <1>5. CASE AcceptContinues
    <2>1. accepting \in Accepts
      BY <1>5 DEF AcceptContinues, Idle, TypeOK
    <2>2. Setup(accepting.order, who[accepting.order]) # None
      BY <2>1, <1>5 DEF AcceptContinues, AcceptPending, WhoKnown, Idle, TypeOK, Accepts, Setup, Setups
    <2> QED BY <1>5, <2>1, <2>2 DEF AcceptContinues, Idle, Accepts, Setup, WhoKnown, AcceptPending, MakerSetupRuns, TypeOK
  <1>6. CASE MakerSetupEnds
    <2>1. mSetup \in Setups /\ UNCHANGED <<mState, who, accepting>>
      BY <1>6 DEF MakerSetupEnds, TypeOK
    <2>2. mSetup' \in Setups /\ mSetup'.order = mSetup.order
      BY <1>6, <2>1 DEF MakerSetupEnds, Setups
    <2> QED BY <2>1, <2>2 DEF WhoKnown, AcceptPending, MakerSetupRuns
  <1>7. CASE MakerSetupCompleted
    BY <1>7 DEF MakerSetupCompleted, Concluded, Idle, WhoKnown, AcceptPending, MakerSetupRuns, TypeOK, Setups
  <1>8. CASE MakerRestarts
    BY <1>8 DEF MakerRestarts, Housekeeping, Unfinished, WhoKnown, AcceptPending, MakerSetupRuns
  <1>9. CASE HandleTakerMessage
    <2>1. UNCHANGED <<mState, who, mSetup>>
      BY <1>9 DEF HandleTakerMessage
    <2>2. accepting' = accepting \/ (accepting # None /\ accepting'.order = accepting.order)
      <3>1. CASE Head(connMail).kind = "confirm"
        <4>1. 1 \in 1..Len(connMail) /\ Head(connMail) = connMail[1]
          BY <1>9 DEF HandleTakerMessage, NextMessage, TypeOK
        <4>2. accepting \in Accepts /\ accepting # None
          BY <3>1, <4>1 DEF ConfirmAwaited, TypeOK
        <4> QED BY <1>9, <3>1, <4>2 DEF HandleTakerMessage, Accepts
      <3> QED BY <1>9, <3>1 DEF HandleTakerMessage
    <2> QED BY <2>1, <2>2 DEF WhoKnown, AcceptPending, MakerSetupRuns
  <1> QED
    BY <1>1, <1>2, <1>3, <1>4, <1>5, <1>6, <1>7, <1>8, <1>9
       DEF Next, vars, makerVars, NewOrder, NewTakerOnline, ConnectionCloses,
           ConnectionActor, HandleNewConnection, HandleBroadcastOrder,
           TakerStarts, TakerActor, HandleNewOrder, HandleOrderRejected,
           HandleOrderAccepted, Receive, TakerSetupCompleted, TakerSetupEnds,
           TakeOffer

THEOREM Invariance == Spec => []IInv
  <1>1. IInv /\ [Next]_vars => IInv'
    BY NextTypeOK, NextConfirmAwaited, NextMakerInv DEF IInv
  <1> QED BY InitInv, <1>1, PTL DEF Spec

(* Every variable has its type, whatever the actors do.                    *)
THEOREM TypeCorrect == Spec => []TypeOK
  <1>1. IInv => TypeOK
    BY DEF IInv
  <1> QED BY Invariance, <1>1, PTL

(* At the maker, ContractSetup and the active set-up always go together    *)
(* (handle_accept_order, handle_cfd_setup_completed, housekeeping).        *)
THEOREM SetupRuns == Spec => []MakerSetupRuns
  <1>1. IInv => MakerSetupRuns
    BY DEF IInv
  <1> QED BY Invariance, <1>1, PTL

-----------------------------------------------------------------------------
(* The life of an answer.  Until a taker has been answered it waits for    *)
(* the answer: its request is on the wire, at the maker, or its answer is  *)
(* in the connection actor's mailbox, and is the only one.  What is then   *)
(* written is in one message on the way to the taker, or the taker knows.  *)

HadFor(t, o) == who[o] # None /\ who[o][1] = t

(* A request for o over c is open, or its session has ended.               *)
Waits(c, o) ==
    /\ tState[c[1]][o] # "none"
    /\ \/ c[2] < sess[c[1]]
       \/ c[2] = sess[c[1]] /\ tState[c[1]][o] = "outgoing"

IsAnswer(m) == m.kind \in Answers

(* Nothing about an order is under way to the taker of c.                  *)
Fresh(c, o) ==
    \A j \in 1..Len(connMail) :
       IsAnswer(connMail[j]) /\ connMail[j].order = o => connMail[j].to[1] # c[1]

(* A request on the wire is not answered, nor is its answer under way.     *)
Asked ==
    \A c \in Conns, o \in Orders : \A i \in 1..Len(up[c]) : up[c][i] = o =>
       /\ verdict[c[1]][o] = "none" /\ Waits(c, o) /\ ~HadFor(c[1], o)
       /\ Fresh(c, o)
       /\ \A d \in Conns : \A j \in 1..Len(up[d]) :
             d[1] = c[1] /\ up[d][j] = o => d = c /\ j = i

(* An answer in the mailbox is the first and says what the maker decided.  *)
Fits(m) ==
    /\ verdict[m.to[1]][m.order] = "none" /\ Waits(m.to, m.order)
    /\ m.kind = "invalid" => ~HadFor(m.to[1], m.order)
    /\ m.kind = "reject" => who[m.order] = m.to /\ mState[m.order] = "rejected"
    /\ m.kind = "confirm" =>
          /\ who[m.order] = m.to /\ accepting # None
          /\ accepting.order = m.order /\ accepting.reply = "waiting"

Answering ==
    \A m \in Messages : \A i \in 1..Len(connMail) : connMail[i] = m /\ IsAnswer(m) =>
       /\ Fits(m)
       /\ \A j \in 1..Len(connMail) :
             IsAnswer(connMail[j]) /\ connMail[j].to[1] = m.to[1]
             /\ connMail[j].order = m.order => j = i

(* The confirmation of o is written and handle_accept_order not resumed.   *)
Told(o) == accepting # None /\ accepting.order = o /\ accepting.reply = "ok"

(* The maker's CFD goes with what its taker was answered.                  *)
Deciding ==
    \A o \in Orders : who[o] # None =>
       /\ mState[o] # "none" /\ tState[who[o][1]][o] # "none"
       /\ mState[o] = "incoming" /\ Told(o) => verdict[who[o][1]][o] = "accepted"
       /\ mState[o] = "incoming" /\ ~Told(o) =>
             verdict[who[o][1]][o] = "none" /\ Waits(who[o], o)
       /\ mState[o] \in {"setup", "open"} => verdict[who[o][1]][o] = "accepted"
       /\ mState[o] = "rejected" => verdict[who[o][1]][o] # "accepted"
       /\ mState[o] = "failed" => verdict[who[o][1]][o] # "refused"

(* Only the taker the maker has on record is accepted.                     *)
Accepted == \A t \in Takers, o \in Orders : verdict[t][o] = "accepted" => HadFor(t, o)

(* An answer on the way to a taker was given and is news to it.            *)
Learning ==
    \A c \in Conns : \A i \in 1..Len(down[c]) : IsAnswer(down[c][i]) =>
       /\ c = Own(c[1]) /\ tState[c[1]][down[c][i].order] = "outgoing"
       /\ verdict[c[1]][down[c][i].order] = VerdictOf(down[c][i].kind)
       /\ \A j \in 1..Len(down[c]) :
             IsAnswer(down[c][j]) /\ down[c][j].order = down[c][i].order => j = i

(* The taker's CFD follows the answer it was given.                        *)
Learnt ==
    \A t \in Takers, o \in Orders :
       /\ tState[t][o] \in {"setup", "open"} => verdict[t][o] = "accepted"
       /\ tState[t][o] = "rejected" => verdict[t][o] = "refused"
       /\ tState[t][o] = "none" => verdict[t][o] = "none"

(* A taker's active set-up is of a CFD in ContractSetup.                   *)
SettingUp ==
    \A t \in Takers : tSetup[t] # None => tState[t][tSetup[t].order] = "setup"

(* Only the current session of a taker reads its stream.                   *)
Live == \A c \in Conns : link[c] = "up" => c = Own(c[1])

Answered == Asked /\ Answering /\ Deciding /\ Accepted /\ Learning /\ Learnt
            /\ SettingUp /\ Live

-----------------------------------------------------------------------------
(* The steps, as far as these invariants can tell them apart.              *)

(* The answers of q are in r, n places further on.                         *)
Older(q, r, n) ==
    \A i \in 1..Len(q) : IsAnswer(q[i]) => i + n \in 1..Len(r) /\ q[i] = r[i + n]

(* ... or are m, in the first place behind r.                              *)
Newer(q, r, m) ==
    \A i \in 1..Len(q) : IsAnswer(q[i]) =>
       \/ i \in 1..Len(r) /\ q[i] = r[i]
       \/ i = Len(r) + 1 /\ q[i] = m

OldMail == \E n \in {0, 1} : Older(connMail', connMail, n)
OldDown == \A c \in Conns : \E n \in {0, 1} : Older(down'[c], down[c], n)

SetupKept == \A t \in Takers :
    \/ tSetup'[t] = tSetup[t]
    \/ tSetup[t] # None /\ tSetup'[t].order = tSetup[t].order

(* Nothing that concerns an answer.                                        *)
Quiet ==
    /\ OldMail /\ OldDown /\ SetupKept
    /\ UNCHANGED <<who, mState, accepting, up, sess, tState, verdict>>

(* reject_order and handle_accept_order: the answer m about o is posted.   *)
Decides(o, m) ==
    /\ accepting = None /\ mState[o] = "incoming"
    /\ Newer(connMail', connMail, m)
    /\ UNCHANGED <<who, up, down, sess, tState, tSetup, verdict>>
    /\ \/ /\ m = Message("reject", who[o], o)
          /\ mState' = [mState EXCEPT ![o] = "rejected"]
          /\ UNCHANGED accepting
       \/ /\ m = Message("confirm", who[o], o)
          /\ accepting' = [order |-> o, reply |-> "waiting"]
          /\ UNCHANGED mState

(* handle_take_order.                                                      *)
Takes(c, o) ==
    /\ accepting = None /\ up[c] # <<>> /\ o = Head(up[c])
    /\ up' = [up EXCEPT ![c] = Tail(@)]
    /\ UNCHANGED <<accepting, down, sess, tState, tSetup, verdict>>

Gets(c, o, state) ==
    /\ mState[o] = "none"
    /\ mState' = [mState EXCEPT ![o] = state]
    /\ who' = [who EXCEPT ![o] = c]

TakesNot(c, o) ==
    /\ Takes(c, o) /\ UNCHANGED <<who, mState>>
    /\ Newer(connMail', connMail, Message("invalid", c, o))

TakesWrongly(c, o) ==
    /\ Takes(c, o) /\ Gets(c, o, "rejected")
    /\ Newer(connMail', connMail, Message("reject", c, o))

TakesIt(c, o) == Takes(c, o) /\ Gets(c, o, "incoming") /\ OldMail

(* The connection actor writes the answer m, or finds the connection dead. *)
Writes(m) ==
    /\ connMail # <<>> /\ m = Head(connMail) /\ connMail' = Tail(connMail)
    /\ IsAnswer(m)
    /\ UNCHANGED <<who, mState, up, sess, tState, tSetup>>
    /\ \A c \in Conns :
          \/ down'[c] = down[c]
          \/ /\ c = m.to /\ link[c] = "up" /\ verdict'[c[1]][m.order] = VerdictOf(m.kind)
             /\ down'[c] = Append(down[c], [kind |-> m.kind, order |-> m.order])
    /\ \/ /\ verdict' = [verdict EXCEPT ![m.to[1]][m.order] = VerdictOf(m.kind)]
          /\ IF m.kind = "confirm"
             THEN accepting' = [accepting EXCEPT !.reply = "ok"] ELSE accepting' = accepting
       \/ /\ verdict' = verdict
          /\ IF m.kind = "confirm"
             THEN accepting' = [accepting EXCEPT !.reply = "err"] ELSE accepting' = accepting

(* A taker handles the answer of kind k about o.                           *)
Learns(t, o, k) ==
    /\ Own(t) \in Conns /\ down[Own(t)] # <<>>
    /\ k = Head(down[Own(t)]).kind /\ o = Head(down[Own(t)]).order /\ k \in Answers
    /\ down' = [down EXCEPT ![Own(t)] = Tail(@)]
    /\ UNCHANGED <<who, mState, accepting, connMail, up, sess, verdict>>
    /\ \/ /\ k # "confirm" /\ tState' = [tState EXCEPT ![t][o] = "rejected"]
          /\ UNCHANGED tSetup
       \/ /\ k = "confirm" /\ tSetup[t] = None
          /\ tState' = [tState EXCEPT ![t][o] = "setup"]
          /\ tSetup' = tSetup \/ tSetup' = [tSetup EXCEPT ![t] = Setup(o, Own(t))]
       \/ k = "confirm" /\ tSetup[t] # None /\ UNCHANGED <<tState, tSetup>>

LEMMA OlderSame ==
    ASSUME NEW S, NEW q \in Seq(S)
    PROVE  Older(q, q, 0)
  BY DEF Older

LEMMA OlderTail ==
    ASSUME NEW S, NEW q \in Seq(S), q # <<>>
    PROVE  Older(Tail(q), q, 1)
  BY TailElements DEF Older

LEMMA OlderConcat ==
    ASSUME NEW S, NEW q \in Seq(S), NEW ms \in Seq(S),
           \A i \in 1..Len(ms) : ~IsAnswer(ms[i])
    PROVE  Older(q \o ms, q, 0)
  BY ConcatElements DEF Older

LEMMA NewerConcat ==
    ASSUME NEW S, NEW q \in Seq(S), NEW ms \in Seq(S),
           \A i \in 1..Len(ms) : IsAnswer(ms[i]) => i = 1
    PROVE  Newer(q \o ms, q, ms[1])
  <1>1. SUFFICES ASSUME NEW i \in 1..Len(q \o ms), IsAnswer((q \o ms)[i]),
                        ~(i \in 1..Len(q) /\ (q \o ms)[i] = q[i])
                 PROVE  i = Len(q) + 1 /\ (q \o ms)[i] = ms[1]
    BY DEF Newer
  <1>2. i - Len(q) \in 1..Len(ms) /\ (q \o ms)[i] = ms[i - Len(q)]
    BY <1>1, ConcatElements
  <1>3. i - Len(q) = 1
    BY <1>1, <1>2
  <1> QED BY <1>2, <1>3

(* Mail that holds no answer is posted, or none at all.                    *)
LEMMA PostsOld ==
    ASSUME connMail \in Seq(Messages), NEW ms \in Seq(Messages),
           \A i \in 1..Len(ms) : ~IsAnswer(ms[i]), connMail' = connMail \o ms
    PROVE  OldMail
  BY OlderConcat DEF OldMail

LEMMA SameDown ==
    ASSUME TypeOK, UNCHANGED down
    PROVE  OldDown
  <1>1. ASSUME NEW c \in Conns PROVE Older(down'[c], down[c], 0)
    BY OlderSame DEF TypeOK
  <1> QED BY <1>1 DEF OldDown

(* What is appended by the connection actor.                               *)
LEMMA Delivered ==
    ASSUME TypeOK, NEW cs, NEW kind, NEW o, Deliver(cs, kind, o), ~(kind \in Answers),
           [kind |-> kind, order |-> o] \in ToTaker
    PROVE  OldDown
  <1> DEFINE m == [kind |-> kind, order |-> o]
  <1>1. SUFFICES ASSUME NEW c \in Conns PROVE Older(down'[c], down[c], 0)
    BY DEF OldDown
  <1>2. down[c] \in Seq(ToTaker)
    BY DEF TypeOK
  <1>3. Older(down[c], down[c], 0)
    BY <1>2, OlderSame
  <1>4. Older(Append(down[c], m), down[c], 0)
    <2>1. Append(down[c], m) = down[c] \o <<m>> /\ <<m>> \in Seq(ToTaker)
      BY <1>2, AppendElement
    <2>2. \A i \in 1..Len(<<m>>) : ~IsAnswer(<<m>>[i])
      BY DEF IsAnswer
    <2> QED BY <1>2, <2>1, <2>2, OlderConcat
  <1>5. down'[c] \in {down[c], Append(down[c], m)}
    BY DEF Deliver
  <1> QED BY <1>3, <1>4, <1>5

LEMMA FirstMessage ==
    ASSUME TypeOK, connMail # <<>>
    PROVE  /\ Head(connMail) \in Messages /\ Tail(connMail) \in Seq(Messages)
           /\ 1 \in 1..Len(connMail) /\ Head(connMail) = connMail[1]
           /\ Older(Tail(connMail), connMail, 1)
  <1>1. connMail \in Seq(Messages)
    BY DEF TypeOK
  <1> QED BY <1>1, HeadAndTail, OlderTail

LEMMA AnswerType ==
    ASSUME NEW m \in Messages, IsAnswer(m)
    PROVE  m.to \in Conns /\ m.order \in Orders /\ m.kind \in Answers
  BY DEF Messages, IsAnswer, Answers

LEMMA TakerEnds ==
    ASSUME TypeOK, NEW t \in Takers, TakerSetupEnds(t)
    PROVE  SetupKept
  <1>1. PICK s \in {"ok", "failed"} : tSetup' = [tSetup EXCEPT ![t].outcome = s]
    BY DEF TakerSetupEnds
  <1>2. tSetup \in [Takers -> Setups \cup {None}] /\ tSetup[t] # None
    BY DEF TypeOK, TakerSetupEnds
  <1>3. tSetup'[t].order = tSetup[t].order
    BY <1>1, <1>2 DEF Setups
  <1> QED BY <1>1, <1>2, <1>3 DEF SetupKept

Shapes ==
    \/ Quiet \/ AcceptContinues \/ MakerSetupCompleted \/ MakerRestarts
    \/ \E o \in Orders : \E m \in Messages : Decides(o, m)
    \/ \E c \in Conns, o \in Orders :
          TakesNot(c, o) \/ TakesWrongly(c, o) \/ TakesIt(c, o)
    \/ \E m \in Messages : Writes(m)
    \/ \E t \in Takers : TakerStarts(t) \/ TakerSetupCompleted(t)
    \/ \E t \in Takers, o \in Orders : \E k \in Answers : Learns(t, o, k)
    \/ \E t \in Takers, o \in Orders : TakeOffer(t, o)

LEMMA StepShapes ==
    ASSUME IInv, [Next]_vars
    PROVE  Shapes
  <1> USE DEF makerVars, connVars, takerVars
  <1>a. TypeOK /\ connMail \in Seq(Messages)
    BY DEF IInv, TypeOK
  <1>b. Older(connMail, connMail, 0)
    BY <1>a, OlderSame
  <1>c. UNCHANGED connMail => OldMail
    BY <1>b DEF OldMail
  <1>d. UNCHANGED down => OldDown
    BY <1>a, SameDown
  <1>e. UNCHANGED tSetup => SetupKept
    BY DEF SetupKept
  <1>1. CASE UNCHANGED <<connMail, down, who, mState, accepting, up, sess, tState, tSetup, verdict>>
    BY <1>1, <1>c, <1>d, <1>e DEF Quiet, Shapes
  <1>2. ASSUME NEW o \in Orders, NewOrder(o) PROVE Shapes
    <2>1. <<BroadcastOrder(o)>> \in Seq(Messages)
      BY DEF BroadcastOrder, Message, Messages
    <2>2. \A i \in 1..Len(<<BroadcastOrder(o)>>) : ~IsAnswer(<<BroadcastOrder(o)>>[i])
      BY DEF BroadcastOrder, Message, IsAnswer, Answers
    <2>3. OldMail
      BY <1>2, <1>a, <2>1, <2>2, PostsOld DEF NewOrder, Post
    <2> QED BY <1>2, <1>d, <1>e, <2>3 DEF NewOrder, Quiet, Shapes
  <1>3. CASE NewTakerOnline
    <2> DEFINE m == Message("send", greeting, current)
    <2>1. m \in Messages /\ ~IsAnswer(m)
      BY <1>3, <1>a DEF NewTakerOnline, Message, Messages, TypeOK, IsAnswer, Answers
    <2>2. connMail' = connMail \o <<m>> /\ <<m>> \in Seq(Messages)
      BY <1>3, <1>a, <2>1, AppendElement DEF NewTakerOnline
    <2>3. \A i \in 1..Len(<<m>>) : ~IsAnswer(<<m>>[i])
      BY <2>1
    <2>4. OldMail
      BY <1>a, <2>2, <2>3, PostsOld
    <2> QED BY <1>3, <1>d, <1>e, <2>4 DEF NewTakerOnline, Quiet, Shapes
  <1>4. ASSUME NEW o \in Orders, RejectOrder(o) PROVE Shapes
    <2> DEFINE ms == <<Message("reject", who[o], o), BroadcastOrder(None)>>
    <2>1. who[o] \in Conns
      BY <1>4 DEF RejectOrder, WhoKnown, TypeOK, IInv
    <2>2. ms \in Seq(Messages) /\ ms[1] \in Messages
      BY <2>1 DEF BroadcastOrder, Message, Messages, Answers
    <2>3. \A i \in 1..Len(ms) : IsAnswer(ms[i]) => i = 1
      BY DEF BroadcastOrder, Message, IsAnswer, Answers
    <2>4. connMail' = connMail \o ms
      BY <1>4 DEF RejectOrder, Post
    <2>5. Newer(connMail', connMail, ms[1])
      BY <1>a, <2>2, <2>3, <2>4, NewerConcat
    <2>6. Decides(o, ms[1])
      BY <1>4, <2>5 DEF RejectOrder, Decides, Idle
    <2> QED BY <2>2, <2>6 DEF Shapes
  <1>5. ASSUME NEW o \in Orders, AcceptOrder(o) PROVE Shapes
    <2> DEFINE ms == <<Message("confirm", who[o], o)>>
    <2>1. who[o] \in Conns
      BY <1>5 DEF AcceptOrder, WhoKnown, TypeOK, IInv
    <2>2. ms \in Seq(Messages) /\ ms[1] \in Messages
      BY <2>1 DEF BroadcastOrder, Message, Messages, Answers
    <2>3. \A i \in 1..Len(ms) : IsAnswer(ms[i]) => i = 1
      OBVIOUS
    <2>4. connMail' = connMail \o ms
      BY <1>5 DEF AcceptOrder, Post
    <2>5. Newer(connMail', connMail, ms[1])
      BY <1>a, <2>2, <2>3, <2>4, NewerConcat
    <2>6. Decides(o, ms[1])
      BY <1>5, <2>5 DEF AcceptOrder, Decides, Idle
    <2> QED BY <2>2, <2>6 DEF Shapes
  <1>6. ASSUME NEW c \in Conns, NEW o \in Orders, TakeOutdated(c, o) PROVE Shapes
    <2> DEFINE ms == <<Message("invalid", c, o)>>
    <2>1. ms \in Seq(Messages)
      BY DEF Message, Messages, Answers
    <2>2. \A i \in 1..Len(ms) : IsAnswer(ms[i]) => i = 1
      OBVIOUS
    <2>3. Newer(connMail', connMail, ms[1])
      BY <1>6, <1>a, <2>1, <2>2, NewerConcat DEF TakeOutdated, Post
    <2>4. TakesNot(c, o)
      BY <1>6, <2>3 DEF TakeOutdated, TakeOrderOf, TakesNot, Takes, Idle
    <2> QED BY <2>4 DEF Shapes
  <1>7. ASSUME NEW c \in Conns, NEW o \in Orders, TakeOutOfBounds(c, o) PROVE Shapes
    <2> DEFINE ms == <<Message("reject", c, o), BroadcastOrder(None)>>
    <2>1. ms \in Seq(Messages)
      BY DEF BroadcastOrder, Message, Messages, Answers
    <2>2. \A i \in 1..Len(ms) : IsAnswer(ms[i]) => i = 1
      BY DEF BroadcastOrder, Message, IsAnswer, Answers
    <2>3. Newer(connMail', connMail, ms[1])
      BY <1>7, <1>a, <2>1, <2>2, NewerConcat DEF TakeOutOfBounds, Post
    <2>4. TakesWrongly(c, o)
      BY <1>7, <2>3 DEF TakeOutOfBounds, TakeOrderOf, InsertCfd, TakesWrongly, Takes, Gets, Idle
    <2> QED BY <2>4 DEF Shapes
  <1>8. ASSUME NEW c \in Conns, NEW o \in Orders, TakeCurrent(c, o) PROVE Shapes
    <2> DEFINE ms == <<BroadcastOrder(None)>>
    <2>1. ms \in Seq(Messages)
      BY DEF BroadcastOrder, Message, Messages, Answers
    <2>2. \A i \in 1..Len(ms) : ~IsAnswer(ms[i])
      BY DEF BroadcastOrder, Message, IsAnswer, Answers
    <2>3. OldMail
      BY <1>8, <1>a, <2>1, <2>2, PostsOld DEF TakeCurrent, Post
    <2>4. TakesIt(c, o)
      BY <1>8, <2>3 DEF TakeCurrent, TakeOrderOf, InsertCfd, TakesIt, Takes, Gets, Idle
    <2> QED BY <2>4 DEF Shapes
  <1>9. CASE HandleNewConnection
    <2>1. OldMail
      BY <1>9, <1>a, FirstMessage DEF HandleNewConnection, NextMessage, OldMail
    <2> QED BY <1>9, <1>d, <1>e, <2>1 DEF HandleNewConnection, Quiet, Shapes
  <1>10. CASE HandleBroadcastOrder
    <2>1. OldMail /\ Head(connMail) \in Messages /\ Head(connMail).kind = "broadcast"
      BY <1>10, <1>a, FirstMessage DEF HandleBroadcastOrder, NextMessage, OldMail
    <2>2. [kind |-> "current", order |-> Head(connMail).order] \in ToTaker
      BY <2>1 DEF Messages, ToTaker, Answers
    <2>3. PICK cs : Deliver(cs, "current", Head(connMail).order)
      BY <1>10 DEF HandleBroadcastOrder
    <2>4. OldDown
      <3>1. PICK o : o = Head(connMail).order
        OBVIOUS
      <3> QED BY <1>a, <2>2, <2>3, <3>1, Delivered DEF Answers
    <2> QED BY <1>10, <1>e, <2>1, <2>4 DEF HandleBroadcastOrder, Quiet, Shapes
  <1>11. CASE HandleTakerMessage
    <2>1. PICK m \in Messages : m = Head(connMail)
      BY <1>11, <1>a, FirstMessage DEF HandleTakerMessage, NextMessage
    <2>2. connMail # <<>> /\ connMail' = Tail(connMail) /\ OldMail
      BY <1>11, <1>a, FirstMessage DEF HandleTakerMessage, NextMessage, OldMail
    <2>3. /\ UNCHANGED <<who, mState, up, sess, tState, tSetup>>
          /\ Deliver(IF link[m.to] \in {"up", "gone"} THEN {m.to} ELSE {},
                     IF m.kind = "send" THEN "current" ELSE m.kind, m.order)
          /\ accepting' = IF m.kind = "confirm"
                          THEN [accepting EXCEPT !.reply =
                                  IF link[m.to] \in {"up", "gone"} THEN "ok" ELSE "err"]
                          ELSE accepting
          /\ verdict' = IF link[m.to] \in {"up", "gone"} /\ m.kind \in Answers
                        THEN [verdict EXCEPT ![m.to[1]][m.order] = VerdictOf(m.kind)]
                        ELSE verdict
          /\ m.kind \in {"send"} \cup Answers
      BY <1>11, <2>1 DEF HandleTakerMessage, NextMessage
    <2>4. CASE m.kind = "send"
      <3>1. [kind |-> "current", order |-> m.order] \in ToTaker
        BY <2>1, <2>4 DEF Messages, ToTaker, Answers
      <3>2. PICK cs : Deliver(cs, "current", m.order)
        BY <2>3, <2>4
      <3>3. PICK o : o = m.order
        OBVIOUS
      <3>4. OldDown
        BY <1>a, <3>1, <3>2, <3>3, Delivered DEF Answers
      <3> QED BY <1>e, <2>2, <2>3, <2>4, <3>4 DEF Quiet, Shapes, Answers
    <2>5. CASE m.kind \in Answers
      <3>1. m.to \in Conns /\ m.order \in Orders
        BY <2>5, AnswerType DEF IsAnswer
      <3>2. m.to[1] \in Takers
        BY <3>1 DEF Conns
      <3>3. m.kind # "send"
        BY <2>5 DEF Answers
      <3>4. \A c \in Conns :
               \/ down'[c] = down[c]
               \/ /\ c = m.to /\ link[c] = "up"
                  /\ down'[c] = Append(down[c], [kind |-> m.kind, order |-> m.order])
        BY <2>3, <3>3 DEF Deliver
      <3>5. link[m.to] = "up" => verdict'[m.to[1]][m.order] = VerdictOf(m.kind)
        BY <1>a, <2>3, <2>5, <3>1, <3>2 DEF TypeOK
      <3>6. \/ /\ verdict' = [verdict EXCEPT ![m.to[1]][m.order] = VerdictOf(m.kind)]
               /\ IF m.kind = "confirm"
                  THEN accepting' = [accepting EXCEPT !.reply = "ok"] ELSE accepting' = accepting
            \/ /\ verdict' = verdict
               /\ IF m.kind = "confirm"
                  THEN accepting' = [accepting EXCEPT !.reply = "err"] ELSE accepting' = accepting
        BY <2>3, <2>5
      <3>7. Writes(m)
        BY <2>1, <2>2, <2>3, <2>5, <3>4, <3>5, <3>6 DEF Writes, IsAnswer
      <3> QED BY <3>7 DEF Shapes
    <2> QED BY <2>3, <2>4, <2>5
  <1>12. ASSUME NEW t \in Takers, NEW o, NEW kinds, Receive(t, kinds, o)
         PROVE  /\ Own(t) \in Conns /\ down[Own(t)] # <<>> /\ down[Own(t)] \in Seq(ToTaker)
                /\ Head(down[Own(t)]).kind \in kinds /\ o = Head(down[Own(t)]).order
                /\ down' = [down EXCEPT ![Own(t)] = Tail(@)] /\ OldDown
                /\ UNCHANGED <<who, mState, accepting, connMail, up, sess, verdict>>
    <2>1. Own(t) \in Conns
      BY <1>12, <1>a, SessionAssumption DEF Receive, Online, Own, Conns, TypeOK
    <2>2. down[Own(t)] # <<>> /\ down[Own(t)] \in Seq(ToTaker)
      BY <1>12, <1>a, <2>1 DEF Receive, TypeOK
    <2>3. Older(Tail(down[Own(t)]), down[Own(t)], 1)
      BY <2>2, OlderTail
    <2>4. down' = [down EXCEPT ![Own(t)] = Tail(@)] /\ DOMAIN down = Conns
      BY <1>12, <1>a DEF Receive, TypeOK
    <2>5. ASSUME NEW c \in Conns PROVE \E n \in {0, 1} : Older(down'[c], down[c], n)
      <3>1. CASE c = Own(t)
        <4>1. down'[c] = Tail(down[c])
          BY <3>1, <2>4
        <4> QED BY <4>1, <2>3, <3>1
      <3>2. CASE c # Own(t)
        <4>1. down'[c] = down[c] /\ down[c] \in Seq(ToTaker)
          BY <3>2, <2>4, <1>a DEF TypeOK
        <4> QED BY <4>1, OlderSame
      <3> QED BY <3>1, <3>2
    <2> QED BY <1>12, <2>1, <2>2, <2>5 DEF Receive, OldDown
  <1>13. ASSUME NEW t \in Takers, HandleNewOrder(t) PROVE Shapes
    <2>1. PICK o \in Orders \cup {None} : Receive(t, {"current"}, o) /\ UNCHANGED <<tState, tSetup>>
      BY <1>13 DEF HandleNewOrder
    <2>2. OldDown /\ UNCHANGED <<who, mState, accepting, connMail, up, sess, verdict>>
      BY <2>1, <1>12
    <2> QED BY <1>c, <1>e, <2>1, <2>2 DEF Quiet, Shapes
  <1>14. ASSUME NEW t \in Takers, HandleOrderRejected(t) PROVE Shapes
    <2>1. PICK o \in Orders : /\ Receive(t, {"reject", "invalid"}, o)
                              /\ tState' = [tState EXCEPT ![t][o] = "rejected"]
                              /\ UNCHANGED tSetup
      BY <1>14 DEF HandleOrderRejected
    <2>2. PICK k \in {"reject", "invalid"} : k = Head(down[Own(t)]).kind
      BY <2>1, <1>12
    <2>3. Learns(t, o, k) /\ k \in Answers
      BY <2>1, <2>2, <1>12 DEF Learns, Answers
    <2> QED BY <2>3 DEF Shapes
  <1>15. ASSUME NEW t \in Takers, HandleOrderAccepted(t) PROVE Shapes
    <2>1. PICK o \in Orders : /\ Receive(t, {"confirm"}, o)
                              /\ IF tSetup[t] # None THEN UNCHANGED <<tState, tSetup>>
                                 ELSE /\ tState' = [tState EXCEPT ![t][o] = "setup"]
                                      /\ \/ tSetup' = [tSetup EXCEPT ![t] = Setup(o, Own(t))]
                                         \/ tSetup' = tSetup
      BY <1>15 DEF HandleOrderAccepted
    <2>2. "confirm" = Head(down[Own(t)]).kind
      BY <2>1, <1>12
    <2>3. Learns(t, o, "confirm") /\ "confirm" \in Answers
      BY <2>1, <2>2, <1>12 DEF Learns, Answers
    <2> QED BY <2>3 DEF Shapes
  <1> QED
    <2> USE <1>1, <1>2, <1>3, <1>4, <1>5, <1>6, <1>7, <1>8, <1>9, <1>10,
            <1>11, <1>13, <1>14, <1>15
    <2>1. CASE UNCHANGED vars
      BY <2>1 DEF vars
    <2>2. ASSUME NEW c \in Conns, HandleTakeOrder(c) \/ ConnectionCloses(c) PROVE Shapes
      BY <2>2 DEF HandleTakeOrder, ConnectionCloses
    <2>3. CASE MakerSetupEnds
      BY <2>3 DEF MakerSetupEnds
    <2>4. CASE ConnectionActor
      BY <2>4 DEF ConnectionActor
    <2>5. ASSUME NEW t \in Takers, TakerStarts(t) \/ TakerActor(t) PROVE Shapes
      BY <2>5 DEF TakerActor, Shapes
    <2>6. ASSUME NEW t \in Takers, TakerSetupEnds(t) PROVE Shapes
      <3>1. SetupKept
        BY <1>a, <2>6, TakerEnds
      <3> QED BY <1>c, <1>d, <2>6, <3>1 DEF TakerSetupEnds, Quiet, Shapes
    <2> QED BY <2>1, <2>2, <2>3, <2>4, <2>5, <2>6 DEF Next, Shapes

-----------------------------------------------------------------------------
(* What the takers' CFDs may do in one step.                               *)

(* A taker's CFD without an answer stays as it is in the same session.     *)
LEMMA TakerSteps ==
    ASSUME IInv, Learning, Learnt, SettingUp, Shapes, NEW t \in Takers, NEW o \in Orders
    PROVE  /\ tState[t][o] # "none" => tState'[t][o] # "none"
           /\ sess'[t] = sess[t] \/ sess'[t] = sess[t] + 1
           /\ tState[t][o] = "outgoing" /\ verdict[t][o] = "none" /\ sess'[t] = sess[t]
              => tState'[t][o] = "outgoing"
  <1> DEFINE G == /\ tState[t][o] # "none" => tState'[t][o] # "none"
                  /\ sess'[t] = sess[t] \/ sess'[t] = sess[t] + 1
                  /\ tState[t][o] = "outgoing" /\ verdict[t][o] = "none" /\ sess'[t] = sess[t]
                     => tState'[t][o] = "outgoing"
  <1> SUFFICES G
    OBVIOUS
  <1>a. /\ tState \in [Takers -> [Orders -> States \ {"incoming"}]]
        /\ sess \in [Takers -> 0..MaxSessions] /\ MaxSessions \in Nat
        /\ down \in [Conns -> Seq(ToTaker)] /\ tSetup \in [Takers -> Setups \cup {None}]
    BY SessionAssumption DEF IInv, TypeOK
  <1>1. CASE UNCHANGED <<sess, tState>>
    BY <1>1
  <1>2. ASSUME NEW u \in Takers, TakerStarts(u) PROVE G
    <2>1. tState' = [tState EXCEPT ![u] = Housekeeping(@)] /\ sess' = [sess EXCEPT ![u] = @ + 1]
      BY <1>2 DEF TakerStarts
    <2>2. CASE u = t
      <3>1. sess'[t] = sess[t] + 1 /\ sess[t] \in Nat
        BY <1>a, <2>1, <2>2
      <3>2. tState'[t][o] = IF tState[t][o] \in Unfinished THEN "failed" ELSE tState[t][o]
        BY <1>a, <2>1, <2>2 DEF Housekeeping
      <3> QED BY <3>1, <3>2
    <2>3. CASE u # t
      BY <1>a, <2>1, <2>3
    <2> QED BY <2>2, <2>3
  <1>3. ASSUME NEW u \in Takers, TakerSetupCompleted(u) PROVE G
    <2>1. PICK p \in Orders : p = tSetup[u].order
      BY <1>3, <1>a DEF TakerSetupCompleted, Setups
    <2>2. tState[u][p] = "setup"
      BY <1>3, <2>1 DEF TakerSetupCompleted, SettingUp
    <2>3. PICK s \in {"open", "failed"} : tState' = [tState EXCEPT ![u][p] = s]
      BY <1>3, <2>1 DEF TakerSetupCompleted, Concluded
    <2>4. UNCHANGED sess
      BY <1>3 DEF TakerSetupCompleted
    <2> QED BY <1>a, <2>2, <2>3, <2>4
  <1>4. ASSUME NEW u \in Takers, NEW p \in Orders, NEW k \in Answers, Learns(u, p, k) PROVE G
    <2>1. Own(u) \in Conns /\ down[Own(u)] # <<>> /\ down[Own(u)] \in Seq(ToTaker)
      BY <1>4, <1>a DEF Learns
    <2>2. 1 \in 1..Len(down[Own(u)]) /\ Head(down[Own(u)]) = down[Own(u)][1]
      BY <2>1
    <2>3. verdict[Own(u)[1]][p] = VerdictOf(k)
      BY <1>4, <2>1, <2>2 DEF Learns, Learning, IsAnswer
    <2>4. verdict[u][p] # "none"
      BY <2>3 DEF Own, VerdictOf
    <2>5. UNCHANGED sess /\ \E s \in {"rejected", "setup"} :
             tState' = tState \/ tState' = [tState EXCEPT ![u][p] = s]
      BY <1>4 DEF Learns
    <2> QED BY <1>a, <2>4, <2>5
  <1>5. ASSUME NEW u \in Takers, NEW p \in Orders, TakeOffer(u, p) PROVE G
    <2>1. /\ tState[u][p] = "none" /\ tState' = [tState EXCEPT ![u][p] = "outgoing"]
          /\ UNCHANGED sess
      BY <1>5 DEF TakeOffer
    <2> QED BY <1>a, <2>1
  <1> QED
    BY <1>1, <1>2, <1>3, <1>4, <1>5
       DEF Shapes, Quiet, AcceptContinues, MakerSetupCompleted, MakerRestarts, Decides,
           TakesNot, TakesWrongly, TakesIt, Takes, Writes, takerVars

LEMMA WaitsKept ==
    ASSUME IInv, Learning, Learnt, SettingUp, Shapes, NEW c \in Conns, NEW o \in Orders,
           Waits(c, o), verdict[c[1]][o] = "none"
    PROVE  Waits(c, o)'
  <1>1. c[1] \in Takers /\ c[2] \in Nat
    BY SessionAssumption DEF Conns
  <1>2. sess[c[1]] \in Nat
    BY <1>1, SessionAssumption DEF IInv, TypeOK
  <1>3. /\ tState[c[1]][o] # "none" => tState'[c[1]][o] # "none"
        /\ sess'[c[1]] = sess[c[1]] \/ sess'[c[1]] = sess[c[1]] + 1
        /\ tState[c[1]][o] = "outgoing" /\ verdict[c[1]][o] = "none" /\ sess'[c[1]] = sess[c[1]]
           => tState'[c[1]][o] = "outgoing"
    BY <1>1, TakerSteps
  <1> QED BY <1>1, <1>2, <1>3 DEF Waits

(* Where an answer is written: the first message of the mailbox.           *)
LEMMA FirstAnswer ==
    ASSUME IInv, Answering, NEW m \in Messages, Writes(m)
    PROVE  /\ m.to \in Conns /\ m.to[1] \in Takers /\ m.order \in Orders /\ m.kind \in Answers
           /\ 1 \in 1..Len(connMail) /\ connMail[1] = m
           /\ verdict[m.to[1]][m.order] = "none" /\ Waits(m.to, m.order)
           /\ m.kind = "invalid" => ~HadFor(m.to[1], m.order)
           /\ m.kind = "reject" => who[m.order] = m.to /\ mState[m.order] = "rejected"
           /\ m.kind = "confirm" => /\ who[m.order] = m.to /\ accepting # None
                                    /\ accepting.order = m.order
                                    /\ accepting.reply = "waiting"
           /\ Older(connMail', connMail, 1)
  <1>1. 1 \in 1..Len(connMail) /\ connMail[1] = m /\ Older(connMail', connMail, 1)
    BY FirstMessage DEF IInv, Writes
  <1>2. m.to \in Conns /\ m.order \in Orders /\ m.kind \in Answers
    BY AnswerType DEF Writes
  <1>3. m.to[1] \in Takers
    BY <1>2 DEF Conns
  <1>4. IsAnswer(connMail[1])
    BY <1>1, <1>2 DEF IsAnswer
  <1> QED BY <1>1, <1>2, <1>3, <1>4 DEF Answering, Fits

(* An answer given is the taker's first, and only an answer is one.        *)
LEMMA VerdictSteps ==
    ASSUME IInv, Answering, Shapes, NEW t \in Takers, NEW o \in Orders,
           verdict'[t][o] # verdict[t][o]
    PROVE  /\ verdict[t][o] = "none"
           /\ \E m \in Messages : /\ Writes(m) /\ m.to[1] = t /\ m.order = o
                                  /\ verdict'[t][o] = VerdictOf(m.kind)
                                  /\ verdict' = [verdict EXCEPT ![t][o] = VerdictOf(m.kind)]
  <1>1. PICK m \in Messages : Writes(m)
    BY DEF Shapes, Quiet, AcceptContinues, MakerSetupCompleted, MakerRestarts, Decides,
           TakesNot, TakesWrongly, TakesIt, Takes, TakerStarts, TakerSetupCompleted,
           Learns, TakeOffer
  <1>2. m.to[1] \in Takers /\ m.order \in Orders /\ verdict[m.to[1]][m.order] = "none"
    BY <1>1, FirstAnswer
  <1>3. verdict' = [verdict EXCEPT ![m.to[1]][m.order] = VerdictOf(m.kind)]
    BY <1>1 DEF Writes
  <1>4. verdict \in [Takers -> [Orders -> {"none", "accepted", "refused"}]]
    BY DEF IInv, TypeOK
  <1>5. m.to[1] = t /\ m.order = o
    BY <1>2, <1>3, <1>4
  <1>6. verdict'[t][o] = VerdictOf(m.kind)
    BY <1>3, <1>4, <1>5
  <1> QED BY <1>1, <1>2, <1>3, <1>5, <1>6

(* Who asked for an order is settled once, by an open request for it.      *)
LEMMA WhoSteps ==
    ASSUME IInv, Deciding, Shapes, NEW o \in Orders, who'[o] # who[o]
    PROVE  /\ who[o] = None /\ mState[o] = "none"
           /\ \E c \in Conns : /\ TakesWrongly(c, o) \/ TakesIt(c, o)
                               /\ who' = [who EXCEPT ![o] = c]
  <1>1. PICK c \in Conns, p \in Orders : TakesWrongly(c, p) \/ TakesIt(c, p)
    BY DEF Shapes, Quiet, AcceptContinues, MakerSetupCompleted, MakerRestarts, Decides,
           TakesNot, Writes, TakerStarts, TakerSetupCompleted, Learns, TakeOffer, makerVars
  <1>2. mState[p] = "none" /\ who' = [who EXCEPT ![p] = c]
    BY <1>1 DEF TakesWrongly, TakesIt, Gets
  <1>3. who \in [Orders -> Conns \cup {None}]
    BY DEF IInv, TypeOK
  <1>4. p = o
    BY <1>2, <1>3
  <1>5. who[o] = None
    BY <1>2, <1>4 DEF Deciding
  <1> QED BY <1>1, <1>2, <1>4, <1>5

(* What is known of the request the maker handles, and those left behind.  *)
LEMMA FirstRequest ==
    ASSUME IInv, Asked, NEW c \in Conns, NEW o \in Orders, Takes(c, o)
    PROVE  /\ c[1] \in Takers /\ verdict[c[1]][o] = "none" /\ Waits(c, o)
           /\ ~HadFor(c[1], o)
           /\ \A j \in 1..Len(connMail) :
                 IsAnswer(connMail[j]) /\ connMail[j].order = o => connMail[j].to[1] # c[1]
           /\ \A d \in Conns : \A i \in 1..Len(up'[d]) :
                 /\ \/ d = c /\ i + 1 \in 1..Len(up[d]) /\ up'[d][i] = up[d][i + 1]
                    \/ d # c /\ i \in 1..Len(up[d]) /\ up'[d][i] = up[d][i]
                 /\ ~(d[1] = c[1] /\ up'[d][i] = o)
  <1>1. up \in [Conns -> Seq(Orders)] /\ c[1] \in Takers
    BY DEF IInv, TypeOK, Conns
  <1>2. up[c] \in Seq(Orders) /\ up[c] # <<>> /\ o = Head(up[c]) /\ up' = [up EXCEPT ![c] = Tail(@)]
    BY <1>1 DEF Takes
  <1>3. 1 \in 1..Len(up[c]) /\ up[c][1] = o
    BY <1>2
  <1>4. /\ verdict[c[1]][o] = "none" /\ Waits(c, o) /\ ~HadFor(c[1], o)
        /\ \A j \in 1..Len(connMail) :
              IsAnswer(connMail[j]) /\ connMail[j].order = o => connMail[j].to[1] # c[1]
        /\ \A d \in Conns : \A j \in 1..Len(up[d]) :
              d[1] = c[1] /\ up[d][j] = o => d = c /\ j = 1
    BY <1>3 DEF Asked, Fresh
  <1>5. ASSUME NEW d \in Conns, NEW i \in 1..Len(up'[d])
        PROVE  /\ \/ d = c /\ i + 1 \in 1..Len(up[d]) /\ up'[d][i] = up[d][i + 1]
                  \/ d # c /\ i \in 1..Len(up[d]) /\ up'[d][i] = up[d][i]
               /\ ~(d[1] = c[1] /\ up'[d][i] = o)
    <2>1. CASE d = c
      <3>1. up'[d] = Tail(up[d]) /\ up[d] \in Seq(Orders) /\ up[d] # <<>>
        BY <1>1, <1>2, <2>1
      <3>2. i + 1 \in 1..Len(up[d]) /\ up'[d][i] = up[d][i + 1]
        BY <3>1, TailElements
      <3>3. i + 1 # 1
        OBVIOUS
      <3> QED BY <2>1, <3>2, <3>3, <1>4
    <2>2. CASE d # c
      <3>1. up'[d] = up[d]
        BY <1>1, <1>2, <2>2
      <3> QED BY <2>2, <3>1, <1>4
    <2> QED BY <2>1, <2>2
  <1> QED BY <1>1, <1>4, <1>5

(* What is known of the answer a taker handles, and those left behind.     *)
LEMMA FirstAnswerDown ==
    ASSUME IInv, Learning, NEW t \in Takers, NEW o \in Orders, NEW k \in Answers,
           Learns(t, o, k)
    PROVE  /\ tState[t][o] = "outgoing" /\ verdict[t][o] = VerdictOf(k)
           /\ \A c \in Conns : \A i \in 1..Len(down'[c]) :
                 /\ \/ c = Own(t) /\ i + 1 \in 1..Len(down[c]) /\ down'[c][i] = down[c][i + 1]
                    \/ c # Own(t) /\ i \in 1..Len(down[c]) /\ down'[c][i] = down[c][i]
                 /\ ~(IsAnswer(down'[c][i]) /\ c[1] = t /\ down'[c][i].order = o)
  <1>0. PICK d \in Conns : d = Own(t) /\ d[1] = t
    BY DEF Learns, Own
  <1>1. down \in [Conns -> Seq(ToTaker)]
    BY DEF IInv, TypeOK
  <1>2. /\ down[d] \in Seq(ToTaker) /\ down[d] # <<>> /\ o = Head(down[d]).order
        /\ k = Head(down[d]).kind /\ down' = [down EXCEPT ![d] = Tail(@)]
    BY <1>0, <1>1 DEF Learns
  <1>3. 1 \in 1..Len(down[d]) /\ down[d][1] = Head(down[d]) /\ IsAnswer(down[d][1])
    BY <1>2 DEF IsAnswer
  <1>4. /\ tState[t][o] = "outgoing" /\ verdict[t][o] = VerdictOf(k)
        /\ \A j \in 1..Len(down[d]) : IsAnswer(down[d][j]) /\ down[d][j].order = o => j = 1
    BY <1>0, <1>2, <1>3 DEF Learning
  <1>5. ASSUME NEW c \in Conns, NEW i \in 1..Len(down'[c])
        PROVE  /\ \/ c = d /\ i + 1 \in 1..Len(down[c]) /\ down'[c][i] = down[c][i + 1]
                  \/ c # d /\ i \in 1..Len(down[c]) /\ down'[c][i] = down[c][i]
               /\ ~(IsAnswer(down'[c][i]) /\ c[1] = t /\ down'[c][i].order = o)
    <2>1. CASE c = d
      <3>1. down'[c] = Tail(down[c]) /\ down[c] \in Seq(ToTaker) /\ down[c] # <<>>
        BY <1>1, <1>2, <2>1
      <3>2. i + 1 \in 1..Len(down[c]) /\ down'[c][i] = down[c][i + 1]
        BY <3>1, TailElements
      <3>3. i + 1 # 1
        OBVIOUS
      <3> QED BY <2>1, <3>2, <3>3, <1>4
    <2>2. CASE c # d
      <3>1. down'[c] = down[c]
        BY <1>1, <1>2, <2>2
      <3>2. IsAnswer(down[c][i]) => c = Own(c[1])
        BY <3>1 DEF Learning
      <3>3. IsAnswer(down[c][i]) => c[1] # t
        BY <3>2, <2>2, <1>0
      <3> QED BY <2>2, <3>1, <3>3
    <2> QED BY <2>1, <2>2
  <1> QED BY <1>0, <1>4, <1>5

-----------------------------------------------------------------------------
(* Each conjunct is kept.                                                  *)

LEMMA NextAccepted ==
    ASSUME IInv, Asked, Answering, Deciding, Accepted, Shapes
    PROVE  Accepted'
  <1>1. SUFFICES ASSUME NEW t \in Takers, NEW o \in Orders, verdict'[t][o] = "accepted"
                 PROVE  who'[o] # None /\ who'[o][1] = t
    BY DEF Accepted, HadFor
  <1>2. HadFor(t, o)
    <2>1. CASE verdict[t][o] = "accepted"
      BY <2>1 DEF Accepted
    <2>2. CASE verdict'[t][o] # verdict[t][o]
      <3>1. PICK m \in Messages : /\ Writes(m) /\ m.to[1] = t /\ m.order = o
                                  /\ verdict'[t][o] = VerdictOf(m.kind)
        BY <2>2, VerdictSteps
      <3>2. m.kind = "confirm"
        BY <1>1, <3>1 DEF VerdictOf
      <3>3. who[o] = m.to /\ m.to \in Conns
        BY <3>1, <3>2, FirstAnswer
      <3>4. m.to # None
        BY <3>3, NoneAssumption
      <3> QED BY <3>1, <3>3, <3>4 DEF HadFor
    <2> QED BY <1>1, <2>1, <2>2
  <1>3. who'[o] = who[o]
    BY <1>2, WhoSteps DEF HadFor
  <1> QED BY <1>2, <1>3 DEF HadFor

LEMMA NextLearnt ==
    ASSUME IInv, Answering, Learning, Learnt, SettingUp, Shapes
    PROVE  Learnt'
  <1> DEFINE L(t, o) == /\ tState'[t][o] \in {"setup", "open"} => verdict'[t][o] = "accepted"
                        /\ tState'[t][o] = "rejected" => verdict'[t][o] = "refused"
                        /\ tState'[t][o] = "none" => verdict'[t][o] = "none"
  <1>1. SUFFICES ASSUME NEW t \in Takers, NEW o \in Orders PROVE L(t, o)
    BY DEF Learnt
  <1>a. /\ tState \in [Takers -> [Orders -> States \ {"incoming"}]]
        /\ tSetup \in [Takers -> Setups \cup {None}]
    BY DEF IInv, TypeOK
  <1>b. /\ tState[t][o] \in {"setup", "open"} => verdict[t][o] = "accepted"
        /\ tState[t][o] = "rejected" => verdict[t][o] = "refused"
        /\ tState[t][o] = "none" => verdict[t][o] = "none"
    BY DEF Learnt
  <1>2. CASE UNCHANGED <<tState, verdict>>
    BY <1>2, <1>b
  <1>3. CASE verdict'[t][o] # verdict[t][o]
    <2>1. verdict[t][o] = "none"
      BY <1>3, VerdictSteps
    <2>2. PICK m \in Messages : Writes(m) /\ m.to[1] = t /\ m.order = o
      BY <1>3, VerdictSteps
    <2>3. Waits(m.to, o) /\ UNCHANGED tState
      BY <2>2, FirstAnswer DEF Writes
    <2>4. tState[t][o] # "none"
      BY <2>2, <2>3 DEF Waits
    <2> QED BY <1>b, <2>1, <2>3, <2>4
  <1>4. CASE verdict'[t][o] = verdict[t][o] /\ UNCHANGED tState
    BY <1>4, <1>b
  <1>5. ASSUME NEW u \in Takers, TakerStarts(u) PROVE L(t, o)
    <2>1. tState' = [tState EXCEPT ![u] = Housekeeping(@)] /\ UNCHANGED verdict
      BY <1>5 DEF TakerStarts
    <2>2. tState'[t][o] = IF u = t /\ tState[t][o] \in Unfinished THEN "failed" ELSE tState[t][o]
      BY <1>a, <2>1 DEF Housekeeping
    <2> QED BY <1>b, <2>1, <2>2
  <1>6. ASSUME NEW u \in Takers, TakerSetupCompleted(u) PROVE L(t, o)
    <2>1. PICK p \in Orders : p = tSetup[u].order
      BY <1>6, <1>a DEF TakerSetupCompleted, Setups
    <2>2. tState[u][p] = "setup"
      BY <1>6, <2>1 DEF TakerSetupCompleted, SettingUp
    <2>3. PICK s \in {"open", "failed"} : tState' = [tState EXCEPT ![u][p] = s]
      BY <1>6, <2>1 DEF TakerSetupCompleted, Concluded
    <2>4. UNCHANGED verdict
      BY <1>6 DEF TakerSetupCompleted
    <2>5. verdict[u][p] = "accepted"
      BY <2>2 DEF Learnt
    <2> QED BY <1>a, <1>b, <2>3, <2>4, <2>5
  <1>7. ASSUME NEW u \in Takers, NEW p \in Orders, NEW k \in Answers, Learns(u, p, k)
        PROVE  L(t, o)
    <2>0. UNCHANGED verdict
      BY <1>7 DEF Learns
    <2>1. verdict[u][p] = VerdictOf(k)
      BY <1>7, FirstAnswerDown
    <2>2. \/ k # "confirm" /\ tState' = [tState EXCEPT ![u][p] = "rejected"]
          \/ k = "confirm" /\ tState' = [tState EXCEPT ![u][p] = "setup"]
          \/ tState' = tState
      BY <1>7 DEF Learns
    <2> QED BY <1>a, <1>b, <2>0, <2>1, <2>2 DEF VerdictOf
  <1>8. ASSUME NEW u \in Takers, NEW p \in Orders, TakeOffer(u, p) PROVE L(t, o)
    <2>1. tState' = [tState EXCEPT ![u][p] = "outgoing"] /\ UNCHANGED verdict
      BY <1>8 DEF TakeOffer
    <2> QED BY <1>a, <1>b, <2>1
  <1> QED
    BY <1>2, <1>3, <1>4, <1>5, <1>6, <1>7, <1>8
       DEF Shapes, Quiet, AcceptContinues, MakerSetupCompleted, MakerRestarts, Decides,
           TakesNot, TakesWrongly, TakesIt, Takes, Writes, takerVars

LEMMA NextSettingUp ==
    ASSUME IInv, Learning, SettingUp, Shapes
    PROVE  SettingUp'
  <1> USE DEF takerVars
  <1>a. /\ tState \in [Takers -> [Orders -> States \ {"incoming"}]]
        /\ tSetup \in [Takers -> Setups \cup {None}]
    BY DEF IInv, TypeOK
  <1>1. CASE SetupKept /\ UNCHANGED tState
    BY <1>1 DEF SettingUp, SetupKept
  <1>2. CASE UNCHANGED <<tState, tSetup>>
    BY <1>2 DEF SettingUp
  <1>3. ASSUME NEW u \in Takers, TakerStarts(u) PROVE SettingUp'
    <2>1. /\ tState' = [tState EXCEPT ![u] = Housekeeping(@)]
          /\ tSetup' = [tSetup EXCEPT ![u] = None]
      BY <1>3 DEF TakerStarts
    <2> QED BY <1>a, <2>1 DEF SettingUp
  <1>4. ASSUME NEW u \in Takers, TakerSetupCompleted(u) PROVE SettingUp'
    <2>1. /\ tState' = [tState EXCEPT ![u][tSetup[u].order] = Concluded(tSetup[u].outcome)]
          /\ tSetup' = [tSetup EXCEPT ![u] = None]
      BY <1>4 DEF TakerSetupCompleted
    <2> QED BY <1>a, <2>1 DEF SettingUp
  <1>5. ASSUME NEW u \in Takers, NEW p \in Orders, NEW k \in Answers, Learns(u, p, k)
        PROVE  SettingUp'
    <2>1. tState[u][p] = "outgoing"
      BY <1>5, FirstAnswerDown
    <2>2. Setup(p, Own(u)).order = p
      BY DEF Setup
    <2>3. CASE tState' = [tState EXCEPT ![u][p] = "rejected"] /\ tSetup' = tSetup
      BY <1>a, <2>1, <2>3 DEF SettingUp, Setups
    <2>4. CASE /\ tSetup[u] = None /\ tState' = [tState EXCEPT ![u][p] = "setup"]
               /\ tSetup' = tSetup \/ tSetup' = [tSetup EXCEPT ![u] = Setup(p, Own(u))]
      BY <1>a, <2>1, <2>2, <2>4 DEF SettingUp, Setups
    <2> QED BY <1>2, <1>5, <2>3, <2>4 DEF Learns
  <1>6. ASSUME NEW u \in Takers, NEW p \in Orders, TakeOffer(u, p) PROVE SettingUp'
    <2>1. /\ tState[u][p] = "none" /\ tState' = [tState EXCEPT ![u][p] = "outgoing"]
          /\ UNCHANGED tSetup
      BY <1>6 DEF TakeOffer
    <2> QED BY <1>a, <2>1 DEF SettingUp, Setups
  <1> QED
    BY <1>1, <1>2, <1>3, <1>4, <1>5, <1>6
       DEF Shapes, Quiet, AcceptContinues, MakerSetupCompleted, MakerRestarts, Decides,
           TakesNot, TakesWrongly, TakesIt, Takes, Writes

LEMMA NextLive ==
    ASSUME IInv, Live, [Next]_vars
    PROVE  Live'
  <1> USE DEF makerVars, connVars, takerVars
  <1>a. /\ link \in [Conns -> {"unused", "pending", "up", "gone", "dead", "reset", "failed"}]
        /\ sess \in [Takers -> 0..MaxSessions]
    BY DEF IInv, TypeOK
  <1>1. CASE UNCHANGED <<link, sess>>
    BY <1>1 DEF Live, Own
  <1>2. CASE HandleNewConnection
    <2>1. PICK c \in Conns : c = Head(connMail).to
      <3>1. Head(connMail) \in Messages /\ Head(connMail).kind = "new"
        BY <1>2, FirstMessage DEF HandleNewConnection, NextMessage, IInv
      <3> QED BY <3>1 DEF Messages, Answers
    <2>2. /\ \/ link' = [link EXCEPT ![c] = "up"] /\ Own(c[1]) = c
             \/ link' = [link EXCEPT ![c] = "failed"]
          /\ UNCHANGED sess
      BY <1>2, <2>1 DEF HandleNewConnection
    <2> QED BY <1>a, <2>2 DEF Live, Own
  <1>3. CASE MakerRestarts
    BY <1>3, <1>a DEF MakerRestarts, Live, Own
  <1>4. ASSUME NEW c \in Conns, ConnectionCloses(c) PROVE Live'
    BY <1>4, <1>a DEF ConnectionCloses, Live, Own
  <1>5. ASSUME NEW t \in Takers, TakerStarts(t) PROVE Live'
    <2>1. SUFFICES ASSUME NEW c \in Conns, link'[c] = "up" PROVE c = <<c[1], sess'[c[1]]>>
      BY DEF Live, Own
    <2>2. /\ link'[c] = CASE c = <<t, sess[t] + 1>> -> "pending"
                          [] c = Own(t) /\ link[c] = "up" -> "gone"
                          [] OTHER -> link[c]
          /\ sess' = [sess EXCEPT ![t] = @ + 1]
      BY <1>5 DEF TakerStarts
    <2>3. link[c] = "up" /\ c # Own(t)
      BY <2>1, <2>2
    <2>4. c = Own(c[1])
      BY <2>3 DEF Live
    <2>5. c[1] # t /\ c[1] \in Takers
      BY <2>3, <2>4 DEF Conns
    <2> QED BY <1>a, <2>2, <2>4, <2>5 DEF Own
  <1>6. ASSUME NEW o \in Orders, NewOrder(o) \/ RejectOrder(o) \/ AcceptOrder(o)
        PROVE  UNCHANGED <<link, sess>>
    BY <1>6 DEF NewOrder, RejectOrder, AcceptOrder, Post
  <1>7. ASSUME NEW c \in Conns, HandleTakeOrder(c) PROVE UNCHANGED <<link, sess>>
    BY <1>7 DEF HandleTakeOrder, TakeOutdated, TakeOutOfBounds, TakeCurrent, TakeOrderOf,
                Post
  <1>8. NewTakerOnline \/ AcceptContinues \/ MakerSetupEnds \/ MakerSetupCompleted
        => UNCHANGED <<link, sess>>
    BY DEF NewTakerOnline, AcceptContinues, MakerSetupEnds, MakerSetupCompleted
  <1>9. HandleBroadcastOrder \/ HandleTakerMessage => UNCHANGED <<link, sess>>
    BY DEF HandleBroadcastOrder, HandleTakerMessage
  <1>10. ASSUME NEW t \in Takers, TakerActor(t) \/ TakerSetupEnds(t)
         PROVE  UNCHANGED <<link, sess>>
    <2>1. ASSUME NEW kinds, NEW o, Receive(t, kinds, o) PROVE UNCHANGED <<link, sess>>
      BY <2>1 DEF Receive
    <2>2. CASE HandleNewOrder(t) \/ HandleOrderRejected(t) \/ HandleOrderAccepted(t)
      BY <2>1, <2>2 DEF HandleNewOrder, HandleOrderRejected, HandleOrderAccepted
    <2>3. CASE TakerSetupCompleted(t) \/ TakerSetupEnds(t)
      BY <2>3 DEF TakerSetupCompleted, TakerSetupEnds
    <2> QED BY <1>10, <2>2, <2>3 DEF TakerActor
  <1>11. ASSUME NEW t \in Takers, NEW o \in Orders, TakeOffer(t, o)
         PROVE  UNCHANGED <<link, sess>>
    BY <1>11 DEF TakeOffer
  <1>12. UNCHANGED vars => UNCHANGED <<link, sess>>
    BY DEF vars
  <1> QED
    BY <1>1, <1>2, <1>3, <1>4, <1>5, <1>6, <1>7, <1>8, <1>9, <1>10, <1>11, <1>12
       DEF Next, ConnectionActor

LEMMA NextLearning ==
    ASSUME IInv, Answering, Learning, Learnt, SettingUp, Live, Shapes
    PROVE  Learning'
  <1> USE DEF makerVars, connVars, takerVars
  <1>a. /\ tState \in [Takers -> [Orders -> States \ {"incoming"}]]
        /\ tSetup \in [Takers -> Setups \cup {None}]
        /\ sess \in [Takers -> 0..MaxSessions]
        /\ down \in [Conns -> Seq(ToTaker)]
    BY DEF IInv, TypeOK
  <1> DEFINE L(c, i) ==
        /\ c = Own(c[1])' /\ tState'[c[1]][down'[c][i].order] = "outgoing"
        /\ verdict'[c[1]][down'[c][i].order] = VerdictOf(down'[c][i].kind)
        /\ \A j \in 1..Len(down'[c]) :
              IsAnswer(down'[c][j]) /\ down'[c][j].order = down'[c][i].order => j = i
  <1>0. SUFFICES ASSUME NEW c \in Conns, NEW i \in 1..Len(down'[c]), IsAnswer(down'[c][i])
                 PROVE  L(c, i)
    BY DEF Learning
  <1>b. c[1] \in Takers /\ down[c] \in Seq(ToTaker)
    BY <1>a DEF Conns
  <1>c. \A j \in 1..Len(down[c]) : IsAnswer(down[c][j]) => down[c][j].order \in Orders
    <2>1. SUFFICES ASSUME NEW j \in 1..Len(down[c]), IsAnswer(down[c][j])
                   PROVE  down[c][j].order \in Orders
      OBVIOUS
    <2>2. down[c][j] \in ToTaker
      BY <1>b
    <2> QED BY <2>1, <2>2 DEF ToTaker, IsAnswer, Answers
  (* The messages that stay keep what is known of them.                    *)
  <1>1. ASSUME NEW n \in {0, 1}, Older(down'[c], down[c], n), UNCHANGED sess,
               \A o \in Orders : tState[c[1]][o] = "outgoing" /\ verdict[c[1]][o] # "none"
                  /\ (\E j \in 1..Len(down'[c]) : IsAnswer(down'[c][j]) /\ down'[c][j].order = o)
                  => UNCHANGED <<tState[c[1]][o], verdict[c[1]][o]>>
        PROVE  L(c, i)
    <2>1. i + n \in 1..Len(down[c]) /\ down'[c][i] = down[c][i + n]
      BY <1>0, <1>1 DEF Older
    <2>2. PICK o \in Orders : o = down[c][i + n].order
      BY <1>0, <1>c, <2>1
    <2>3. /\ c = Own(c[1]) /\ tState[c[1]][o] = "outgoing"
          /\ verdict[c[1]][o] = VerdictOf(down[c][i + n].kind)
          /\ \A j \in 1..Len(down[c]) :
                IsAnswer(down[c][j]) /\ down[c][j].order = o => j = i + n
      BY <1>0, <2>1, <2>2 DEF Learning
    <2>4. verdict[c[1]][o] # "none"
      BY <2>3 DEF VerdictOf
    <2>5. tState'[c[1]][o] = tState[c[1]][o] /\ verdict'[c[1]][o] = verdict[c[1]][o]
      BY <1>0, <1>1, <2>1, <2>2, <2>3, <2>4
    <2>6. \A j \in 1..Len(down'[c]) : IsAnswer(down'[c][j]) /\ down'[c][j].order = o => j = i
      <3>1. ASSUME NEW j \in 1..Len(down'[c]), IsAnswer(down'[c][j]), down'[c][j].order = o
            PROVE  j = i
        <4>1. j + n \in 1..Len(down[c]) /\ down'[c][j] = down[c][j + n]
          BY <1>1, <3>1 DEF Older
        <4>2. j + n = i + n
          BY <2>3, <3>1, <4>1
        <4> QED BY <4>2
      <3> QED BY <3>1
    <2> QED BY <1>1, <2>1, <2>2, <2>3, <2>5, <2>6 DEF Own
  <1>2. CASE Quiet
    <2>1. PICK n \in {0, 1} : Older(down'[c], down[c], n)
      BY <1>2 DEF Quiet, OldDown
    <2> QED BY <1>1, <1>2, <2>1 DEF Quiet
  <1>3. CASE UNCHANGED <<down, sess, tState, verdict>>
    <2>1. Older(down'[c], down[c], 0)
      BY <1>3, <1>b, OlderSame
    <2> QED BY <1>1, <1>3, <2>1
  <1>4. ASSUME NEW m \in Messages, Writes(m) PROVE L(c, i)
    <2>0. /\ m.to \in Conns /\ m.to[1] \in Takers /\ m.order \in Orders /\ m.kind \in Answers
          /\ verdict[m.to[1]][m.order] = "none" /\ Waits(m.to, m.order)
      BY <1>4, FirstAnswer
    <2>1. UNCHANGED <<sess, tState>>
      BY <1>4 DEF Writes
    <2>2. \A t \in Takers, o \in Orders : verdict[t][o] # "none" => verdict'[t][o] = verdict[t][o]
      BY VerdictSteps
    <2>3. CASE down'[c] = down[c]
      <3>1. Older(down'[c], down[c], 0)
        BY <2>3, <1>b, OlderSame
      <3> QED BY <1>1, <1>b, <2>1, <2>2, <3>1
    <2>4. CASE /\ c = m.to /\ link[c] = "up" /\ verdict'[c[1]][m.order] = VerdictOf(m.kind)
               /\ down'[c] = Append(down[c], [kind |-> m.kind, order |-> m.order])
      <3> DEFINE a == [kind |-> m.kind, order |-> m.order]
      <3>1. c = Own(c[1]) /\ tState[c[1]][m.order] = "outgoing"
        <4>1. c = Own(c[1])
          BY <2>4 DEF Live
        <4>2. c[2] = sess[c[1]] /\ sess[c[1]] \in Nat
          BY <4>1, <1>a, <1>b, SessionAssumption DEF Own
        <4>3. Waits(c, m.order)
          BY <2>0, <2>4
        <4>4. ~(c[2] < sess[c[1]])
          BY <4>2
        <4> QED BY <4>1, <4>3, <4>4 DEF Waits
      <3>2. /\ Len(down'[c]) = Len(down[c]) + 1 /\ Len(down[c]) \in Nat
            /\ down'[c][Len(down[c]) + 1] = a
            /\ \A j \in 1..Len(down[c]) : down'[c][j] = down[c][j]
        BY <2>4, <1>b
      <3>3. \A j \in 1..Len(down[c]) : IsAnswer(down[c][j]) => down[c][j].order # m.order
        <4>1. ASSUME NEW j \in 1..Len(down[c]), IsAnswer(down[c][j]), down[c][j].order = m.order
              PROVE  FALSE
          <5>1. verdict[c[1]][m.order] = VerdictOf(down[c][j].kind)
            BY <4>1 DEF Learning
          <5> QED BY <5>1, <2>0, <2>4 DEF VerdictOf
        <4> QED BY <4>1
      <3>4. CASE i = Len(down[c]) + 1
        <4>1. down'[c][i] = a /\ a.order = m.order /\ a.kind = m.kind
          BY <3>2, <3>4
        <4>2. \A j \in 1..Len(down'[c]) :
                 IsAnswer(down'[c][j]) /\ down'[c][j].order = m.order => j = i
          BY <3>2, <3>3, <3>4
        <4> QED BY <2>1, <2>4, <3>1, <4>1, <4>2 DEF Own
      <3>5. CASE i # Len(down[c]) + 1
        <4>1. i \in 1..Len(down[c]) /\ down'[c][i] = down[c][i]
          BY <3>2, <3>5, <1>0
        <4>2. PICK o \in Orders : o = down[c][i].order
          BY <4>1, <1>0, <1>c
        <4>3. /\ tState[c[1]][o] = "outgoing"
              /\ verdict[c[1]][o] = VerdictOf(down[c][i].kind)
              /\ \A j \in 1..Len(down[c]) :
                    IsAnswer(down[c][j]) /\ down[c][j].order = o => j = i
          BY <1>0, <4>1, <4>2 DEF Learning
        <4>4. verdict'[c[1]][o] = verdict[c[1]][o]
          BY <1>b, <2>2, <4>3 DEF VerdictOf
        <4>5. o # m.order
          BY <3>3, <4>1, <4>2, <1>0
        <4>6. \A j \in 1..Len(down'[c]) : IsAnswer(down'[c][j]) /\ down'[c][j].order = o => j = i
          <5>1. ASSUME NEW j \in 1..Len(down'[c]), IsAnswer(down'[c][j]), down'[c][j].order = o
                PROVE  j = i
            <6>1. j # Len(down[c]) + 1
              BY <3>2, <4>5, <5>1
            <6>2. j \in 1..Len(down[c]) /\ down'[c][j] = down[c][j]
              BY <3>2, <6>1
            <6> QED BY <4>3, <5>1, <6>2
          <5> QED BY <5>1
        <4> QED BY <2>1, <3>1, <4>1, <4>2, <4>3, <4>4, <4>6 DEF Own
      <3> QED BY <3>4, <3>5
    <2> QED BY <1>4, <2>3, <2>4 DEF Writes
  <1>5. ASSUME NEW t \in Takers, TakerStarts(t) PROVE L(c, i)
    <2>1. /\ down'[c] = IF c = Own(t) THEN <<>> ELSE down[c]
          /\ sess' = [sess EXCEPT ![t] = @ + 1]
          /\ tState' = [tState EXCEPT ![t] = Housekeeping(@)] /\ UNCHANGED verdict
      BY <1>5 DEF TakerStarts
    <2>2. c # Own(t)
      BY <1>0, <2>1
    <2>3. down'[c] = down[c]
      BY <2>1, <2>2
    <2>4. c = Own(c[1])
      BY <1>0, <2>3 DEF Learning
    <2>5. c[1] # t
      BY <2>2, <2>4
    <2>6. sess'[c[1]] = sess[c[1]] /\ tState'[c[1]] = tState[c[1]]
      BY <1>a, <1>b, <2>1, <2>5
    <2> QED BY <1>0, <2>1, <2>3, <2>6 DEF Learning, Own
  <1>6. ASSUME NEW t \in Takers, TakerSetupCompleted(t) PROVE L(c, i)
    <2>1. PICK p \in Orders : p = tSetup[t].order
      BY <1>6, <1>a DEF TakerSetupCompleted, Setups
    <2>2. tState[t][p] = "setup"
      BY <1>6, <2>1 DEF TakerSetupCompleted, SettingUp
    <2>3. PICK s \in {"open", "failed"} : tState' = [tState EXCEPT ![t][p] = s]
      BY <1>6, <2>1 DEF TakerSetupCompleted, Concluded
    <2>4. UNCHANGED <<down, sess, verdict>>
      BY <1>6 DEF TakerSetupCompleted
    <2>5. Older(down'[c], down[c], 0)
      BY <2>4, <1>b, OlderSame
    <2>6. \A o \in Orders : tState[c[1]][o] = "outgoing" => tState'[c[1]][o] = tState[c[1]][o]
      BY <1>a, <1>b, <2>2, <2>3
    <2> QED BY <1>1, <2>4, <2>5, <2>6
  <1>7. ASSUME NEW t \in Takers, NEW p \in Orders, NEW k \in Answers, Learns(t, p, k)
        PROVE  L(c, i)
    <2>1. UNCHANGED <<sess, verdict>>
      BY <1>7 DEF Learns
    <2>2. \A d \in Conns : \A j \in 1..Len(down'[d]) :
             /\ \/ d = Own(t) /\ j + 1 \in 1..Len(down[d]) /\ down'[d][j] = down[d][j + 1]
                \/ d # Own(t) /\ j \in 1..Len(down[d]) /\ down'[d][j] = down[d][j]
             /\ ~(IsAnswer(down'[d][j]) /\ d[1] = t /\ down'[d][j].order = p)
      BY <1>7, FirstAnswerDown
    <2>3. \E n \in {0, 1} : Older(down'[c], down[c], n)
      <3>1. CASE c = Own(t)
        BY <2>2, <3>1 DEF Older
      <3>2. CASE c # Own(t)
        BY <2>2, <3>2 DEF Older
      <3> QED BY <3>1, <3>2
    <2>4. tState' = tState \/ \E s \in {"rejected", "setup"} : tState' = [tState EXCEPT ![t][p] = s]
      BY <1>7 DEF Learns
    <2>5. ASSUME NEW o \in Orders, c[1] # t \/ o # p
          PROVE  tState'[c[1]][o] = tState[c[1]][o]
      <3>1. ASSUME NEW s \in {"rejected", "setup"}, tState' = [tState EXCEPT ![t][p] = s]
            PROVE  tState'[c[1]][o] = tState[c[1]][o]
        BY <1>a, <1>b, <2>5, <3>1
      <3> QED BY <2>4, <3>1
    <2>6. \A j \in 1..Len(down'[c]) : IsAnswer(down'[c][j]) => c[1] # t \/ down'[c][j].order # p
      BY <2>2
    <2> QED BY <1>1, <2>1, <2>3, <2>5, <2>6
  <1>8. ASSUME NEW t \in Takers, NEW p \in Orders, TakeOffer(t, p) PROVE L(c, i)
    <2>1. /\ tState[t][p] = "none" /\ tState' = [tState EXCEPT ![t][p] = "outgoing"]
          /\ UNCHANGED <<down, sess, verdict>>
      BY <1>8 DEF TakeOffer
    <2>2. Older(down'[c], down[c], 0)
      BY <2>1, <1>b, OlderSame
    <2>3. \A o \in Orders : tState[c[1]][o] = "outgoing" => tState'[c[1]][o] = tState[c[1]][o]
      BY <1>a, <1>b, <2>1
    <2> QED BY <1>1, <2>1, <2>2, <2>3
  <1> QED
    BY <1>2, <1>3, <1>4, <1>5, <1>6, <1>7, <1>8
       DEF Shapes, AcceptContinues, MakerSetupCompleted, MakerRestarts, Decides,
           TakesNot, TakesWrongly, TakesIt, Takes

LEMMA NextDeciding ==
    ASSUME IInv, TypeOK', Asked, Answering, Deciding, Learning, Learnt, SettingUp, Shapes
    PROVE  Deciding'
  <1> USE DEF takerVars
  <1>a. /\ mState \in [Orders -> States \ {"outgoing"}]
        /\ who \in [Orders -> Conns \cup {None}]
        /\ verdict \in [Takers -> [Orders -> {"none", "accepted", "refused"}]]
        /\ accepting \in Accepts \cup {None} /\ mSetup \in Setups \cup {None}
        /\ AcceptPending /\ MakerSetupRuns
    BY DEF IInv, TypeOK
  <1> DEFINE D(o, c) ==
       /\ mState'[o] # "none" /\ tState'[c[1]][o] # "none"
       /\ mState'[o] = "incoming" /\ Told(o)' => verdict'[c[1]][o] = "accepted"
       /\ mState'[o] = "incoming" /\ ~Told(o)' =>
             verdict'[c[1]][o] = "none" /\ Waits(c, o)'
       /\ mState'[o] \in {"setup", "open"} => verdict'[c[1]][o] = "accepted"
       /\ mState'[o] = "rejected" => verdict'[c[1]][o] # "accepted"
       /\ mState'[o] = "failed" => verdict'[c[1]][o] # "refused"
  <1>0. SUFFICES ASSUME NEW o \in Orders, NEW c \in Conns, who'[o] = c PROVE D(o, c)
    <2>1. SUFFICES ASSUME NEW o \in Orders, NEW c \in Conns, who'[o] = c
                   PROVE  /\ mState'[o] # "none" /\ tState'[who'[o][1]][o] # "none"
                          /\ mState'[o] = "incoming" /\ Told(o)'
                             => verdict'[who'[o][1]][o] = "accepted"
                          /\ mState'[o] = "incoming" /\ ~Told(o)' =>
                                /\ verdict'[who'[o][1]][o] = "none"
                                /\ tState'[who'[o][1]][o] # "none"
                                /\ \/ who'[o][2] < sess'[who'[o][1]]
                                   \/ /\ who'[o][2] = sess'[who'[o][1]]
                                      /\ tState'[who'[o][1]][o] = "outgoing"
                          /\ mState'[o] \in {"setup", "open"}
                             => verdict'[who'[o][1]][o] = "accepted"
                          /\ mState'[o] = "rejected" => verdict'[who'[o][1]][o] # "accepted"
                          /\ mState'[o] = "failed" => verdict'[who'[o][1]][o] # "refused"
      <3>1. \A o \in Orders : who'[o] # None => who'[o] \in Conns
        BY DEF TypeOK
      <3> QED BY <2>1, <3>1 DEF Deciding, Waits
    <2>2. D(o, c)
      BY <2>1, <1>0
    <2> QED BY <2>1, <2>2 DEF Waits
  (* The order has its taker already, or gets it in this step.             *)
  <1>1. CASE who'[o] # who[o]
    <2>1. mState[o] = "none"
      BY <1>1, WhoSteps
    <2>2. PICK d \in Conns : /\ TakesWrongly(d, o) \/ TakesIt(d, o)
                             /\ who' = [who EXCEPT ![o] = d]
      BY <1>1, WhoSteps
    <2>3. d = c
      BY <1>a, <1>0, <2>2
    <2>4. /\ accepting = None /\ UNCHANGED <<accepting, verdict>>
          /\ c[1] \in Takers /\ verdict[c[1]][o] = "none" /\ Waits(c, o)
      BY <2>2, <2>3, FirstRequest DEF TakesWrongly, TakesIt, Takes
    <2>5. Waits(c, o)'
      BY <2>4, WaitsKept
    <2>6. ~Told(o)'
      BY <2>4 DEF Told
    <2>7. mState'[o] \in {"incoming", "rejected"}
      BY <1>a, <2>2 DEF TakesWrongly, TakesIt, Gets
    <2>8. tState'[c[1]][o] # "none"
      BY <2>5 DEF Waits
    <2> QED BY <2>4, <2>5, <2>6, <2>7, <2>8
  <1>2. CASE who'[o] = who[o]
    <2>1. c = who[o]
      BY <1>0, <1>2
    <2>2. c[1] \in Takers /\ c # None
      BY NoneAssumption DEF Conns
    <2>3. /\ mState[o] # "none" /\ tState[c[1]][o] # "none"
          /\ mState[o] = "incoming" /\ Told(o) => verdict[c[1]][o] = "accepted"
          /\ mState[o] = "incoming" /\ ~Told(o) => verdict[c[1]][o] = "none" /\ Waits(c, o)
          /\ mState[o] \in {"setup", "open"} => verdict[c[1]][o] = "accepted"
          /\ mState[o] = "rejected" => verdict[c[1]][o] # "accepted"
          /\ mState[o] = "failed" => verdict[c[1]][o] # "refused"
      BY <2>1, <2>2 DEF Deciding
    <2>4. tState'[c[1]][o] # "none"
      BY <2>2, <2>3, TakerSteps
    <2>5. Waits(c, o) /\ verdict[c[1]][o] = "none" => Waits(c, o)'
      BY WaitsKept
    <2> DEFINE E == /\ mState'[o] # "none"
                    /\ mState'[o] = "incoming" /\ Told(o)' => verdict'[c[1]][o] = "accepted"
                    /\ mState'[o] = "incoming" /\ ~Told(o)' =>
                          verdict'[c[1]][o] = "none" /\ Waits(c, o)'
                    /\ mState'[o] \in {"setup", "open"} => verdict'[c[1]][o] = "accepted"
                    /\ mState'[o] = "rejected" => verdict'[c[1]][o] # "accepted"
                    /\ mState'[o] = "failed" => verdict'[c[1]][o] # "refused"
    <2> SUFFICES E
      BY <2>4
    <2>6. CASE mState'[o] = mState[o] /\ (Told(o)' <=> Told(o)) /\ verdict'[c[1]][o] = verdict[c[1]][o]
      BY <2>3, <2>5, <2>6
    <2>7. CASE AcceptContinues
      <3>1. UNCHANGED verdict /\ accepting' = None /\ ~Told(o)'
        BY <2>7 DEF AcceptContinues, Told
      <3>2. CASE accepting.order = o /\ accepting.reply = "ok"
        <4>1. Told(o) /\ mState[o] = "incoming" /\ mState' = [mState EXCEPT ![o] = "setup"]
          BY <1>a, <2>7, <3>2 DEF AcceptContinues, Idle, Told, AcceptPending
        <4> QED BY <1>a, <2>3, <3>1, <4>1
      <3>3. CASE ~(accepting.order = o /\ accepting.reply = "ok")
        <4>1. ~Told(o)
          BY <3>3 DEF Told
        <4>2. mState'[o] = mState[o]
          BY <1>a, <2>7, <3>3 DEF AcceptContinues
        <4> QED BY <2>6, <3>1, <4>1, <4>2
      <3> QED BY <3>2, <3>3
    <2>8. CASE MakerSetupCompleted
      <3>1. UNCHANGED <<accepting, verdict>> /\ accepting = None /\ mSetup # None
        BY <2>8 DEF MakerSetupCompleted, Idle
      <3>2. PICK p \in Orders : p = mSetup.order
        BY <1>a, <3>1 DEF Setups
      <3>3. PICK s \in {"open", "failed"} : mState' = [mState EXCEPT ![p] = s]
        BY <2>8, <3>2 DEF MakerSetupCompleted, Concluded
      <3>4. mState[p] = "setup"
        BY <1>a, <3>1, <3>2 DEF MakerSetupRuns
      <3>5. Told(o)' <=> Told(o)
        BY <3>1 DEF Told
      <3>6. CASE p = o
        BY <1>a, <2>3, <3>1, <3>3, <3>4, <3>6
      <3>7. CASE p # o
        BY <1>a, <2>6, <3>1, <3>3, <3>5, <3>7
      <3> QED BY <3>6, <3>7
    <2>9. CASE MakerRestarts
      <3>1. UNCHANGED verdict /\ accepting' = None
        BY <2>9 DEF MakerRestarts
      <3>2. mState'[o] = IF mState[o] \in Unfinished THEN "failed" ELSE mState[o]
        BY <2>9 DEF MakerRestarts, Housekeeping
      <3> QED BY <1>a, <2>3, <3>1, <3>2 DEF Unfinished
    <2>10. ASSUME NEW p \in Orders, NEW m \in Messages, Decides(p, m) PROVE E
      <3>1. UNCHANGED verdict /\ accepting = None /\ mState[p] = "incoming"
        BY <2>10 DEF Decides
      <3>2. ~Told(o) /\ ~Told(o)'
        BY <2>10 DEF Decides, Told
      <3>3. mState' = mState \/ mState' = [mState EXCEPT ![p] = "rejected"]
        BY <2>10 DEF Decides
      <3>4. CASE mState'[o] = mState[o]
        BY <2>6, <3>1, <3>2, <3>4
      <3>5. CASE mState'[o] # mState[o]
        <4>1. p = o /\ mState'[o] = "rejected"
          BY <1>a, <3>3, <3>5
        <4> QED BY <2>3, <3>1, <3>2, <4>1
      <3> QED BY <3>4, <3>5
    <2>11. ASSUME NEW d \in Conns, NEW p \in Orders,
                  TakesNot(d, p) \/ TakesWrongly(d, p) \/ TakesIt(d, p)
           PROVE  E
      <3>1. UNCHANGED <<accepting, verdict>>
        BY <2>11 DEF TakesNot, TakesWrongly, TakesIt, Takes
      <3>2. Told(o)' <=> Told(o)
        BY <3>1 DEF Told
      <3>3. \/ mState' = mState
            \/ mState[p] = "none" /\ \E s : mState' = [mState EXCEPT ![p] = s]
        BY <2>11 DEF TakesNot, TakesWrongly, TakesIt, Gets
      <3>4. mState'[o] = mState[o]
        BY <1>a, <2>3, <3>3
      <3> QED BY <2>6, <3>1, <3>2, <3>4
    <2>12. ASSUME NEW m \in Messages, Writes(m) PROVE E
      <3>1. /\ m.to[1] \in Takers /\ m.order \in Orders /\ m.kind \in Answers
            /\ verdict[m.to[1]][m.order] = "none"
            /\ m.kind = "invalid" => ~HadFor(m.to[1], m.order)
            /\ m.kind = "reject" => who[m.order] = m.to /\ mState[m.order] = "rejected"
            /\ m.kind = "confirm" => /\ who[m.order] = m.to /\ accepting # None
                                     /\ accepting.order = m.order
                                     /\ accepting.reply = "waiting"
        BY <2>12, FirstAnswer
      <3>2. UNCHANGED mState
        BY <2>12 DEF Writes
      <3>3. /\ accepting # None /\ accepting.reply # "ok" =>
                 ~\E p \in Orders : Told(p)
            /\ m.kind # "confirm" => accepting' = accepting
            /\ m.kind = "confirm" => accepting'.order = accepting.order /\ accepting' # None
        <4>1. m.kind = "confirm" => accepting \in Accepts
          BY <1>a, <3>1
        <4>2. m.kind = "confirm" => \E r \in {"ok", "err"} :
                 accepting' = [accepting EXCEPT !.reply = r]
          BY <2>12 DEF Writes
        <4>3. m.kind = "confirm" => accepting' \in Accepts /\ accepting'.order = accepting.order
          BY <4>1, <4>2 DEF Accepts
        <4>4. None \notin Accepts
          BY NoneAssumption
        <4>5. m.kind # "confirm" => accepting' = accepting
          BY <2>12 DEF Writes
        <4> QED BY <4>3, <4>4, <4>5 DEF Told
      <3>4. CASE m.order # o
        <4>1. verdict'[c[1]][o] = verdict[c[1]][o]
          <5>1. \/ verdict' = verdict
                \/ verdict' = [verdict EXCEPT ![m.to[1]][m.order] = VerdictOf(m.kind)]
            BY <2>12 DEF Writes
          <5> QED BY <1>a, <2>2, <3>1, <3>4, <5>1
        <4>2. Told(o)' <=> Told(o)
          BY <3>1, <3>3, <3>4 DEF Told, Answers
        <4> QED BY <2>6, <3>2, <4>1, <4>2
      <3>5. CASE m.order = o /\ m.to[1] # c[1]
        <4>1. m.kind = "invalid"
          BY <2>1, <3>1, <3>5 DEF Answers
        <4>2. Told(o)' <=> Told(o)
          BY <3>3, <4>1 DEF Told
        <4>3. verdict'[c[1]][o] = verdict[c[1]][o]
          <5>1. \/ verdict' = verdict
                \/ verdict' = [verdict EXCEPT ![m.to[1]][m.order] = VerdictOf(m.kind)]
            BY <2>12 DEF Writes
          <5> QED BY <1>a, <2>2, <3>1, <3>5, <5>1
        <4> QED BY <2>6, <3>2, <4>2, <4>3
      <3>6. CASE m.order = o /\ m.to[1] = c[1]
        <4>1. m.kind # "invalid"
          BY <2>1, <2>2, <3>1, <3>6 DEF HadFor
        <4>2. CASE m.kind = "reject"
          <5>1. mState'[o] = "rejected"
            BY <3>1, <3>2, <3>6, <4>2
          <5>2. \/ verdict' = verdict
                \/ verdict' = [verdict EXCEPT ![m.to[1]][m.order] = VerdictOf(m.kind)]
            BY <2>12 DEF Writes
          <5>3. verdict'[c[1]][o] # "accepted"
            BY <1>a, <2>2, <3>1, <3>6, <4>2, <5>2 DEF VerdictOf
          <5> QED BY <5>1, <5>3
        <4>3. CASE m.kind = "confirm"
          <5>1. mState'[o] = "incoming" /\ accepting \in Accepts
            BY <1>a, <3>1, <3>2, <3>6, <4>3 DEF AcceptPending
          <5>2. CASE /\ verdict' = [verdict EXCEPT ![m.to[1]][m.order] = VerdictOf(m.kind)]
                     /\ accepting' = [accepting EXCEPT !.reply = "ok"]
            <6>1. verdict'[c[1]][o] = "accepted"
              BY <1>a, <2>2, <3>6, <4>3, <5>2 DEF VerdictOf
            <6>2. accepting'.reply = "ok"
              BY <5>1, <5>2 DEF Accepts
            <6>3. Told(o)'
              BY <3>1, <3>3, <3>6, <4>3, <6>2 DEF Told
            <6> QED BY <5>1, <6>1, <6>3
          <5>3. CASE verdict' = verdict /\ accepting' = [accepting EXCEPT !.reply = "err"]
            <6>1. accepting'.reply = "err"
              BY <5>1, <5>3 DEF Accepts
            <6>2. ~Told(o)'
              BY <6>1 DEF Told
            <6>3. ~Told(o)
              BY <3>1, <4>3 DEF Told
            <6> QED BY <2>6, <3>2, <5>3, <6>2, <6>3
          <5> QED BY <2>12, <4>3, <5>2, <5>3 DEF Writes
        <4> QED BY <3>1, <4>1, <4>2, <4>3 DEF Answers
      <3> QED BY <3>4, <3>5, <3>6
    <2>13. CASE UNCHANGED <<mState, accepting, verdict>>
      <3>1. Told(o)' <=> Told(o)
        BY <2>13 DEF Told
      <3> QED BY <2>6, <2>13, <3>1
    <2> QED
      BY <2>7, <2>8, <2>9, <2>10, <2>11, <2>12, <2>13
         DEF Shapes, Quiet, TakerStarts, TakerSetupCompleted, Learns, TakeOffer, makerVars
  <1> QED BY <1>1, <1>2

(* An answer that stays in the mailbox keeps what is known of it.          *)
LEMMA FitsKept ==
    ASSUME IInv, Asked, Answering, Deciding, Learning, Learnt, SettingUp, Shapes,
           ~MakerRestarts, NEW j \in 1..Len(connMail), NEW m \in Messages,
           m = connMail[j], IsAnswer(m), (\E w \in Messages : Writes(w)) => j # 1
    PROVE  Fits(m)'
  <1> USE DEF takerVars, makerVars
  <1>a. /\ mState \in [Orders -> States \ {"outgoing"}]
        /\ who \in [Orders -> Conns \cup {None}]
        /\ verdict \in [Takers -> [Orders -> {"none", "accepted", "refused"}]]
        /\ accepting \in Accepts \cup {None} /\ mSetup \in Setups \cup {None}
        /\ AcceptPending /\ MakerSetupRuns /\ ConfirmAwaited
    BY DEF IInv, TypeOK
  <1>b. /\ m.to \in Conns /\ m.order \in Orders /\ m.kind \in Answers
        /\ m.to[1] \in Takers /\ m.to # None
    BY AnswerType, NoneAssumption DEF Conns
  <1>c. Fits(m)
    BY DEF Answering, Fits
  <1>d. \A i \in 1..Len(connMail) :
           IsAnswer(connMail[i]) /\ connMail[i].to[1] = m.to[1] /\ connMail[i].order = m.order
           => i = j
    BY DEF Answering
  <1>1. verdict'[m.to[1]][m.order] = "none"
    <2>1. SUFFICES ASSUME verdict'[m.to[1]][m.order] # verdict[m.to[1]][m.order] PROVE FALSE
      BY <1>c DEF Fits
    <2>2. PICK w \in Messages : Writes(w) /\ w.to[1] = m.to[1] /\ w.order = m.order
      BY <1>b, <2>1, VerdictSteps
    <2>3. 1 \in 1..Len(connMail) /\ connMail[1] = w /\ IsAnswer(w)
      BY <2>2, FirstAnswer DEF Writes
    <2>4. j = 1
      BY <1>d, <2>2, <2>3
    <2> QED BY <2>2, <2>4
  <1>2. Waits(m.to, m.order)'
    BY <1>b, <1>c, WaitsKept DEF Fits
  <1>3. /\ m.kind = "invalid" => ~HadFor(m.to[1], m.order)'
        /\ m.kind \in {"reject", "confirm"} => who'[m.order] = m.to
    <2>1. CASE who'[m.order] = who[m.order]
      BY <1>c, <2>1 DEF Fits, HadFor
    <2>2. CASE who'[m.order] # who[m.order]
      <3>1. who[m.order] = None
        BY <1>b, <2>2, WhoSteps
      <3>2. PICK c \in Conns : /\ TakesWrongly(c, m.order) \/ TakesIt(c, m.order)
                               /\ who' = [who EXCEPT ![m.order] = c]
        BY <1>b, <2>2, WhoSteps
      <3>3. m.to[1] # c[1]
        BY <1>b, <3>2, FirstRequest DEF TakesWrongly, TakesIt
      <3>4. who'[m.order] = c
        BY <1>a, <1>b, <3>2
      <3> QED BY <1>b, <1>c, <3>1, <3>3, <3>4 DEF Fits, HadFor
    <2> QED BY <2>1, <2>2
  <1>4. mState[m.order] = "rejected" => mState'[m.order] = "rejected"
    <2> HAVE mState[m.order] = "rejected"
    <2>1. CASE UNCHANGED mState
      BY <2>1
    <2>2. CASE AcceptContinues
      <3>1. accepting # None /\ mState[accepting.order] = "incoming"
        BY <1>a, <2>2 DEF AcceptContinues, Idle, AcceptPending
      <3>2. mState' = mState \/ mState' = [mState EXCEPT ![accepting.order] = "setup"]
        BY <2>2 DEF AcceptContinues
      <3> QED BY <1>a, <1>b, <3>1, <3>2
    <2>3. CASE MakerSetupCompleted
      <3>1. mSetup # None /\ mSetup.order \in Orders
        BY <1>a, <2>3 DEF MakerSetupCompleted, Setups
      <3>2. mState[mSetup.order] = "setup"
        BY <1>a, <3>1 DEF MakerSetupRuns
      <3>3. mState' = [mState EXCEPT ![mSetup.order] = Concluded(mSetup.outcome)]
        BY <2>3 DEF MakerSetupCompleted
      <3> QED BY <1>a, <1>b, <3>2, <3>3
    <2>4. ASSUME NEW p \in Orders, NEW w \in Messages, Decides(p, w)
          PROVE  mState'[m.order] = "rejected"
      BY <1>a, <1>b, <2>4 DEF Decides
    <2>5. ASSUME NEW c \in Conns, NEW p \in Orders, TakesWrongly(c, p) \/ TakesIt(c, p)
          PROVE  mState'[m.order] = "rejected"
      <3>1. mState[p] = "none" /\ \E s : mState' = [mState EXCEPT ![p] = s]
        BY <2>5 DEF TakesWrongly, TakesIt, Gets
      <3> QED BY <1>a, <1>b, <3>1
    <2> QED BY <2>1, <2>2, <2>3, <2>4, <2>5
            DEF Shapes, Quiet, TakesNot, Writes, TakerStarts, TakerSetupCompleted,
                Learns, TakeOffer
  <1>5. m.kind = "confirm" => UNCHANGED accepting
    <2> HAVE m.kind = "confirm"
    <2>1. accepting # None /\ accepting.reply = "waiting"
      BY <1>c DEF Fits
    <2>2. ASSUME NEW w \in Messages, Writes(w) PROVE UNCHANGED accepting
      <3>1. 1 \in 1..Len(connMail) /\ connMail[1] = w
        BY <2>2, FirstAnswer
      <3>2. w.kind # "confirm"
        BY <1>a, <2>2, <3>1 DEF ConfirmAwaited
      <3> QED BY <2>2, <3>2 DEF Writes
    <2> QED BY <2>1, <2>2
            DEF Shapes, Quiet, AcceptContinues, MakerSetupCompleted, Decides, TakesNot,
                TakesWrongly, TakesIt, Takes, TakerStarts, TakerSetupCompleted, Learns,
                TakeOffer
  <1> QED BY <1>b, <1>c, <1>1, <1>2, <1>3, <1>4, <1>5 DEF Fits, Answers

(* The answers of the next mailbox: old ones only, or m behind them.       *)
LEMMA MailSteps ==
    ASSUME IInv, Asked, Answering, Deciding, Learning, Learnt, SettingUp, Shapes,
           ~MakerRestarts
    PROVE  \/ Older(connMail', connMail, 0)
           \/ Older(connMail', connMail, 1)
           \/ \E m \in Messages :
                 /\ Newer(connMail', connMail, m) /\ Fits(m)' /\ Fresh(m.to, m.order)
                 /\ m.order \in Orders /\ m.to \in Conns
                 /\ \/ HadFor(m.to[1], m.order)
                    \/ Takes(m.to, m.order)
  <1> USE DEF takerVars, makerVars
  <1> DEFINE G == \/ Older(connMail', connMail, 0)
                  \/ Older(connMail', connMail, 1)
                         \/ \E m \in Messages :
                        /\ Newer(connMail', connMail, m) /\ Fits(m)' /\ Fresh(m.to, m.order)
                        /\ m.order \in Orders /\ m.to \in Conns
                        /\ \/ HadFor(m.to[1], m.order)
                           \/ Takes(m.to, m.order)
  <1> SUFFICES G
    OBVIOUS
  <1>a. connMail \in Seq(Messages) /\ Older(connMail, connMail, 0)
    BY OlderSame DEF IInv, TypeOK
  <1>b. /\ mState \in [Orders -> States \ {"outgoing"}]
        /\ who \in [Orders -> Conns \cup {None}]
    BY DEF IInv, TypeOK
  <1>1. CASE UNCHANGED connMail
    BY <1>a, <1>1
  <1>2. CASE OldMail
    BY <1>2 DEF OldMail
  <1>3. ASSUME NEW m \in Messages, Writes(m) PROVE G
    BY <1>3, FirstAnswer
  <1>4. ASSUME NEW t \in Takers, TakerStarts(t) PROVE G
    <2> DEFINE m == Message("new", <<t, sess[t] + 1>>, None)
    <2>1. m \in Messages
      BY <1>4, SessionAssumption DEF TakerStarts, IInv, TypeOK, Message, Messages, Conns
    <2>a. connMail' = Append(connMail, m)
      BY <1>4 DEF TakerStarts
    <2>2. connMail' = connMail \o <<m>> /\ <<m>> \in Seq(Messages)
      <3> HIDE DEF m
      <3> QED BY <1>a, <2>1, <2>a, AppendElement
    <2>3. \A i \in 1..Len(<<m>>) : ~IsAnswer(<<m>>[i])
      BY DEF Message, IsAnswer, Answers
    <2>4. Older(connMail', connMail, 0)
      BY <1>a, <2>2, <2>3, OlderConcat
    <2> QED BY <2>4
  <1>5. ASSUME NEW o \in Orders, NEW m \in Messages, Decides(o, m) PROVE G
    <2>1. mState[o] = "incoming" /\ accepting = None
      BY <1>5 DEF Decides
    <2>2. PICK c \in Conns : who[o] = c
      BY <1>b, <2>1 DEF IInv, WhoKnown
    <2>3. c[1] \in Takers /\ c # None
      BY NoneAssumption DEF Conns
    <2>4. /\ m.to = c /\ m.order = o
          /\ m.kind = "reject" \/ m.kind = "confirm"
      BY <1>5, <2>2 DEF Decides, Message
    <2>5. HadFor(c[1], o)
      BY <2>2, <2>3 DEF HadFor
    <2>6. verdict[c[1]][o] = "none" /\ Waits(c, o)
      BY <2>1, <2>2, <2>3 DEF Deciding, Told
    <2>7. Waits(c, o)' /\ UNCHANGED <<who, verdict>>
      BY <1>5, <2>6, WaitsKept DEF Decides
    <2>8. Fits(m)'
      <3>1. CASE m.kind = "reject"
        <4>1. mState' = [mState EXCEPT ![o] = "rejected"]
          BY <1>5, <3>1 DEF Decides, Message
        <4>2. mState'[o] = "rejected"
          BY <1>b, <4>1
        <4> QED BY <2>2, <2>4, <2>6, <2>7, <3>1, <4>2 DEF Fits
      <3>2. CASE m.kind = "confirm"
        <4>1. accepting' = [order |-> o, reply |-> "waiting"]
          BY <1>5, <3>2 DEF Decides, Message
        <4>2. accepting' \in Accepts
          BY <4>1 DEF Accepts
        <4>3. accepting' # None
          BY <4>2, NoneAssumption
        <4>4. accepting'.order = o /\ accepting'.reply = "waiting"
          BY <4>1
        <4> QED BY <2>2, <2>4, <2>6, <2>7, <3>2, <4>3, <4>4 DEF Fits
      <3> QED BY <2>4, <3>1, <3>2
    <2>9. Fresh(c, o)
      <3>1. ASSUME NEW j \in 1..Len(connMail), IsAnswer(connMail[j]),
                   connMail[j].order = o, connMail[j].to[1] = c[1]
            PROVE  FALSE
        <4>1. PICK w \in Messages : w = connMail[j]
          BY <1>a
        <4>2. /\ w.kind = "invalid" => ~HadFor(c[1], o)
              /\ w.kind = "reject" => mState[o] = "rejected"
              /\ w.kind = "confirm" => accepting # None
          BY <3>1, <4>1 DEF Answering, Fits
        <4> QED BY <2>1, <2>5, <3>1, <4>1, <4>2 DEF IsAnswer, Answers
      <3> QED BY <3>1 DEF Fresh
    <2>10. Newer(connMail', connMail, m)
      BY <1>5 DEF Decides
    <2> QED BY <2>4, <2>5, <2>8, <2>9, <2>10
  <1>6. ASSUME NEW c \in Conns, NEW o \in Orders, TakesNot(c, o) PROVE G
    <2>1. PICK m \in Messages : m = Message("invalid", c, o)
      BY DEF Message, Messages, Answers
    <2>2. m.to = c /\ m.order = o /\ m.kind = "invalid"
      BY <2>1 DEF Message
    <2>a. Takes(c, o) /\ UNCHANGED who /\ Newer(connMail', connMail, m)
      BY <1>6, <2>1 DEF TakesNot
    <2>b. UNCHANGED verdict
      BY <2>a DEF Takes
    <2>c. verdict[c[1]][o] = "none" /\ Waits(c, o) /\ ~HadFor(c[1], o) /\ Fresh(c, o)
      BY <2>a, FirstRequest DEF Fresh
    <2>3. /\ Takes(c, o) /\ UNCHANGED <<who, verdict>> /\ Newer(connMail', connMail, m)
          /\ verdict[c[1]][o] = "none" /\ Waits(c, o) /\ ~HadFor(c[1], o) /\ Fresh(c, o)
      BY <2>a, <2>b, <2>c
    <2>4. Waits(c, o)'
      BY <2>3, WaitsKept
    <2>5. Fits(m)'
      BY <2>2, <2>3, <2>4 DEF Fits, HadFor
    <2> QED BY <2>2, <2>3, <2>5
  <1>7. ASSUME NEW c \in Conns, NEW o \in Orders, TakesWrongly(c, o) PROVE G
    <2>1. PICK m \in Messages : m = Message("reject", c, o)
      BY DEF Message, Messages, Answers
    <2>2. m.to = c /\ m.order = o /\ m.kind = "reject"
      BY <2>1 DEF Message
    <2>a. Takes(c, o) /\ Newer(connMail', connMail, m)
      BY <1>7, <2>1 DEF TakesWrongly
    <2>b. UNCHANGED verdict
      BY <2>a DEF Takes
    <2>c. verdict[c[1]][o] = "none" /\ Waits(c, o) /\ Fresh(c, o)
      BY <2>a, FirstRequest DEF Fresh
    <2>3. /\ Takes(c, o) /\ UNCHANGED verdict /\ Newer(connMail', connMail, m)
          /\ verdict[c[1]][o] = "none" /\ Waits(c, o) /\ Fresh(c, o)
      BY <2>a, <2>b, <2>c
    <2>4. Waits(c, o)'
      BY <2>3, WaitsKept
    <2>5. who'[o] = c /\ mState'[o] = "rejected"
      BY <1>7, <1>b DEF TakesWrongly, Gets
    <2>6. Fits(m)'
      BY <2>2, <2>3, <2>4, <2>5 DEF Fits
    <2> QED BY <2>2, <2>3, <2>6
  <1> QED
    BY <1>1, <1>2, <1>3, <1>4, <1>5, <1>6, <1>7
       DEF Shapes, Quiet, TakesIt, AcceptContinues, MakerSetupCompleted, TakerSetupCompleted,
           Learns, TakeOffer, connVars

LEMMA NextAnswering ==
    ASSUME IInv, TypeOK', Asked, Answering, Deciding, Learning, Learnt, SettingUp, Shapes
    PROVE  Answering'
  <1>a. connMail \in Seq(Messages) /\ connMail' \in Seq(Messages)
    BY DEF IInv, TypeOK
  <1>0. SUFFICES ASSUME NEW i \in 1..Len(connMail'), NEW m \in Messages,
                        m = connMail'[i], IsAnswer(m)
                 PROVE  /\ Fits(m)'
                        /\ \A j \in 1..Len(connMail') :
                              IsAnswer(connMail'[j]) /\ connMail'[j].to[1] = m.to[1]
                              /\ connMail'[j].order = m.order => j = i
    BY DEF Answering
  <1>b. ~MakerRestarts
    BY <1>0 DEF MakerRestarts
  <1>1. ASSUME NEW n \in {0, 1}, Older(connMail', connMail, n),
               (\E w \in Messages : Writes(w)) => n = 1
        PROVE  /\ Fits(m)'
               /\ \A j \in 1..Len(connMail') :
                     IsAnswer(connMail'[j]) /\ connMail'[j].to[1] = m.to[1]
                     /\ connMail'[j].order = m.order => j = i
    <2>1. i + n \in 1..Len(connMail) /\ m = connMail[i + n]
      BY <1>0, <1>1 DEF Older
    <2>2. (\E w \in Messages : Writes(w)) => i + n # 1
      BY <1>0, <1>1
    <2>3. Fits(m)'
      BY <1>0, <1>b, <2>1, <2>2, FitsKept
    <2>4. ASSUME NEW j \in 1..Len(connMail'), IsAnswer(connMail'[j]),
                 connMail'[j].to[1] = m.to[1], connMail'[j].order = m.order
          PROVE  j = i
      <3>1. j + n \in 1..Len(connMail) /\ connMail'[j] = connMail[j + n]
        BY <1>1, <2>4 DEF Older
      <3>2. j + n = i + n
        BY <1>0, <2>1, <2>4, <3>1 DEF Answering
      <3> QED BY <3>2
    <2> QED BY <2>3, <2>4
  <1>2. CASE \E w \in Messages : Writes(w)
    <2>1. Older(connMail', connMail, 1)
      BY <1>2, FirstAnswer
    <2> QED BY <1>1, <2>1
  <1>3. ASSUME ~\E w \in Messages : Writes(w), NEW a \in Messages,
               Newer(connMail', connMail, a), Fits(a)', Fresh(a.to, a.order)
        PROVE  /\ Fits(m)'
               /\ \A j \in 1..Len(connMail') :
                     IsAnswer(connMail'[j]) /\ connMail'[j].to[1] = m.to[1]
                     /\ connMail'[j].order = m.order => j = i
    <2>0. Len(connMail) \in Nat
      BY <1>a
    <2>1. CASE i \in 1..Len(connMail) /\ m = connMail[i]
      <3>1. Fits(m)'
        BY <1>0, <1>3, <1>b, <2>1, FitsKept
      <3>2. ASSUME NEW j \in 1..Len(connMail'), IsAnswer(connMail'[j]),
                   connMail'[j].to[1] = m.to[1], connMail'[j].order = m.order
            PROVE  j = i
        <4>1. CASE j \in 1..Len(connMail) /\ connMail'[j] = connMail[j]
          BY <1>0, <2>1, <3>2, <4>1 DEF Answering
        <4>2. CASE j = Len(connMail) + 1 /\ connMail'[j] = a
          BY <1>0, <1>3, <2>1, <3>2, <4>2 DEF Fresh
        <4> QED BY <1>3, <3>2, <4>1, <4>2 DEF Newer
      <3> QED BY <3>1, <3>2
    <2>2. CASE i = Len(connMail) + 1 /\ m = a
      <3>1. ASSUME NEW j \in 1..Len(connMail'), IsAnswer(connMail'[j]),
                   connMail'[j].to[1] = m.to[1], connMail'[j].order = m.order
            PROVE  j = i
        <4>1. ~(j \in 1..Len(connMail) /\ connMail'[j] = connMail[j])
          BY <1>3, <2>2, <3>1 DEF Fresh
        <4> QED BY <1>3, <2>2, <3>1, <4>1 DEF Newer
      <3> QED BY <1>3, <2>2, <3>1
    <2> QED BY <1>0, <1>3, <2>1, <2>2 DEF Newer
  <1>4. CASE ~\E w \in Messages : Writes(w)
    <2>1. \/ \E n \in {0, 1} : Older(connMail', connMail, n)
          \/ \E a \in Messages :
                Newer(connMail', connMail, a) /\ Fits(a)' /\ Fresh(a.to, a.order)
      BY <1>b, MailSteps
    <2> QED BY <1>1, <1>3, <1>4, <2>1
  <1> QED BY <1>2, <1>4

(* A request that stays on the wire keeps what is known of it.             *)
LEMMA RequestKept ==
    ASSUME IInv, Asked, Answering, Deciding, Learning, Learnt, SettingUp, Shapes,
           ~MakerRestarts, NEW c \in Conns, NEW k \in 1..Len(up[c]), NEW o \in Orders,
           up[c][k] = o,
           \A d \in Conns, p \in Orders : Takes(d, p) => ~(d[1] = c[1] /\ p = o)
    PROVE  /\ verdict'[c[1]][o] = "none" /\ Waits(c, o)' /\ ~HadFor(c[1], o)'
           /\ Fresh(c, o)'
  <1>a. /\ verdict[c[1]][o] = "none" /\ Waits(c, o) /\ ~HadFor(c[1], o) /\ Fresh(c, o)
        /\ c[1] \in Takers
    BY DEF Asked, Fresh, Conns
  <1>1. verdict'[c[1]][o] = "none"
    <2>1. SUFFICES ASSUME verdict'[c[1]][o] # verdict[c[1]][o] PROVE FALSE
      BY <1>a
    <2>2. PICK w \in Messages : Writes(w) /\ w.to[1] = c[1] /\ w.order = o
      BY <1>a, <2>1, VerdictSteps
    <2>3. 1 \in 1..Len(connMail) /\ connMail[1] = w /\ IsAnswer(w)
      BY <2>2, FirstAnswer DEF Writes
    <2> QED BY <1>a, <2>2, <2>3 DEF Fresh
  <1>2. Waits(c, o)'
    BY <1>a, WaitsKept
  <1>3. ~HadFor(c[1], o)'
    <2>1. CASE who'[o] = who[o]
      BY <1>a, <2>1 DEF HadFor
    <2>2. CASE who'[o] # who[o]
      <3>1. PICK d \in Conns : /\ TakesWrongly(d, o) \/ TakesIt(d, o)
                               /\ who' = [who EXCEPT ![o] = d]
        BY <2>2, WhoSteps
      <3>2. d[1] # c[1]
        BY <3>1 DEF TakesWrongly, TakesIt
      <3>3. who'[o] = d
        BY <3>1 DEF IInv, TypeOK
      <3> QED BY <3>2, <3>3 DEF HadFor
    <2> QED BY <2>1, <2>2
  <1>4. Fresh(c, o)'
    <2>1. SUFFICES ASSUME NEW j \in 1..Len(connMail'), IsAnswer(connMail'[j]),
                          connMail'[j].order = o, connMail'[j].to[1] = c[1]
                   PROVE  FALSE
      BY DEF Fresh
    <2>2. CASE \E h \in 1..Len(connMail) : connMail'[j] = connMail[h]
      BY <1>a, <2>1, <2>2 DEF Fresh
    <2>3. ASSUME NEW m \in Messages, connMail'[j] = m,
                 HadFor(m.to[1], m.order) \/ Takes(m.to, m.order), m.to \in Conns
          PROVE  FALSE
      BY <1>a, <2>1, <2>3
    <2> QED BY <2>1, <2>2, <2>3, MailSteps DEF Older, Newer
  <1> QED BY <1>1, <1>2, <1>3, <1>4

LEMMA NextAsked ==
    ASSUME IInv, TypeOK', Asked, Answering, Deciding, Learning, Learnt, SettingUp, Shapes
    PROVE  Asked'
  <1> USE DEF takerVars, makerVars
  <1>a. /\ up \in [Conns -> Seq(Orders)] /\ up' \in [Conns -> Seq(Orders)]
        /\ tState \in [Takers -> [Orders -> States \ {"incoming"}]]
        /\ sess \in [Takers -> 0..MaxSessions]
    BY DEF IInv, TypeOK
  <1> DEFINE Alone(c, i, o) ==
        \A d \in Conns : \A j \in 1..Len(up'[d]) :
           d[1] = c[1] /\ up'[d][j] = o => d = c /\ j = i
  <1>0. SUFFICES ASSUME NEW c \in Conns, NEW i \in 1..Len(up'[c]), NEW o \in Orders,
                        o = up'[c][i]
                 PROVE  /\ verdict'[c[1]][o] = "none" /\ Waits(c, o)' /\ ~HadFor(c[1], o)'
                        /\ Fresh(c, o)' /\ Alone(c, i, o)
    BY DEF Asked
  <1> DEFINE G == /\ verdict'[c[1]][o] = "none" /\ Waits(c, o)' /\ ~HadFor(c[1], o)'
                  /\ Fresh(c, o)' /\ Alone(c, i, o)
  <1>b. ~MakerRestarts
    <2>1. MakerRestarts => up'[c] = <<>>
      BY DEF MakerRestarts
    <2> QED BY <2>1, <1>0
  <1>c. c[1] \in Takers
    BY DEF Conns
  <1>1. CASE UNCHANGED up
    <2>1. i \in 1..Len(up[c]) /\ up[c][i] = o
      BY <1>0, <1>1
    <2>2. Alone(c, i, o)
      BY <1>0, <1>1, <2>1 DEF Asked
    <2>3. ASSUME NEW d \in Conns, NEW p \in Orders, Takes(d, p) PROVE FALSE
      <3>1. up[d] \in Seq(Orders) /\ up[d] # <<>> /\ up'[d] = Tail(up[d])
        BY <1>a, <2>3 DEF Takes
      <3>2. Len(up'[d]) = Len(up[d]) - 1 /\ Len(up[d]) \in Nat
        BY <3>1, TailElements
      <3> QED BY <1>1, <3>2
    <2>4. /\ verdict'[c[1]][o] = "none" /\ Waits(c, o)' /\ ~HadFor(c[1], o)'
          /\ Fresh(c, o)'
      BY <1>b, <2>1, <2>3, RequestKept
    <2> QED BY <2>2, <2>4
  <1>2. ASSUME NEW d \in Conns, NEW p \in Orders, Takes(d, p) PROVE G
    <2>1. \A e \in Conns : \A j \in 1..Len(up'[e]) :
             /\ \/ e = d /\ j + 1 \in 1..Len(up[e]) /\ up'[e][j] = up[e][j + 1]
                \/ e # d /\ j \in 1..Len(up[e]) /\ up'[e][j] = up[e][j]
             /\ ~(e[1] = d[1] /\ up'[e][j] = p)
      BY <1>2, FirstRequest
    <2>2. PICK k \in 1..Len(up[c]) : up[c][k] = o /\ k = IF c = d THEN i + 1 ELSE i
      BY <1>0, <2>1
    <2>3. ASSUME NEW e \in Conns, NEW q \in Orders, Takes(e, q)
          PROVE  ~(e[1] = c[1] /\ q = o)
      <3>1. \A f \in Conns : \A j \in 1..Len(up'[f]) : ~(f[1] = e[1] /\ up'[f][j] = q)
        BY <2>3, FirstRequest
      <3> QED BY <1>0, <3>1
    <2>4. Alone(c, i, o)
      <3>1. SUFFICES ASSUME NEW e \in Conns, NEW j \in 1..Len(up'[e]),
                            e[1] = c[1], up'[e][j] = o
                     PROVE  e = c /\ j = i
        BY <1>0
      <3>2. PICK h \in 1..Len(up[e]) : up[e][h] = o /\ h = IF e = d THEN j + 1 ELSE j
        BY <3>1, <2>1
      <3>3. e = c /\ h = k
        BY <2>2, <3>1, <3>2 DEF Asked
      <3> QED BY <2>2, <3>2, <3>3
    <2>5. /\ verdict'[c[1]][o] = "none" /\ Waits(c, o)' /\ ~HadFor(c[1], o)'
          /\ Fresh(c, o)'
      BY <1>b, <2>2, <2>3, RequestKept
    <2> QED BY <2>4, <2>5
  <1>3. ASSUME NEW t \in Takers, NEW p \in Orders, TakeOffer(t, p), up' # up PROVE G
    <2>1. /\ tState[t][p] = "none" /\ tState' = [tState EXCEPT ![t][p] = "outgoing"]
          /\ up' = [up EXCEPT ![Own(t)] = Append(@, p)]
          /\ UNCHANGED <<who, mState, connMail, sess, verdict>> /\ Online(t)
      BY <1>3 DEF TakeOffer, connVars
    <2>2. PICK d \in Conns : d = Own(t)
      BY <2>1, <1>a, SessionAssumption DEF Online, Own, Conns
    <2>3. d[1] = t /\ d[2] = sess[t]
      BY <2>2 DEF Own
    <2>4. /\ up'[d] = Append(up[d], p) /\ up[d] \in Seq(Orders)
          /\ \A e \in Conns : e # d => up'[e] = up[e]
      BY <1>a, <2>1, <2>2
    <2>5. \A e \in Conns : \A j \in 1..Len(up'[e]) :
             \/ j \in 1..Len(up[e]) /\ up'[e][j] = up[e][j]
             \/ e = d /\ j = Len(up[d]) + 1 /\ up'[e][j] = p
      BY <2>4
    <2>6. \A e \in Conns : \A j \in 1..Len(up[e]) : ~(e[1] = t /\ up[e][j] = p)
      BY <2>1 DEF Asked, Waits
    <2>7. ASSUME NEW e \in Conns, NEW q \in Orders, Takes(e, q) PROVE FALSE
      <3>1. up[e] \in Seq(Orders) /\ up[e] # <<>> /\ up'[e] = Tail(up[e])
        BY <1>a, <2>7 DEF Takes
      <3>2. Len(up'[e]) = Len(up[e]) - 1 /\ Len(up[e]) \in Nat
        BY <3>1, TailElements
      <3>a. Len(Append(up[d], p)) = Len(up[d]) + 1 /\ Len(up[d]) \in Nat
        BY <2>4
      <3>3. Len(up'[e]) >= Len(up[e])
        BY <2>4, <3>2, <3>a
      <3> QED BY <3>2, <3>3
    <2>8. CASE i \in 1..Len(up[c]) /\ o = up[c][i]
      <3>1. Alone(c, i, o)
        <4>1. SUFFICES ASSUME NEW e \in Conns, NEW j \in 1..Len(up'[e]),
                              e[1] = c[1], up'[e][j] = o
                       PROVE  e = c /\ j = i
          BY <1>0
        <4>2. j \in 1..Len(up[e]) /\ up'[e][j] = up[e][j]
          BY <2>3, <2>5, <2>6, <2>8, <4>1
        <4>3. \A h \in 1..Len(up[e]) :
                 e[1] = c[1] /\ up[e][h] = up[c][i] => e = c /\ h = i
          BY <2>8 DEF Asked
        <4>4. up[e][j] = up[c][i] /\ j \in 1..Len(up[e])
          BY <2>8, <4>1, <4>2
        <4> QED BY <4>1, <4>3, <4>4
      <3>2. /\ verdict'[c[1]][o] = "none" /\ Waits(c, o)' /\ ~HadFor(c[1], o)'
            /\ Fresh(c, o)'
        BY <1>b, <2>7, <2>8, RequestKept
      <3> QED BY <3>1, <3>2
    <2>9. CASE c = d /\ i = Len(up[d]) + 1 /\ o = p
      <3>1. verdict'[c[1]][o] = "none"
        BY <1>c, <2>1, <2>3, <2>9 DEF Learnt
      <3>2. Waits(c, o)'
        <4>1. tState'[t][p] = "outgoing"
          BY <1>a, <2>1
        <4> QED BY <2>1, <2>3, <2>9, <4>1 DEF Waits
      <3>3. ~HadFor(c[1], o)'
        BY <2>1, <2>3, <2>9 DEF HadFor, Deciding
      <3>4. Fresh(c, o)'
        <4>1. ASSUME NEW j \in 1..Len(connMail), IsAnswer(connMail[j]),
                     connMail[j].order = o, connMail[j].to[1] = c[1]
              PROVE  FALSE
          <5>1. PICK m \in Messages : m = connMail[j]
            <6>1. connMail \in Seq(Messages)
              BY DEF IInv, TypeOK
            <6> QED BY <6>1
          <5>2. Waits(m.to, o)
            BY <4>1, <5>1 DEF Answering, Fits
          <5> QED BY <2>1, <2>3, <2>9, <4>1, <5>1, <5>2 DEF Waits
        <4> QED BY <2>1, <4>1 DEF Fresh
      <3>5. Alone(c, i, o)
        <4>1. SUFFICES ASSUME NEW e \in Conns, NEW j \in 1..Len(up'[e]),
                              e[1] = c[1], up'[e][j] = o
                       PROVE  e = c /\ j = i
          BY <1>0
        <4>2. e = d /\ j = Len(up[d]) + 1
          BY <2>3, <2>5, <2>6, <2>9, <4>1
        <4> QED BY <2>9, <4>2
      <3> QED BY <3>1, <3>2, <3>3, <3>4, <3>5
    <2> QED BY <1>0, <2>5, <2>8, <2>9
  <1>4. ASSUME NEW t \in Takers, NEW p \in Orders, TakeOffer(t, p) PROVE G
    BY <1>1, <1>3, <1>4
  <1> QED
    BY <1>1, <1>2, <1>4, <1>b
       DEF Shapes, Quiet, AcceptContinues, MakerSetupCompleted, Decides, TakesNot,
           TakesWrongly, TakesIt, Writes, TakerStarts, TakerSetupCompleted, Learns

LEMMA InitAnswered == Init => Answered
  <1> SUFFICES ASSUME Init PROVE Answered
    OBVIOUS
  <1>1. /\ \A o \in Orders : who[o] = None /\ mState[o] = "none"
        /\ connMail = <<>> /\ \A c \in Conns : up[c] = <<>> /\ down[c] = <<>>
        /\ \A c \in Conns : link[c] = "unused"
        /\ \A t \in Takers : tSetup[t] = None
        /\ \A t \in Takers, o \in Orders : tState[t][o] = "none" /\ verdict[t][o] = "none"
    BY DEF Init
  <1>2. Asked /\ Answering /\ Learning
    BY <1>1 DEF Asked, Answering, Learning
  <1>3. Deciding /\ Accepted /\ Learnt /\ SettingUp /\ Live
    BY <1>1 DEF Deciding, Accepted, Learnt, SettingUp, Live
  <1> QED BY <1>2, <1>3 DEF Answered

LEMMA NextAnswered ==
    ASSUME IInv, TypeOK', Answered, [Next]_vars
    PROVE  Answered'
  <1>1. Shapes
    BY StepShapes
  <1>2. /\ Asked /\ Answering /\ Deciding /\ Accepted /\ Learning /\ Learnt
        /\ SettingUp /\ Live
    BY DEF Answered
  <1>3. Asked' /\ Answering' /\ Deciding'
    BY <1>1, <1>2, NextAsked, NextAnswering, NextDeciding
  <1>4. Accepted' /\ Learnt' /\ SettingUp'
    BY <1>1, <1>2, NextAccepted, NextLearnt, NextSettingUp
  <1>5. Learning' /\ Live'
    BY <1>1, <1>2, NextLearning, NextLive
  <1> QED BY <1>3, <1>4, <1>5 DEF Answered

(* Every request has one place: the wire, the maker, an answer on its way, *)
(* or the taker's CFD.                                                     *)
THEOREM AnswersOnce == Spec => [](IInv /\ Answered)
  <1>1. IInv /\ Answered /\ [Next]_vars => (IInv /\ Answered)'
    <2> SUFFICES ASSUME IInv, Answered, [Next]_vars PROVE (IInv /\ Answered)'
      OBVIOUS
    <2>1. IInv'
      BY NextTypeOK, NextConfirmAwaited, NextMakerInv DEF IInv
    <2>2. TypeOK'
      BY <2>1 DEF IInv
    <2> QED BY <2>1, <2>2, NextAnswered
  <1> QED BY InitInv, InitAnswered, <1>1, PTL DEF Spec

(* Maker and taker never hold opposite views of an order, through lost     *)
(* connections and restarts of either (handle_take_order, reject_order,    *)
(* handle_accept_order, handle_order_accepted, append_cfd_state_rejected). *)
THEOREM ViewsAgree == Spec => []VerdictsAgree
  <1>1. IInv /\ Answered => VerdictsAgree
    <2>1. SUFFICES ASSUME IInv, Answered, NEW t \in Takers, NEW o \in Orders
                   PROVE  /\ tState[t][o] \in {"setup", "open"} =>
                                /\ HadFor(t, o)
                                /\ \/ mState[o] \in {"setup", "open", "failed"}
                                   \/ mState[o] = "incoming" /\ ~Idle /\ accepting.order = o
                          /\ HadFor(t, o) /\ tState[t][o] = "rejected" => mState[o] = "rejected"
      BY DEF VerdictsAgree, HadFor
    <2>2. mState[o] \in States \ {"outgoing"} /\ verdict[t][o] \in {"none", "accepted", "refused"}
      BY <2>1 DEF IInv, TypeOK
    <2>3. /\ tState[t][o] \in {"setup", "open"} => verdict[t][o] = "accepted"
          /\ tState[t][o] = "rejected" => verdict[t][o] = "refused"
          /\ verdict[t][o] = "accepted" => HadFor(t, o)
      BY <2>1 DEF Answered, Learnt, Accepted
    <2>4. HadFor(t, o) =>
             /\ mState[o] # "none"
             /\ mState[o] = "incoming" /\ Told(o) => verdict[t][o] = "accepted"
             /\ mState[o] = "incoming" /\ ~Told(o) => verdict[t][o] = "none"
             /\ mState[o] \in {"setup", "open"} => verdict[t][o] = "accepted"
             /\ mState[o] = "rejected" => verdict[t][o] # "accepted"
             /\ mState[o] = "failed" => verdict[t][o] # "refused"
      BY <2>1 DEF Answered, Deciding, HadFor
    <2> QED BY <2>2, <2>3, <2>4 DEF Told, Idle, States
  <1> QED BY AnswersOnce, <1>1, PTL

-----------------------------------------------------------------------------
(* OrderTaking implements OrderDecision.                                   *)

LEMMA DecisionStep ==
    ASSUME IInv, Answered, [Next]_vars
    PROVE  [Decision!Next]_(Decision!vars)
  <1> USE DEF takerVars
  <1> DEFINE G == Decision!Next \/ UNCHANGED <<verdict, tState>>
  <1> SUFFICES G
    BY DEF Decision!vars
  <1>a. /\ tState \in [Takers -> [Orders -> States \ {"incoming"}]]
        /\ verdict \in [Takers -> [Orders -> {"none", "accepted", "refused"}]]
        /\ tSetup \in [Takers -> Setups \cup {None}]
    BY DEF IInv, TypeOK
  <1>b. Answering /\ Accepted /\ Learning /\ SettingUp
    BY DEF Answered
  <1>c. Shapes
    BY StepShapes
  <1>1. ASSUME NEW t \in Takers, TakerStarts(t) PROVE G
    <2>1. tState' = [tState EXCEPT ![t] = Housekeeping(tState[t])] /\ UNCHANGED verdict
      BY <1>1 DEF TakerStarts
    <2>2. Housekeeping(tState[t]) =
             [o \in Orders |-> IF tState[t][o] \in {"outgoing", "setup"} THEN "failed"
                               ELSE tState[t][o]]
      BY <1>a DEF Housekeeping, Unfinished
    <2>3. Decision!Restart(t)
      BY <2>1, <2>2 DEF Decision!Restart
    <2> QED BY <2>3 DEF Decision!Next
  <1>2. ASSUME NEW t \in Takers, NEW o \in Orders, TakeOffer(t, o) PROVE G
    <2>1. Decision!Take(t, o)
      BY <1>2 DEF TakeOffer, Decision!Take, Decision!Become
    <2> QED BY <2>1 DEF Decision!Next
  <1>3. ASSUME NEW m \in Messages, Writes(m) PROVE G
    <2>1. /\ m.to[1] \in Takers /\ m.order \in Orders /\ m.kind \in Answers
          /\ verdict[m.to[1]][m.order] = "none" /\ Waits(m.to, m.order)
          /\ m.kind = "confirm" => who[m.order] = m.to
      BY <1>3, <1>b, FirstAnswer
    <2>2. PICK t \in Takers, o \in Orders, v \in {"accepted", "refused"} :
             t = m.to[1] /\ o = m.order /\ v = VerdictOf(m.kind)
      BY <2>1 DEF VerdictOf
    <2>3. UNCHANGED tState /\ (verdict' = verdict \/ verdict' = [verdict EXCEPT ![t][o] = v])
      BY <1>3, <2>2 DEF Writes
    <2>4. v = "accepted" => \A u \in Takers : verdict[u][o] # "accepted"
      <3>1. ASSUME v = "accepted", NEW u \in Takers, verdict[u][o] = "accepted" PROVE FALSE
        <4>1. who[o][1] = u
          BY <1>b, <3>1 DEF Accepted, HadFor
        <4>2. m.kind = "confirm"
          BY <2>2, <3>1 DEF VerdictOf
        <4> QED BY <2>1, <2>2, <3>1, <4>1, <4>2
      <3> QED BY <3>1
    <2>5. verdict[t][o] = "none" /\ tState[t][o] # "none"
      BY <2>1, <2>2 DEF Waits
    <2>6. verdict' = [verdict EXCEPT ![t][o] = v] => Decision!Answer(t, o, v)
      BY <2>3, <2>4, <2>5 DEF Decision!Answer
    <2> QED BY <2>3, <2>6 DEF Decision!Next
  <1>4. ASSUME NEW t \in Takers, NEW o \in Orders, NEW k \in Answers, Learns(t, o, k)
        PROVE  G
    <2>1. tState[t][o] = "outgoing" /\ verdict[t][o] = VerdictOf(k)
      BY <1>4, <1>b, FirstAnswerDown
    <2>2. UNCHANGED verdict
      BY <1>4 DEF Learns
    <2>3. CASE k = "confirm" /\ tState' = [tState EXCEPT ![t][o] = "setup"]
      <3>1. Decision!Learn(t, o)
        BY <2>1, <2>2, <2>3 DEF Decision!Learn, Decision!Become, VerdictOf
      <3> QED BY <3>1 DEF Decision!Next
    <2>4. CASE k # "confirm" /\ tState' = [tState EXCEPT ![t][o] = "rejected"]
      <3>1. Decision!Learn(t, o)
        BY <2>1, <2>2, <2>4 DEF Decision!Learn, Decision!Become, VerdictOf
      <3> QED BY <3>1 DEF Decision!Next
    <2> QED BY <1>4, <2>2, <2>3, <2>4 DEF Learns
  <1>5. ASSUME NEW t \in Takers, TakerSetupCompleted(t) PROVE G
    <2>1. PICK o \in Orders : o = tSetup[t].order
      BY <1>5, <1>a DEF TakerSetupCompleted, Setups
    <2>2. tState[t][o] = "setup"
      BY <1>5, <1>b, <2>1 DEF TakerSetupCompleted, SettingUp
    <2>3. PICK s \in {"open", "failed"} : tState' = [tState EXCEPT ![t][o] = s]
      BY <1>5, <2>1 DEF TakerSetupCompleted, Concluded
    <2>4. UNCHANGED verdict
      BY <1>5 DEF TakerSetupCompleted
    <2>5. Decision!Conclude(t, o)
      BY <2>2, <2>3, <2>4 DEF Decision!Conclude, Decision!Become
    <2> QED BY <2>5 DEF Decision!Next
  <1> QED
    BY <1>c, <1>1, <1>2, <1>3, <1>4, <1>5
       DEF Shapes, Quiet, AcceptContinues, MakerSetupCompleted, MakerRestarts, Decides,
           TakesNot, TakesWrongly, TakesIt, Takes

(* What a taker is told and where its CFD goes is what OrderDecision says: *)
(* one answer, one taker accepted per order, no way out of a final state   *)
(* (handle_take_order, handle_accept_order, handle_order_accepted,         *)
(* append_cfd_state_rejected).                                             *)
THEOREM DecisionImplemented == Spec => DecisionRefined
  <1>1. Init => Decision!Init
    BY DEF Init, Decision!Init
  <1>2. IInv /\ Answered /\ [Next]_vars => [Decision!Next]_(Decision!vars)
    BY DecisionStep
  <1> QED BY <1>1, <1>2, AnswersOnce, PTL DEF Spec, DecisionRefined, Decision!Spec

-----------------------------------------------------------------------------
(* What a taker is shown, until a daemon stops.  The line of a taker of a  *)
(* first session is what it has still to be told: what is on the wire to   *)
(* it, then what the connection actor's mailbox holds for it, then the     *)
(* order on offer.  A place holds one order (or None), or nothing.         *)

Young == restarts = 0 /\ \A t \in Takers : sess[t] <= 1
First(t) == <<t, 1>>

Announced(m, c) ==
    IF m.kind \in {"current", "broadcast"} \/ (m.kind = "send" /\ m.to = c)
    THEN {m.order} ELSE {}

(* The line of c, from its wire q, the mailbox r and the order s.          *)
Places(q, r) == Len(q) + Len(r) + 1
News(q, r, c, s) ==
    [i \in 1..Places(q, r) |->
        IF i <= Len(q) THEN Announced(q[i], c)
        ELSE IF i < Places(q, r) THEN Announced(r[i - Len(q)], c)
        ELSE {s}]

(* An order is news in one stretch of the line only.                       *)
OneStretch(N, n) == \A i, j, k \in 1..n :
    i < k /\ k < j /\ N[i] = N[j] /\ N[i] # {} /\ N[i] # {None} /\ N[k] # {} => N[k] = N[i]

(* What is told last is what is on offer.                                  *)
LastIsOnOffer(N, n) == \A j \in 1..(n - 1) :
    N[j] # {} /\ (\A k \in (j + 1)..(n - 1) : N[k] = {}) => N[j] = N[n]

(* An order that the taker knows and is told again is told first.          *)
KnownFirst(N, n, K) == \A j, k \in 1..n : \A o \in K :
    k < j /\ N[j] = {o} /\ N[k] # {} => N[k] = N[j]

(* A taker is shown the order in s, or nothing once it has taken an order. *)
Sees(f, took, s) == {f} = s \/ (f = None /\ took)

(* ... and the order told again is the one it is shown.                    *)
KnownShown(N, n, K, f, took) == \A j \in 1..n : \A o \in K :
    N[j] = {o} => Sees(f, took, N[j])

NothingTold(N, n) == \A k \in 1..(n - 1) : N[k] = {}

(* A taker knows K and is shown f, took an order or not, and was told what *)
(* is on offer or not yet; P are the orders published.                     *)
InLine(N, n, K, f, took, told, P) ==
    /\ OneStretch(N, n) /\ LastIsOnOffer(N, n)
    /\ KnownFirst(N, n, K) /\ KnownShown(N, n, K, f, took)
    /\ told /\ NothingTold(N, n) => Sees(f, took, N[n])
    /\ ~told => K = {}
    /\ K \subseteq P /\ None \notin K
    /\ \A j \in 1..n : N[j] \subseteq P \cup {None}

Took(t)  == \E o \in Orders : tState[t][o] # "none"
Greeted(t) == link[First(t)] = "up" /\ greeting # First(t)

Shown(t) ==
    InLine(News(down[First(t)], connMail, First(t), current),
           Places(down[First(t)], connMail),
           known[t], feed[t], Took(t), Greeted(t), published)

(* A connection is new once.                                               *)
NewOnce ==
    /\ \A i \in 1..Len(connMail) : connMail[i].kind = "new" =>
          /\ link[connMail[i].to] = "pending"
          /\ connMail[i].to[2] <= sess[connMail[i].to[1]]
    /\ \A i, j \in 1..Len(connMail) :
          /\ connMail[i].kind = "new" /\ connMail[j].kind = "new"
          /\ connMail[i].to = connMail[j].to
          => i = j

Links == \A c \in Conns : link[c] \notin {"gone", "dead", "reset"}

Untold == \A t \in Takers : ~Greeted(t) => down[First(t)] = <<>>

Feeds == Young => NewOnce /\ Links /\ Untold /\ \A t \in Takers : Shown(t)

-----------------------------------------------------------------------------
(* What a line may become.                                                 *)

(* A place that holds nothing is put in; so is one that holds s, which is  *)
(* then on offer; the k-th place is taken out.                             *)
Inserts(N, n, M, m) ==
    m = n + 1 /\ (\A i \in 1..(n - 1) : M[i] = N[i]) /\ M[n] = {} /\ M[n + 1] = N[n]

Announces(N, n, M, m, s) ==
    m = n + 1 /\ (\A i \in 1..(n - 1) : M[i] = N[i]) /\ M[n] = {s} /\ M[n + 1] = {s}

(* What is on offer next: the same, none, or an order not yet published.   *)
Offers(N, n, s, P, Q) ==
    /\ N[n] # {} /\ ({s} = N[n] \/ s = None \/ s \notin P)
    /\ P \subseteq Q /\ s \in Q \cup {None}

Drops(N, n, M, m, k) ==
    m = n - 1 /\ (\A i \in 1..(k - 1) : M[i] = N[i]) /\ (\A i \in k..(n - 1) : M[i] = N[i + 1])

(* A taker told a knows and is shown L and g then.                         *)
After(a, K, f, L, g) ==
    \/ a = {} /\ L = K /\ g = f
    \/ \E o : /\ a = {o} /\ L = K \cup ({o} \ {None})
              /\ g = IF o \in K THEN f ELSE o

LEMMA LineInsert ==
    ASSUME NEW N, NEW n \in Nat \ {0}, NEW M, NEW m, NEW K, NEW f, NEW took \in BOOLEAN,
           NEW told \in BOOLEAN, NEW P, InLine(N, n, K, f, took, told, P),
           Inserts(N, n, M, m)
    PROVE  InLine(M, m, K, f, took, told, P)
  <1>m. m = n + 1
    BY DEF Inserts
  <1>s. SUFFICES InLine(M, n + 1, K, f, took, told, P)
    BY <1>m
  <1> USE DEF Inserts
  <1>1. OneStretch(M, n + 1)
    BY DEF InLine, OneStretch
  <1>2. LastIsOnOffer(M, n + 1)
    BY DEF InLine, LastIsOnOffer
  <1> DEFINE Old(i) == IF i = n + 1 THEN n ELSE i
  <1>a. /\ \A i \in 1..(n + 1) : M[i] # {} => Old(i) \in 1..n /\ M[i] = N[Old(i)]
        /\ \A i, j \in 1..(n + 1) : M[i] # {} /\ M[j] # {} /\ i < j => Old(i) < Old(j)
    OBVIOUS
  <1>3. KnownFirst(M, n + 1, K) /\ KnownShown(M, n + 1, K, f, took)
    <2> HIDE DEF Old
    <2>1. \A o : {o} # {}
      OBVIOUS
    <2>2. KnownFirst(M, n + 1, K)
      <3> SUFFICES ASSUME NEW j \in 1..(n + 1), NEW k \in 1..(n + 1), NEW o \in K,
                          k < j, M[j] = {o}, M[k] # {}
                   PROVE  M[k] = M[j]
        BY DEF KnownFirst
      <3>1. /\ Old(k) < Old(j) /\ Old(j) \in 1..n /\ Old(k) \in 1..n
            /\ N[Old(j)] = {o} /\ N[Old(k)] # {} /\ M[j] = N[Old(j)] /\ M[k] = N[Old(k)]
        BY <1>a, <2>1
      <3> QED BY <3>1 DEF InLine, KnownFirst
    <2>3. KnownShown(M, n + 1, K, f, took)
      <3> SUFFICES ASSUME NEW j \in 1..(n + 1), NEW o \in K, M[j] = {o}
                   PROVE  Sees(f, took, M[j])
        BY DEF KnownShown
      <3>1. Old(j) \in 1..n /\ M[j] = N[Old(j)]
        BY <1>a, <2>1
      <3>2. KnownShown(N, n, K, f, took)
        BY DEF InLine
      <3> QED BY <3>1, <3>2 DEF KnownShown
    <2> QED BY <2>2, <2>3
  <1>4. told /\ NothingTold(M, n + 1) => Sees(f, took, M[n + 1])
    BY DEF InLine, NothingTold
  <1>5. \A j \in 1..(n + 1) : M[j] \subseteq P \cup {None}
    BY DEF InLine
  <1> QED BY <1>1, <1>2, <1>3, <1>4, <1>5 DEF InLine

LEMMA LineAnnounce ==
    ASSUME NEW N, NEW n \in Nat \ {0}, NEW M, NEW m, NEW K, NEW f, NEW took \in BOOLEAN,
           NEW told \in BOOLEAN, NEW P, NEW Q, NEW s,
           InLine(N, n, K, f, took, told, P), Announces(N, n, M, m, s), Offers(N, n, s, P, Q)
    PROVE  InLine(M, m, K, f, took, told, Q) /\ ~NothingTold(M, m)
  <1>m. m = n + 1
    BY DEF Announces
  <1>s. SUFFICES InLine(M, n + 1, K, f, took, told, Q) /\ ~NothingTold(M, n + 1)
    BY <1>m
  <1> USE DEF Announces, Offers
  <1> DEFINE Old(i) == IF i = n + 1 THEN n ELSE i
  <1>a. /\ \A i \in 1..(n + 1) : Old(i) \in 1..n
        /\ \A i, j \in 1..(n + 1) : i < j => Old(i) <= Old(j)
        /\ \A i \in 1..(n + 1) : M[i] = N[Old(i)] \/ (M[i] = {s} /\ Old(i) = n)
        /\ \A i, j \in 1..(n + 1) : Old(i) = Old(j) => M[i] = M[j]
    <2>0. /\ \A i \in 1..(n + 1) : i # n /\ i # n + 1 => i \in 1..(n - 1)
          /\ \A i \in 1..(n - 1) : M[i] = N[i]
          /\ M[n] = {s} /\ M[n + 1] = {s} /\ n + 1 # n
      OBVIOUS
    <2>1. \A i \in 1..(n + 1) : Old(i) \in 1..n
      OBVIOUS
    <2>2. \A i, j \in 1..(n + 1) : i < j => Old(i) <= Old(j)
      OBVIOUS
    <2>3. \A i \in 1..(n + 1) : M[i] = N[Old(i)] \/ (M[i] = {s} /\ Old(i) = n)
      BY <2>0
    <2>4. \A i, j \in 1..(n + 1) : Old(i) = Old(j) => M[i] = M[j]
      BY <2>0
    <2> QED BY <2>1, <2>2, <2>3, <2>4
  <1>b. {s} # N[n] /\ {s} # {None} => \A i \in 1..(n + 1) : M[i] = {s} => Old(i) = n
    <2>1. {s} # {None} <=> s # None
      OBVIOUS
    <2>2. {s} # N[n] /\ s # None => \A i \in 1..n : N[i] # {s}
      BY DEF InLine
    <2> QED BY <1>a, <2>1, <2>2
  <1>c. {s} = N[n] => \A i \in 1..(n + 1) : M[i] = N[Old(i)]
    BY <1>a
  <1>d. \A o \in K : {o} # N[n] => {o} # {s}
    BY DEF InLine
  <1>1. OneStretch(M, n + 1)
    <2> SUFFICES ASSUME NEW i \in 1..(n + 1), NEW j \in 1..(n + 1), NEW k \in 1..(n + 1),
                        i < k, k < j, M[i] = M[j], M[i] # {}, M[i] # {None}, M[k] # {}
                 PROVE  M[k] = M[i]
      BY DEF OneStretch
    <2> HIDE DEF Old
    <2>1. Old(i) <= Old(k) /\ Old(k) <= Old(j)
      BY <1>a
    <2>2. Old(i) \in 1..n /\ Old(j) \in 1..n /\ Old(k) \in 1..n
      BY <1>a
    <2>3. CASE Old(k) = Old(i) \/ Old(k) = Old(j)
      BY <1>a, <2>3
    <2>4. CASE Old(i) < Old(k) /\ Old(k) < Old(j)
      <3>1. Old(i) # n /\ Old(k) # n
        BY <2>2, <2>4
      <3>2. M[i] = N[Old(i)] /\ M[k] = N[Old(k)]
        BY <1>a, <3>1
      <3>3. M[j] = N[Old(j)]
        BY <1>a, <1>b, <1>c, <3>1
      <3>4. OneStretch(N, n)
        BY DEF InLine
      <3>5. N[Old(i)] = N[Old(j)] /\ N[Old(i)] # {} /\ N[Old(i)] # {None} /\ N[Old(k)] # {}
        BY <3>2, <3>3
      <3>6. N[Old(k)] = N[Old(i)]
        BY <2>2, <2>4, <3>4, <3>5 DEF OneStretch
      <3> QED BY <3>2, <3>6
    <2> QED BY <2>1, <2>2, <2>3, <2>4
  <1>2. LastIsOnOffer(M, n + 1)
    BY DEF InLine, LastIsOnOffer
  <1>3. KnownFirst(M, n + 1, K)
    <2> SUFFICES ASSUME NEW j \in 1..(n + 1), NEW k \in 1..(n + 1), NEW o \in K,
                        k < j, M[j] = {o}, M[k] # {}
                 PROVE  M[k] = M[j]
      BY DEF KnownFirst
    <2> HIDE DEF Old
    <2>1. Old(k) <= Old(j) /\ Old(j) \in 1..n /\ Old(k) \in 1..n
      BY <1>a
    <2>2. CASE Old(k) = Old(j)
      BY <1>a, <2>2
    <2>3. CASE Old(k) < Old(j)
      <3>1. M[j] = N[Old(j)]
        BY <1>a, <1>d
      <3>2. M[k] = N[Old(k)]
        BY <1>a, <2>1, <2>3
      <3> QED BY <2>1, <2>3, <3>1, <3>2 DEF InLine, KnownFirst
    <2> QED BY <2>1, <2>2, <2>3
  <1>4. KnownShown(M, n + 1, K, f, took)
    <2> SUFFICES ASSUME NEW j \in 1..(n + 1), NEW o \in K, M[j] = {o}
                 PROVE  Sees(f, took, M[j])
      BY DEF KnownShown
    <2> HIDE DEF Old
    <2>1. Old(j) \in 1..n /\ M[j] = N[Old(j)]
      BY <1>a, <1>d
    <2> QED BY <2>1 DEF InLine, KnownShown
  <1>5. ~NothingTold(M, n + 1)
    <2>1. n \in 1..((n + 1) - 1) /\ M[n] # {}
      OBVIOUS
    <2> QED BY <2>1 DEF NothingTold
  <1>6. \A j \in 1..(n + 1) : M[j] \subseteq Q \cup {None}
    BY DEF InLine
  <1> QED BY <1>1, <1>2, <1>3, <1>4, <1>5, <1>6 DEF InLine

(* The taker has been told now.                                            *)
LEMMA LineTold ==
    ASSUME NEW N, NEW n \in Nat \ {0}, NEW K, NEW f, NEW took \in BOOLEAN,
           NEW told \in BOOLEAN, NEW more \in BOOLEAN, NEW P,
           InLine(N, n, K, f, took, told, P), ~NothingTold(N, n),
           told => more, ~more => K = {}
    PROVE  InLine(N, n, K, f, took, more, P)
  BY DEF InLine

LEMMA LineDrop ==
    ASSUME NEW N, NEW n \in Nat \ {0, 1}, NEW k \in 1..(n - 1), NEW M, NEW m, NEW K, NEW f,
           NEW took \in BOOLEAN, NEW told \in BOOLEAN, NEW P,
           InLine(N, n, K, f, took, told, P),
           Drops(N, n, M, m, k),
           N[k] = {} \/ (k = 1 /\ ~told)
    PROVE  InLine(M, m, K, f, took, told, P)
  <1>m. m = n - 1
    BY DEF Drops
  <1>s. SUFFICES InLine(M, n - 1, K, f, took, told, P)
    BY <1>m
  <1> USE DEF Drops
  <1>1. OneStretch(M, n - 1)
    BY DEF InLine, OneStretch
  <1> DEFINE Old(i) == IF i < k THEN i ELSE i + 1
  <1>a. /\ \A i \in 1..(n - 1) : Old(i) \in 1..n /\ M[i] = N[Old(i)]
        /\ \A i, j \in 1..(n - 1) : i < j => Old(i) < Old(j)
    OBVIOUS
  <1>2. LastIsOnOffer(M, n - 1)
    <2> SUFFICES ASSUME NEW j \in 1..(n - 2), M[j] # {}, \A i \in (j + 1)..(n - 2) : M[i] = {}
                 PROVE  M[j] = M[n - 1]
      BY DEF LastIsOnOffer
    <2>1. M[n - 1] = N[n] /\ M[j] = N[Old(j)] /\ Old(j) \in 1..(n - 1)
      OBVIOUS
    <2>2. ASSUME NEW i \in (Old(j) + 1)..(n - 1) PROVE N[i] = {}
      <3>1. CASE i < k
        BY <3>1
      <3>2. CASE i = k
        BY <3>2
      <3>3. CASE i > k
        <4>1. i - 1 \in (j + 1)..(n - 2) /\ i - 1 \in k..(n - 1) /\ M[i - 1] = N[i]
          BY <3>3
        <4> QED BY <4>1
      <3> QED BY <3>1, <3>2, <3>3
    <2> QED BY <2>1, <2>2 DEF InLine, LastIsOnOffer
  <1>3. KnownFirst(M, n - 1, K)
    <2> SUFFICES ASSUME NEW j \in 1..(n - 1), NEW i \in 1..(n - 1), NEW o \in K,
                        i < j, M[j] = {o}, M[i] # {}
                 PROVE  M[i] = M[j]
      BY DEF KnownFirst
    <2> HIDE DEF Old
    <2>1. /\ Old(i) < Old(j) /\ Old(j) \in 1..n /\ Old(i) \in 1..n
          /\ N[Old(j)] = {o} /\ N[Old(i)] # {} /\ M[j] = N[Old(j)] /\ M[i] = N[Old(i)]
      BY <1>a
    <2> QED BY <2>1 DEF InLine, KnownFirst
  <1>4. KnownShown(M, n - 1, K, f, took)
    <2> SUFFICES ASSUME NEW j \in 1..(n - 1), NEW o \in K, M[j] = {o}
                 PROVE  Sees(f, took, M[j])
      BY DEF KnownShown
    <2> HIDE DEF Old
    <2>1. Old(j) \in 1..n /\ M[j] = N[Old(j)]
      BY <1>a
    <2> QED BY <2>1 DEF InLine, KnownShown
  <1>5. told /\ NothingTold(M, n - 1) => Sees(f, took, M[n - 1])
    BY DEF InLine, NothingTold
  <1>6. \A j \in 1..(n - 1) : M[j] \subseteq P \cup {None}
    BY DEF InLine
  <1> QED BY <1>1, <1>2, <1>3, <1>4, <1>5, <1>6 DEF InLine

(* The taker handles what comes first in the line.                         *)
LEMMA LineRead ==
    ASSUME NEW N, NEW n \in Nat \ {0, 1}, NEW M, NEW m, NEW K, NEW f,
           NEW took \in BOOLEAN, NEW told \in BOOLEAN, NEW P, NEW L, NEW g,
           InLine(N, n, K, f, took, told, P), Drops(N, n, M, m, 1), NEW a,
           a = N[1], After(a, K, f, L, g)
    PROVE  told => InLine(M, m, L, g, took, told, P)
  <1>m. m = n - 1
    BY DEF Drops
  <1>s. SUFFICES ASSUME told PROVE InLine(M, n - 1, L, g, took, told, P)
    BY <1>m
  <1>1. CASE N[1] = {} /\ L = K /\ g = f
    <2>1. PICK k \in Nat : k = 1
      OBVIOUS
    <2>2. k \in 1..(n - 1) /\ Drops(N, n, M, m, k) /\ (N[k] = {} \/ (k = 1 /\ ~told))
      BY <1>1, <2>1
    <2>3. InLine(M, m, K, f, took, told, P)
      <3>1. n \in Nat \ {0, 1} /\ took \in BOOLEAN /\ told \in BOOLEAN
        OBVIOUS
      <3>2. InLine(N, n, K, f, took, told, P)
        OBVIOUS
      <3> QED BY ONLY <2>2, <3>1, <3>2, LineDrop
    <2> QED BY <1>1, <1>m, <2>3
  <1>2. ASSUME NEW o, N[1] = {o}, L = K \cup ({o} \ {None}), g = IF o \in K THEN f ELSE o
        PROVE  InLine(M, n - 1, L, g, took, told, P)
    <2>1. \A i \in 1..(n - 1) : i + 1 \in 1..n /\ M[i] = N[i + 1]
      BY DEF Drops
    <2>2. /\ OneStretch(N, n) /\ LastIsOnOffer(N, n)
          /\ KnownFirst(N, n, K) /\ KnownShown(N, n, K, f, took)
          /\ K \subseteq P /\ None \notin K
          /\ \A j \in 1..n : N[j] \subseteq P \cup {None}
      BY DEF InLine
    <2>3. OneStretch(M, n - 1)
      BY <2>1, <2>2 DEF OneStretch
    <2>4. LastIsOnOffer(M, n - 1)
      <3> SUFFICES ASSUME NEW j \in 1..(n - 2), M[j] # {},
                          \A k \in (j + 1)..(n - 2) : M[k] = {}
                   PROVE  M[j] = M[n - 1]
        BY DEF LastIsOnOffer
      <3>1. N[j + 1] # {} /\ j + 1 \in 1..(n - 1) /\ M[j] = N[j + 1] /\ M[n - 1] = N[n]
        BY <2>1
      <3>2. ASSUME NEW k \in (j + 2)..(n - 1) PROVE N[k] = {}
        <4>1. k - 1 \in (j + 1)..(n - 2) /\ M[k - 1] = N[k]
          BY <2>1
        <4> QED BY <4>1
      <3> QED BY <2>2, <3>1, <3>2 DEF LastIsOnOffer
    <2>5. KnownFirst(M, n - 1, L)
      <3> SUFFICES ASSUME NEW j \in 1..(n - 1), NEW k \in 1..(n - 1), NEW p \in L,
                          k < j, M[j] = {p}, M[k] # {}
                   PROVE  M[k] = M[j]
        BY DEF KnownFirst
      <3>1. /\ 1 \in 1..n /\ j + 1 \in 1..n /\ k + 1 \in 1..n /\ 1 < k + 1 /\ k + 1 < j + 1
            /\ N[j + 1] = {p} /\ N[k + 1] # {} /\ M[j] = N[j + 1] /\ M[k] = N[k + 1]
        BY <2>1
      <3>2. CASE p \in K
        BY <2>2, <3>1, <3>2 DEF KnownFirst
      <3>3. CASE p = o /\ o # None
        <4>1. N[1] = N[j + 1] /\ N[1] # {} /\ N[1] # {None}
          BY <1>2, <3>1, <3>3
        <4>2. N[k + 1] = N[1]
          BY <2>2, <3>1, <4>1 DEF OneStretch
        <4> QED BY <3>1, <4>1, <4>2
      <3> QED BY <1>2, <3>2, <3>3
    <2>6. KnownShown(M, n - 1, L, g, took)
      <3> SUFFICES ASSUME NEW j \in 1..(n - 1), NEW p \in L, M[j] = {p}
                   PROVE  Sees(g, took, {p})
        BY DEF KnownShown
      <3>1. j + 1 \in 1..n /\ 1 \in 1..n /\ 1 < j + 1 /\ N[j + 1] = {p} /\ N[1] # {}
        BY <1>2, <2>1
      <3>2. CASE p \in K
        <4>1. N[1] = N[j + 1]
          BY <2>2, <3>1, <3>2 DEF KnownFirst
        <4>2. o = p
          BY <1>2, <3>1, <4>1
        <4>3. Sees(f, took, {p})
          BY <2>2, <3>1, <3>2 DEF KnownShown
        <4> QED BY <1>2, <3>2, <4>2, <4>3
      <3>3. CASE p \notin K
        BY <1>2, <3>3 DEF Sees
      <3> QED BY <3>2, <3>3
    <2>7. NothingTold(M, n - 1) => Sees(g, took, M[n - 1])
      <3> SUFFICES ASSUME NothingTold(M, n - 1) PROVE Sees(g, took, M[n - 1])
        OBVIOUS
      <3>1. ASSUME NEW k \in 2..(n - 1) PROVE N[k] = {}
        <4>1. k - 1 \in 1..(n - 2) /\ M[k - 1] = N[k]
          BY <2>1
        <4> QED BY <4>1 DEF NothingTold
      <3>2. N[1] = N[n]
        <4>1. 1 \in 1..(n - 1) /\ N[1] # {}
          BY <1>2
        <4> QED BY <2>2, <3>1, <4>1 DEF LastIsOnOffer
      <3>3. M[n - 1] = {o}
        BY <1>2, <2>1, <3>2
      <3>4. CASE o \in K
        <4>1. 1 \in 1..n
          OBVIOUS
        <4>2. Sees(f, took, {o})
          BY <1>2, <2>2, <3>4, <4>1 DEF KnownShown
        <4> QED BY <1>2, <3>3, <3>4, <4>2
      <3>5. CASE o \notin K
        BY <1>2, <3>3, <3>5 DEF Sees
      <3> QED BY <3>4, <3>5
    <2>8. \A j \in 1..(n - 1) : M[j] \subseteq P \cup {None}
      BY <2>1, <2>2
    <2>9. L \subseteq P /\ None \notin L
      <3>1. 1 \in 1..n
        OBVIOUS
      <3>2. N[1] \subseteq P \cup {None}
        BY <2>2, <3>1
      <3> QED BY <1>2, <2>2, <3>2
    <2> QED BY <2>3, <2>4, <2>5, <2>6, <2>7, <2>8, <2>9, <1>s DEF InLine
  <1> QED BY <1>1, <1>2 DEF After

-----------------------------------------------------------------------------
(* The line as the queues change.                                          *)

LEMMA NewsPlaces ==
    ASSUME NEW S, NEW R, NEW q \in Seq(S), NEW r \in Seq(R), NEW c, NEW s
    PROVE  /\ Places(q, r) \in Nat \ {0}
           /\ \A i \in 1..Len(q) : News(q, r, c, s)[i] = Announced(q[i], c)
           /\ \A i \in 1..Len(r) : News(q, r, c, s)[Len(q) + i] = Announced(r[i], c)
           /\ News(q, r, c, s)[Places(q, r)] = {s}
  BY DEF News, Places

(* A message is posted to the connection actor.                            *)
LEMMA LinePost ==
    ASSUME NEW S, NEW R, NEW q \in Seq(S), NEW r \in Seq(R), NEW m \in R, NEW c, NEW s,
           NEW x, NEW K, NEW f, NEW took \in BOOLEAN, NEW told \in BOOLEAN,
           NEW more \in BOOLEAN, NEW P, NEW Q,
           InLine(News(q, r, c, s), Places(q, r), K, f, took, told, P),
           \/ Announced(m, c) = {} /\ x = s /\ more = told /\ Q = P
           \/ /\ Announced(m, c) = {x} /\ (x = s \/ x = None \/ x \notin P)
              /\ P \subseteq Q /\ x \in Q \cup {None} /\ (told => more) /\ (~more => K = {})
    PROVE  InLine(News(q, r \o <<m>>, c, x), Places(q, r \o <<m>>), K, f, took, more, Q)
  <1> DEFINE N == News(q, r, c, s)
             M == News(q, r \o <<m>>, c, x)
             n == Places(q, r)
  <1>1. n \in Nat \ {0} /\ n = Len(q) + Len(r) + 1 /\ N[n] = {s}
    BY NewsPlaces DEF Places
  <1>2. /\ r \o <<m>> \in Seq(R) /\ Len(r \o <<m>>) = Len(r) + 1
        /\ \A i \in 1..Len(r) : (r \o <<m>>)[i] = r[i]
        /\ (r \o <<m>>)[Len(r) + 1] = m
    OBVIOUS
  <1>3. Places(q, r \o <<m>>) = n + 1
    BY <1>2 DEF Places
  <1>4. \A i \in 1..(n - 1) : M[i] = N[i]
    BY <1>2 DEF News, Places
  <1>5. M[n] = Announced(m, c) /\ M[n + 1] = {x}
    BY <1>2 DEF News, Places
  <1> HIDE DEF N, M, n
  <1>6. CASE Announced(m, c) = {} /\ x = s /\ more = told /\ Q = P
    <2>1. InLine(N, n, K, f, took, told, P)
      BY DEF N, n
    <2>2. Inserts(N, n, M, n + 1)
      BY <1>1, <1>4, <1>5, <1>6 DEF Inserts
    <2>3. InLine(M, n + 1, K, f, took, told, P)
      BY <1>1, <2>1, <2>2, LineInsert
    <2> QED BY <1>3, <1>6, <2>3 DEF M
  <1>7. CASE /\ Announced(m, c) = {x} /\ (x = s \/ x = None \/ x \notin P)
             /\ P \subseteq Q /\ x \in Q \cup {None} /\ (told => more) /\ (~more => K = {})
    <2>1. InLine(N, n, K, f, took, told, P)
      BY DEF N, n
    <2>2. Announces(N, n, M, n + 1, x)
      BY <1>1, <1>4, <1>5, <1>7 DEF Announces
    <2>3. Offers(N, n, x, P, Q)
      BY <1>1, <1>7 DEF Offers
    <2>5. InLine(M, n + 1, K, f, took, told, Q) /\ ~NothingTold(M, n + 1)
      <3>1. n \in Nat \ {0}
        BY <1>1
      <3>2. ASSUME NEW a, NEW b \in Nat \ {0}, NEW d, InLine(a, b, K, f, took, told, P),
                   Announces(a, b, d, b + 1, x), Offers(a, b, x, P, Q)
            PROVE  InLine(d, b + 1, K, f, took, told, Q) /\ ~NothingTold(d, b + 1)
        BY ONLY <3>2, LineAnnounce, took \in BOOLEAN, told \in BOOLEAN
      <3> QED BY <3>1, <2>1, <2>2, <2>3, <3>2
    <2>6. InLine(M, n + 1, K, f, took, more, Q)
      BY <1>1, <1>7, <2>5, LineTold
    <2> QED BY <1>3, <2>6 DEF M
  <1> QED BY <1>6, <1>7

(* The first message in the mailbox goes on the wire.                      *)
LEMMA LineWritten ==
    ASSUME NEW S, NEW R, NEW q \in Seq(S), NEW r \in Seq(R), r # <<>>, NEW e \in S, NEW c,
           NEW s, NEW K, NEW f, NEW took \in BOOLEAN, NEW told \in BOOLEAN, NEW P,
           InLine(News(q, r, c, s), Places(q, r), K, f, took, told, P),
           Announced(e, c) = Announced(Head(r), c)
    PROVE  InLine(News(Append(q, e), Tail(r), c, s), Places(Append(q, e), Tail(r)),
                  K, f, took, told, P)
  <1>1. /\ Len(Append(q, e)) = Len(q) + 1 /\ Len(Tail(r)) = Len(r) - 1
        /\ Append(q, e) \in Seq(S) /\ Tail(r) \in Seq(R)
        /\ \A i \in 1..Len(q) : Append(q, e)[i] = q[i]
        /\ Append(q, e)[Len(q) + 1] = e
        /\ \A i \in 1..(Len(r) - 1) : Tail(r)[i] = r[i + 1]
        /\ Head(r) = r[1] /\ Len(r) \in Nat \ {0} /\ Len(q) \in Nat
    OBVIOUS
  <1>2. Places(Append(q, e), Tail(r)) = Places(q, r)
    BY <1>1 DEF Places
  <1>3. ASSUME NEW i \in 1..Places(q, r)
        PROVE  News(Append(q, e), Tail(r), c, s)[i] = News(q, r, c, s)[i]
    <2>1. CASE i <= Len(q)
      BY <1>1, <1>2, <2>1 DEF News, Places
    <2>2. CASE i = Len(q) + 1
      BY <1>1, <1>2, <2>2 DEF News, Places
    <2>3. CASE i > Len(q) + 1 /\ i < Places(q, r)
      <3>1. i - Len(q) - 1 \in 1..(Len(r) - 1)
        BY <1>1, <2>3 DEF Places
      <3>2. Tail(r)[i - (Len(q) + 1)] = r[i - Len(q)]
        BY <1>1, <3>1
      <3>3. ~(i <= Len(Append(q, e))) /\ Len(Append(q, e)) = Len(q) + 1 /\ ~(i <= Len(q))
        BY <1>1, <2>3
      <3> QED BY <1>2, <2>3, <3>2, <3>3 DEF News
    <2>4. CASE i = Places(q, r)
      BY <1>1, <1>2, <2>4 DEF News, Places
    <2> QED BY <1>1, <2>1, <2>2, <2>3, <2>4 DEF Places
  <1>4. News(Append(q, e), Tail(r), c, s) = News(q, r, c, s)
    BY <1>2, <1>3 DEF News
  <1> QED BY <1>2, <1>4

(* ... or is for another connection, or is lost.                           *)
LEMMA LineLost ==
    ASSUME NEW S, NEW R, NEW q \in Seq(S), NEW r \in Seq(R), r # <<>>, NEW c,
           NEW s, NEW K, NEW f, NEW took \in BOOLEAN, NEW told \in BOOLEAN, NEW P,
           InLine(News(q, r, c, s), Places(q, r), K, f, took, told, P),
           Announced(Head(r), c) = {} \/ (q = <<>> /\ ~told)
    PROVE  InLine(News(q, Tail(r), c, s), Places(q, Tail(r)), K, f, took, told, P)
  <1> DEFINE N == News(q, r, c, s)
             M == News(q, Tail(r), c, s)
             n == Places(q, r)
             m == Places(q, Tail(r))
             k == Len(q) + 1
  <1>1. /\ Len(Tail(r)) = Len(r) - 1 /\ Tail(r) \in Seq(R)
        /\ \A i \in 1..(Len(r) - 1) : Tail(r)[i] = r[i + 1]
        /\ Head(r) = r[1] /\ Len(r) \in Nat \ {0} /\ Len(q) \in Nat
    OBVIOUS
  <1>2. /\ n \in Nat \ {0, 1} /\ k \in 1..(n - 1) /\ m = n - 1
    BY <1>1 DEF Places
  <1>3. \A i \in 1..(k - 1) : M[i] = N[i]
    BY <1>1, <1>2 DEF News, Places
  <1>4. ASSUME NEW i \in k..(n - 1) PROVE M[i] = N[i + 1]
    <2>1. CASE i < n - 1
      <3>1. /\ i - Len(q) \in 1..(Len(r) - 1)
            /\ i \in 1..(n - 1) /\ i + 1 \in 1..n
            /\ ~(i <= Len(q)) /\ ~(i + 1 <= Len(q)) /\ i + 1 < n
        BY <1>1, <1>2, <2>1 DEF Places
      <3>2. Tail(r)[i - Len(q)] = r[i + 1 - Len(q)]
        BY <1>1, <3>1
      <3> QED BY <1>2, <2>1, <3>1, <3>2 DEF News
    <2>2. CASE i = n - 1
      BY <1>1, <1>2, <2>2 DEF News, Places
    <2> QED BY <1>2, <2>1, <2>2
  <1>5. N[k] = {} \/ (k = 1 /\ ~told)
    BY <1>1 DEF News, Places
  <1> HIDE DEF N, M, n, m, k
  <1>6. InLine(N, n, K, f, took, told, P)
    BY DEF N, n
  <1>7. Drops(N, n, M, m, k)
    BY <1>2, <1>3, <1>4 DEF Drops
  <1>8. InLine(M, m, K, f, took, told, P)
    <2>1. n \in Nat \ {0, 1} /\ k \in 1..(n - 1) /\ took \in BOOLEAN /\ told \in BOOLEAN
      BY <1>2
    <2> QED BY ONLY <2>1, <1>5, <1>6, <1>7, LineDrop
  <1> QED BY <1>8 DEF M, m

(* The taker handles a message.                                            *)
LEMMA LineHandled ==
    ASSUME NEW S, NEW R, NEW q \in Seq(S), q # <<>>, NEW r \in Seq(R), NEW c, NEW s
    PROVE  /\ Places(q, r) \in Nat \ {0, 1} /\ Places(Tail(q), r) = Places(q, r) - 1
           /\ News(q, r, c, s)[1] = Announced(Head(q), c)
           /\ Drops(News(q, r, c, s), Places(q, r), News(Tail(q), r, c, s),
                    Places(Tail(q), r), 1)
  <1>1. /\ Len(Tail(q)) = Len(q) - 1 /\ Tail(q) \in Seq(S)
        /\ \A i \in 1..(Len(q) - 1) : Tail(q)[i] = q[i + 1]
        /\ Head(q) = q[1] /\ Len(q) \in Nat \ {0} /\ Len(r) \in Nat
    OBVIOUS
  <1>2. Places(q, r) \in Nat \ {0, 1} /\ Places(Tail(q), r) = Places(q, r) - 1
    BY <1>1 DEF Places
  <1>3. ASSUME NEW i \in 1..(Places(q, r) - 1)
        PROVE  News(Tail(q), r, c, s)[i] = News(q, r, c, s)[i + 1]
    <2>1. CASE i <= Len(q) - 1
      <3>1. Tail(q)[i] = q[i + 1]
        BY <1>1, <2>1
      <3> QED BY <1>1, <1>2, <2>1, <3>1 DEF News
    <2>2. CASE i > Len(q) - 1
      <3>1. i - Len(Tail(q)) = i + 1 - Len(q)
        BY <1>1
      <3> QED BY <1>1, <1>2, <2>2, <3>1 DEF News
    <2> QED BY <1>1, <2>1, <2>2
  <1>4. News(q, r, c, s)[1] = Announced(Head(q), c)
    BY <1>1 DEF News, Places
  <1>5. Drops(News(q, r, c, s), Places(q, r), News(Tail(q), r, c, s),
                    Places(Tail(q), r), 1)
    BY <1>2, <1>3 DEF Drops
  <1> QED BY <1>2, <1>4, <1>5

LEMMA LineAfter ==
    ASSUME NEW S, NEW R, NEW q \in Seq(S), q # <<>>, NEW r \in Seq(R), NEW c, NEW s,
           NEW K, NEW f, NEW took \in BOOLEAN, NEW told \in BOOLEAN, NEW P,
           InLine(News(q, r, c, s), Places(q, r), K, f, took, told, P), NEW L, NEW g,
           After(Announced(Head(q), c), K, f, L, g)
    PROVE  told => InLine(News(Tail(q), r, c, s), Places(Tail(q), r), L, g, took, told, P)
  <1> DEFINE N == News(q, r, c, s)
             M == News(Tail(q), r, c, s)
             n == Places(q, r)
             m == Places(Tail(q), r)
  <1>1. /\ n \in Nat \ {0, 1}
        /\ N[1] = Announced(Head(q), c) /\ Drops(N, n, M, m, 1)
    BY LineHandled
  <1>2. InLine(N, n, K, f, took, told, P)
    OBVIOUS
  <1> HIDE DEF N, M, n, m
  <1>3. Announced(Head(q), c) = N[1] /\ After(Announced(Head(q), c), K, f, L, g)
    BY <1>1
  <1>4. told => InLine(M, m, L, g, took, told, P)
    BY <1>1, <1>2, <1>3, LineRead
  <1> QED BY <1>1, <1>4 DEF M, m

-----------------------------------------------------------------------------
(* What matters of a line is kept when the taker takes an order, and when  *)
(* it knows of none.                                                       *)

LEMMA LineTook ==
    ASSUME NEW N, NEW n, NEW K, NEW f, NEW took \in BOOLEAN, NEW more \in BOOLEAN,
           NEW told \in BOOLEAN, NEW P, InLine(N, n, K, f, took, told, P), took => more
    PROVE  InLine(N, n, K, f, more, told, P)
  BY DEF InLine, KnownShown, Sees

LEMMA LineTakes ==
    ASSUME NEW N, NEW n, NEW K, NEW f, NEW took \in BOOLEAN,
           NEW told \in BOOLEAN, NEW P, InLine(N, n, K, f, took, told, P)
    PROVE  InLine(N, n, K, None, TRUE, told, P)
  BY DEF InLine, KnownShown, Sees

LEMMA LineUntold ==
    ASSUME NEW N, NEW n, NEW K, NEW f, NEW g, NEW took \in BOOLEAN, NEW more \in BOOLEAN,
           NEW told \in BOOLEAN, ~told, NEW P, InLine(N, n, K, f, took, told, P)
    PROVE  InLine(N, n, K, g, more, told, P)
  BY DEF InLine, KnownShown

(* A young system: the connections there are.                              *)
LEMMA YoungConns ==
    ASSUME TypeOK, NEW t \in Takers
    PROVE  /\ First(t) \in Conns /\ Took(t) \in BOOLEAN /\ Greeted(t) \in BOOLEAN
           /\ sess[t] \in Nat
           /\ down[First(t)] \in Seq(ToTaker) /\ connMail \in Seq(Messages)
  <1>1. First(t) \in Conns
    BY SessionAssumption DEF First, Conns
  <1>2. Took(t) \in BOOLEAN /\ Greeted(t) \in BOOLEAN
    BY DEF Took, Greeted
  <1>3. sess[t] \in Nat /\ down[First(t)] \in Seq(ToTaker) /\ connMail \in Seq(Messages)
    BY <1>1, SessionAssumption DEF TypeOK
  <1> QED BY <1>1, <1>2, <1>3

LEMMA YoungLinks ==
    ASSUME TypeOK, Live, Young, Links, NEW t \in Takers
    PROVE  /\ sess[t] = 0 => link[First(t)] # "up" /\ Own(t) \notin Conns
           /\ sess[t] \in {0, 1}
           /\ Online(t) => Own(t) = First(t) /\ link[First(t)] = "up"
  <1>1. First(t) \in Conns /\ sess[t] \in {0, 1}
    BY YoungConns DEF Young, TypeOK
  <1>2. sess[t] = 0 => link[First(t)] # "up" /\ Own(t) \notin Conns
    BY <1>1 DEF Live, Own, First, Conns
  <1>3. Online(t) => Own(t) = First(t) /\ link[First(t)] = "up"
    BY <1>1 DEF Online, Own, First, Links
  <1> QED BY <1>1, <1>2, <1>3

LEMMA YoungBefore == ASSUME TypeOK, TypeOK', [Next]_vars, Young' PROVE Young
  <1> USE DEF Young, makerVars, connVars, takerVars
  <1>1. CASE MakerRestarts
    BY <1>1 DEF MakerRestarts, TypeOK
  <1>2. ASSUME NEW t \in Takers, TakerStarts(t) PROVE Young
    BY <1>2 DEF TakerStarts, TypeOK
  <1>3. CASE UNCHANGED <<restarts, sess>>
    BY <1>3
  <1>4. ASSUME NEW o \in Orders, NewOrder(o) \/ RejectOrder(o) \/ AcceptOrder(o)
        PROVE  UNCHANGED <<restarts, sess>>
    BY <1>4 DEF NewOrder, RejectOrder, AcceptOrder
  <1>5. ASSUME NEW c \in Conns, HandleTakeOrder(c) \/ ConnectionCloses(c)
        PROVE  UNCHANGED <<restarts, sess>>
    BY <1>5 DEF HandleTakeOrder, TakeOutdated, TakeOutOfBounds, TakeCurrent, TakeOrderOf,
                ConnectionCloses
  <1>6. NewTakerOnline \/ AcceptContinues \/ MakerSetupEnds \/ MakerSetupCompleted
        => UNCHANGED <<restarts, sess>>
    BY DEF NewTakerOnline, AcceptContinues, MakerSetupEnds, MakerSetupCompleted
  <1>7. ConnectionActor => UNCHANGED <<restarts, sess>>
    BY DEF ConnectionActor, HandleNewConnection, HandleBroadcastOrder, HandleTakerMessage
  <1>8. ASSUME NEW t \in Takers, TakerActor(t) \/ TakerSetupEnds(t)
        PROVE  UNCHANGED <<restarts, sess>>
    BY <1>8 DEF TakerActor, HandleNewOrder, HandleOrderRejected, HandleOrderAccepted, Receive,
                TakerSetupCompleted, TakerSetupEnds
  <1>9. ASSUME NEW t \in Takers, NEW o \in Orders, TakeOffer(t, o)
        PROVE  UNCHANGED <<restarts, sess>>
    BY <1>9 DEF TakeOffer
  <1>10. UNCHANGED vars => UNCHANGED <<restarts, sess>>
    BY DEF vars
  <1> QED BY <1>1, <1>2, <1>3, <1>4, <1>5, <1>6, <1>7, <1>8, <1>9, <1>10 DEF Next

-----------------------------------------------------------------------------
(* Each step, for one taker.                                               *)

(* Nothing is told, and at most an order taken.                            *)
LEMMA ShownSame ==
    ASSUME TypeOK, TypeOK', NEW t \in Takers, Shown(t), UNCHANGED <<connMail, current, published>>,
           (down[First(t)])' = down[First(t)], (known[t])' = known[t], (feed[t])' = feed[t],
           Greeted(t)' = Greeted(t), Took(t) => Took(t)'
    PROVE  Shown(t)'
  <1>1. Took(t) \in BOOLEAN /\ Took(t)' \in BOOLEAN /\ Greeted(t) \in BOOLEAN
    BY DEF Took, Greeted
  <1>2. First(t)' = First(t)
    BY DEF First
  <1>3. InLine(News(down[First(t)], connMail, First(t), current),
               Places(down[First(t)], connMail),
               known[t], feed[t], Took(t)', Greeted(t), published)
    BY <1>1, LineTook DEF Shown
  <1> QED BY <1>2, <1>3 DEF Shown

(* A message is posted to the connection actor.                            *)
LEMMA ShownPost ==
    ASSUME TypeOK, TypeOK', NEW t \in Takers, Shown(t), NEW m \in Messages,
           connMail' = Append(connMail, m),
           (down[First(t)])' = down[First(t)], (known[t])' = known[t],
           \/ (feed[t])' = feed[t] /\ (Took(t)' <=> Took(t))
           \/ ~Greeted(t) /\ ~Greeted(t)',
           \/ /\ Announced(m, First(t)) = {} /\ UNCHANGED <<current, published>>
              /\ Greeted(t)' = Greeted(t)
           \/ /\ Announced(m, First(t)) = {current'} /\ (Greeted(t) => Greeted(t)')
              /\ ~Greeted(t)' => known[t] = {}
              /\ current' = current \/ current' = None \/ current' \notin published
              /\ published \subseteq published'
    PROVE  Shown(t)'
  <1> DEFINE c == First(t)
             q == down[c]
             r == connMail
  <1>1. /\ Took(t) \in BOOLEAN /\ Took(t)' \in BOOLEAN /\ Greeted(t) \in BOOLEAN
        /\ Greeted(t)' \in BOOLEAN /\ c' = c
    BY DEF Took, Greeted, First
  <1>2. q \in Seq(ToTaker) /\ r \in Seq(Messages) /\ r' = r \o <<m>>
    BY YoungConns, AppendElement
  <1>3. InLine(News(q, r, c, current), Places(q, r), known[t], feed[t], Took(t), Greeted(t),
               published)
    BY DEF Shown
  <1>4. current' \in published' \cup {None}
    BY DEF TypeOK
  <1>5. InLine(News(q, r \o <<m>>, c, current'), Places(q, r \o <<m>>), known[t], feed[t],
               Took(t), Greeted(t)', published')
    <2>1. \/ Announced(m, c) = {} /\ current' = current /\ Greeted(t)' = Greeted(t)
             /\ published' = published
          \/ /\ Announced(m, c) = {current'}
             /\ (current' = current \/ current' = None \/ current' \notin published)
             /\ published \subseteq published' /\ current' \in published' \cup {None}
             /\ (Greeted(t) => Greeted(t)') /\ (~Greeted(t)' => known[t] = {})
      BY <1>4
    <2> HIDE DEF c, q, r
    <2> QED BY ONLY <1>1, <1>2, <1>3, <2>1, LinePost, m \in Messages
  <1>6. InLine(News(q, r \o <<m>>, c, current'), Places(q, r \o <<m>>), known[t], (feed[t])',
               Took(t)', Greeted(t)', published')
    <2>1. CASE (feed[t])' = feed[t] /\ (Took(t)' <=> Took(t))
      <3>1. Took(t)' = Took(t)
        BY <1>1, <2>1
      <3> QED BY <1>5, <2>1, <3>1
    <2>2. CASE ~Greeted(t)'
      BY <1>1, <1>5, <2>2, LineUntold
    <2> QED BY <2>1, <2>2
  <1> QED BY <1>1, <1>2, <1>6 DEF Shown

(* The connection actor is done with its first message.                    *)
LEMMA ShownSent ==
    ASSUME TypeOK, TypeOK', NEW t \in Takers, Shown(t), connMail # <<>>, connMail' = Tail(connMail),
           UNCHANGED <<current, published, known, feed, tState>>, Greeted(t)' = Greeted(t),
           \/ /\ (down[First(t)])' = down[First(t)]
              /\ \/ Announced(Head(connMail), First(t)) = {}
                 \/ down[First(t)] = <<>> /\ ~Greeted(t)
           \/ \E e \in ToTaker :
                 /\ (down[First(t)])' = Append(down[First(t)], e)
                 /\ Announced(e, First(t)) = Announced(Head(connMail), First(t))
    PROVE  Shown(t)'
  <1> DEFINE c == First(t)
             q == down[c]
             r == connMail
  <1>1. /\ Took(t) \in BOOLEAN /\ Took(t)' = Took(t) /\ Greeted(t) \in BOOLEAN /\ c' = c
    BY DEF Took, Greeted, First
  <1>2. q \in Seq(ToTaker) /\ r \in Seq(Messages)
    BY YoungConns
  <1>3. InLine(News(q, r, c, current), Places(q, r), known[t], feed[t], Took(t), Greeted(t),
               published)
    BY DEF Shown
  <1>4. CASE (down[c])' = q /\ (Announced(Head(r), c) = {} \/ (q = <<>> /\ ~Greeted(t)))
    <2>1. InLine(News(q, Tail(r), c, current), Places(q, Tail(r)), known[t], feed[t], Took(t),
                 Greeted(t), published)
      BY <1>1, <1>2, <1>3, <1>4, LineLost
    <2> QED BY <1>1, <1>4, <2>1 DEF Shown
  <1>5. ASSUME NEW e \in ToTaker, (down[c])' = Append(q, e), Announced(e, c) = Announced(Head(r), c)
        PROVE  Shown(t)'
    <2>1. InLine(News(Append(q, e), Tail(r), c, current), Places(Append(q, e), Tail(r)),
                 known[t], feed[t], Took(t), Greeted(t), published)
      BY <1>1, <1>2, <1>3, <1>5, LineWritten
    <2> QED BY <1>1, <1>5, <2>1 DEF Shown
  <1> QED BY <1>4, <1>5

(* The taker handles a message.                                            *)
LEMMA ShownHandled ==
    ASSUME TypeOK, TypeOK', NEW t \in Takers, Shown(t), Greeted(t), Greeted(t)',
           down[First(t)] # <<>>, (down[First(t)])' = Tail(down[First(t)]),
           UNCHANGED <<current, published, connMail>>, Took(t) => Took(t)',
           After(Announced(Head(down[First(t)]), First(t)), known[t], feed[t], (known[t])', (feed[t])')
    PROVE  Shown(t)'
  <1> DEFINE c == First(t)
             q == down[c]
             r == connMail
  <1>1. /\ Took(t) \in BOOLEAN /\ Took(t)' \in BOOLEAN /\ Greeted(t) \in BOOLEAN /\ c' = c
        /\ Greeted(t) /\ Greeted(t)' = Greeted(t) /\ (Took(t) => Took(t)')
    BY DEF Took, Greeted, First
  <1>2. q \in Seq(ToTaker) /\ r \in Seq(Messages) /\ q # <<>> /\ Greeted(t)
    BY YoungConns
  <1>3. InLine(News(q, r, c, current), Places(q, r), known[t], feed[t], Took(t), Greeted(t),
               published)
    BY DEF Shown
  <1>4. After(Announced(Head(q), c), known[t], feed[t], (known[t])', (feed[t])')
    OBVIOUS
  <1>5. Greeted(t) => InLine(News(Tail(q), r, c, current), Places(Tail(q), r), (known[t])',
                           (feed[t])', Took(t), Greeted(t), published)
    <2> HIDE DEF q, r, c
    <2> QED BY ONLY <1>1, <1>2, <1>3, <1>4, LineAfter
  <1>6. InLine(News(Tail(q), r, c, current), Places(Tail(q), r), (known[t])', (feed[t])',
               Took(t)', Greeted(t), published)
    <2> HIDE DEF q, r, c
    <2> QED BY ONLY <1>1, <1>5, LineTook
  <1> QED BY <1>1, <1>6 DEF Shown

-----------------------------------------------------------------------------
(* The steps.                                                              *)

LEMMA NextNewOnce ==
    ASSUME IInv, TypeOK', Live, Young, Young', NewOnce, Links, [Next]_vars
    PROVE  NewOnce' /\ Links'
  <1> USE DEF makerVars, connVars, takerVars
  <1>a. /\ link \in [Conns -> {"unused", "pending", "up", "gone", "dead", "reset", "failed"}]
        /\ sess \in [Takers -> 0..MaxSessions] /\ connMail \in Seq(Messages)
    BY DEF IInv, TypeOK
  <1>b. ASSUME NEW m \in Messages, m.kind # "new", connMail' = connMail \o <<m>>,
               UNCHANGED <<link, sess>>
        PROVE  NewOnce' /\ Links'
    <2>1. \A i \in 1..Len(connMail') : connMail'[i].kind = "new" =>
             i \in 1..Len(connMail) /\ connMail'[i] = connMail[i]
      BY <1>a, <1>b
    <2>a. \A i \in 1..Len(connMail') : connMail'[i].kind = "new" =>
             link'[connMail'[i].to] = "pending" /\ connMail'[i].to[2] <= sess'[connMail'[i].to[1]]
      BY <1>b, <2>1 DEF NewOnce
    <2>b. \A i, j \in 1..Len(connMail') :
             connMail'[i].kind = "new" /\ connMail'[j].kind = "new"
             /\ connMail'[i].to = connMail'[j].to => i = j
      BY <2>1 DEF NewOnce
    <2> QED BY <1>b, <2>a, <2>b DEF NewOnce, Links
  <1>c. ASSUME NEW m \in Messages, NEW n \in Messages, m.kind # "new", n.kind # "new",
               connMail' = connMail \o <<m, n>>, UNCHANGED <<link, sess>>
        PROVE  NewOnce' /\ Links'
    <2>1. \A i \in 1..Len(connMail') : connMail'[i].kind = "new" =>
             i \in 1..Len(connMail) /\ connMail'[i] = connMail[i]
      BY <1>a, <1>c
    <2>a. \A i \in 1..Len(connMail') : connMail'[i].kind = "new" =>
             link'[connMail'[i].to] = "pending" /\ connMail'[i].to[2] <= sess'[connMail'[i].to[1]]
      BY <1>c, <2>1 DEF NewOnce
    <2>b. \A i, j \in 1..Len(connMail') :
             connMail'[i].kind = "new" /\ connMail'[j].kind = "new"
             /\ connMail'[i].to = connMail'[j].to => i = j
      BY <2>1 DEF NewOnce
    <2> QED BY <1>c, <2>a, <2>b DEF NewOnce, Links
  <1>d. ASSUME connMail # <<>>, connMail' = Tail(connMail), UNCHANGED <<link, sess>>
        PROVE  NewOnce' /\ Links'
    <2>1. \A i \in 1..Len(connMail') : i + 1 \in 1..Len(connMail) /\ connMail'[i] = connMail[i + 1]
      BY <1>a, <1>d, TailElements
    <2>2. \A i, j \in 1..Len(connMail') : i + 1 = j + 1 => i = j
      BY <1>a, <1>d
    <2>a. \A i \in 1..Len(connMail') : connMail'[i].kind = "new" =>
             link'[connMail'[i].to] = "pending" /\ connMail'[i].to[2] <= sess'[connMail'[i].to[1]]
      BY <1>d, <2>1 DEF NewOnce
    <2>b. \A i, j \in 1..Len(connMail') :
             connMail'[i].kind = "new" /\ connMail'[j].kind = "new"
             /\ connMail'[i].to = connMail'[j].to => i = j
      BY <2>1, <2>2 DEF NewOnce
    <2> QED BY <1>d, <2>a, <2>b DEF NewOnce, Links
  <1>e. \A o \in Orders \cup {None} : BroadcastOrder(o) \in Messages /\ BroadcastOrder(o).kind # "new"
    BY DEF BroadcastOrder, Message, Messages
  <1>f. \A k \in Answers, c \in Conns, o \in Orders :
           Message(k, c, o) \in Messages /\ Message(k, c, o).kind # "new"
    BY DEF Message, Messages, Answers
  <1>1. CASE UNCHANGED <<connMail, link, sess>>
    BY <1>1 DEF NewOnce, Links
  <1>2. ASSUME NEW o \in Orders, NewOrder(o) PROVE NewOnce' /\ Links'
    BY <1>2, <1>b, <1>e DEF NewOrder, Post
  <1>3. ASSUME NEW o \in Orders, RejectOrder(o) PROVE NewOnce' /\ Links'
    <2>1. who[o] \in Conns
      BY <1>3 DEF RejectOrder, IInv, WhoKnown, TypeOK
    <2> QED BY <1>3, <1>c, <1>e, <1>f, <2>1 DEF RejectOrder, Post, Answers
  <1>4. ASSUME NEW o \in Orders, AcceptOrder(o) PROVE NewOnce' /\ Links'
    <2>1. who[o] \in Conns
      BY <1>4 DEF AcceptOrder, IInv, WhoKnown, TypeOK
    <2> QED BY <1>4, <1>b, <1>f, <2>1 DEF AcceptOrder, Post, Answers
  <1>5. CASE NewTakerOnline
    <2>1. /\ connMail' = Append(connMail, Message("send", greeting, current))
          /\ Message("send", greeting, current) \in Messages
          /\ Message("send", greeting, current).kind # "new"
          /\ UNCHANGED <<link, sess>>
      BY <1>5 DEF NewTakerOnline, Message, Messages, IInv, TypeOK
    <2> QED BY <1>a, <1>b, <2>1, AppendElement
  <1>6. ASSUME NEW c \in Conns, HandleTakeOrder(c) PROVE NewOnce' /\ Links'
    <2>1. PICK o \in Orders : TakeOutdated(c, o) \/ TakeOutOfBounds(c, o) \/ TakeCurrent(c, o)
      BY <1>6 DEF HandleTakeOrder
    <2>2. UNCHANGED <<link, sess>>
      BY <2>1 DEF TakeOutdated, TakeOutOfBounds, TakeCurrent, TakeOrderOf, Post
    <2>3. CASE TakeOutdated(c, o)
      BY <1>b, <1>f, <2>2, <2>3 DEF TakeOutdated, Post, Answers
    <2>4. CASE TakeOutOfBounds(c, o)
      BY <1>c, <1>e, <1>f, <2>2, <2>4 DEF TakeOutOfBounds, Post, Answers
    <2>5. CASE TakeCurrent(c, o)
      BY <1>b, <1>e, <2>2, <2>5 DEF TakeCurrent, Post
    <2> QED BY <2>1, <2>3, <2>4, <2>5
  <1>7. ASSUME NEW c \in Conns, ConnectionCloses(c) PROVE FALSE
    BY <1>7 DEF ConnectionCloses, Links
  <1>8. CASE AcceptContinues \/ MakerSetupEnds \/ MakerSetupCompleted
    BY <1>1, <1>8 DEF AcceptContinues, MakerSetupEnds, MakerSetupCompleted
  <1>9. CASE MakerRestarts
    BY <1>9 DEF MakerRestarts, Young, IInv, TypeOK
  <1>10. CASE HandleNewConnection
    <2>1. Head(connMail) = connMail[1] /\ 1 \in 1..Len(connMail) /\ connMail # <<>>
      BY <1>10, <1>a DEF HandleNewConnection, NextMessage
    <2> DEFINE d == Head(connMail).to
    <2>2. Head(connMail).kind = "new" /\ d \in Conns
      <3>1. Head(connMail) \in Messages /\ Head(connMail).kind = "new"
        BY <1>10, <1>a, FirstMessage DEF HandleNewConnection, NextMessage
      <3> QED BY <3>1 DEF Messages, Answers
    <2>3. link' = [link EXCEPT ![d] = "up"] \/ link' = [link EXCEPT ![d] = "failed"]
      BY <1>10 DEF HandleNewConnection
    <2>4. Links'
      BY <1>a, <2>2, <2>3 DEF Links
    <2>5. \A i \in 1..Len(connMail') : i + 1 \in 1..Len(connMail) /\ connMail'[i] = connMail[i + 1]
      BY <1>a, <1>10, <2>1, TailElements DEF HandleNewConnection, NextMessage
    <2>6. \A i \in 1..Len(connMail') :
             connMail'[i].kind = "new" => connMail'[i].to # d /\ connMail'[i].to \in Conns
      <3> TAKE i \in 1..Len(connMail')
      <3>1. i + 1 # 1 /\ i \in Nat
        OBVIOUS
      <3>2. connMail[i + 1] \in Messages
        BY <1>a, <2>5
      <3> QED BY <2>1, <2>2, <2>5, <3>1, <3>2 DEF NewOnce, Messages, Answers
    <2>7. sess' = sess
      BY <1>10 DEF HandleNewConnection
    <2>8. \A i, j \in 1..Len(connMail') : i + 1 = j + 1 => i = j
      BY <1>a, <2>5
    <2>9. \A e \in Conns : e # d => link'[e] = link[e]
      BY <1>a, <2>3
    <2>10. \A i \in 1..Len(connMail') : connMail'[i].kind = "new" =>
              link'[connMail'[i].to] = "pending" /\ connMail'[i].to[2] <= sess'[connMail'[i].to[1]]
      <3> TAKE i \in 1..Len(connMail')
      <3>1. i + 1 \in 1..Len(connMail) /\ connMail'[i] = connMail[i + 1]
        BY <2>5
      <3>2. SUFFICES ASSUME connMail[i + 1].kind = "new"
                     PROVE  /\ link'[connMail[i + 1].to] = "pending"
                            /\ connMail[i + 1].to[2] <= sess'[connMail[i + 1].to[1]]
        BY <3>1
      <3>3. connMail[i + 1].to # d /\ connMail[i + 1].to \in Conns
        BY <2>6, <3>1, <3>2
      <3> QED BY <2>7, <2>9, <3>1, <3>2, <3>3 DEF NewOnce
    <2>11. \A i, j \in 1..Len(connMail') :
              connMail'[i].kind = "new" /\ connMail'[j].kind = "new"
              /\ connMail'[i].to = connMail'[j].to => i = j
      BY <2>5, <2>8 DEF NewOnce
    <2>12. NewOnce'
      BY <2>10, <2>11 DEF NewOnce
    <2> QED BY <2>4, <2>12
  <1>11. CASE HandleBroadcastOrder \/ HandleTakerMessage
    BY <1>d, <1>11 DEF HandleBroadcastOrder, HandleTakerMessage, NextMessage
  <1>12. ASSUME NEW t \in Takers, TakerStarts(t) PROVE NewOnce' /\ Links'
    <2> DEFINE d == <<t, sess[t] + 1>>
    <2>1. sess[t] = 0 /\ Own(t) \notin Conns /\ d \in Conns
      <3>1. sess'[t] = sess[t] + 1 /\ sess[t] \in Nat /\ sess[t] < MaxSessions
        BY <1>12, <1>a DEF TakerStarts
      <3>2. sess[t] = 0
        BY <3>1 DEF Young
      <3> QED BY <3>1, <3>2, SessionAssumption DEF Own, Conns
    <2>2. /\ link'[d] = "pending"
          /\ \A c \in Conns : c # d => link'[c] = link[c]
          /\ sess' = [sess EXCEPT ![t] = sess[t] + 1]
          /\ connMail' = Append(connMail, Message("new", d, None))
      BY <1>12, <2>1 DEF TakerStarts
    <2>3. Links'
      BY <2>2 DEF Links
    <2>4. Message("new", d, None) \in Messages
      BY <2>1 DEF Message, Messages
    <2>5. \A i \in 1..Len(connMail') :
             \/ i \in 1..Len(connMail) /\ connMail'[i] = connMail[i]
             \/ i = Len(connMail) + 1 /\ connMail'[i].to = d
      BY <1>a, <2>2, <2>4 DEF Message
    <2>6. \A i \in 1..Len(connMail) : connMail[i].kind = "new" =>
             connMail[i].to # d /\ connMail[i].to \in Conns
      <3> TAKE i \in 1..Len(connMail)
      <3>1. connMail[i] \in Messages
        BY <1>a
      <3>2. connMail[i].kind = "new" => connMail[i].to \in Conns
        BY <3>1 DEF Messages, Answers
      <3>3. connMail[i].kind = "new" => connMail[i].to[2] <= sess[connMail[i].to[1]]
        BY DEF NewOnce
      <3>4. d[1] = t /\ d[2] = sess[t] + 1 /\ sess[t] = 0
        BY <2>1
      <3> QED BY <3>2, <3>3, <3>4
    <2>7. \A i \in 1..Len(connMail) : connMail[i].kind = "new" =>
             connMail[i].to[2] <= sess'[connMail[i].to[1]]
      <3> TAKE i \in 1..Len(connMail)
      <3>1. SUFFICES ASSUME connMail[i].kind = "new"
                     PROVE  connMail[i].to[2] <= sess'[connMail[i].to[1]]
        OBVIOUS
      <3>2. connMail[i].to[1] \in Takers /\ connMail[i].to[2] \in Nat
        BY <2>6, <3>1 DEF Conns
      <3>3. connMail[i].to[2] <= sess[connMail[i].to[1]]
        BY <3>1 DEF NewOnce
      <3>4. sess[connMail[i].to[1]] <= sess'[connMail[i].to[1]]
        BY <1>a, <2>2, <3>2
      <3>5. sess[connMail[i].to[1]] \in Nat /\ sess'[connMail[i].to[1]] \in Nat
        BY <1>a, <2>2, <3>2
      <3> QED BY <3>2, <3>3, <3>4, <3>5
    <2>8. d[2] <= sess'[d[1]]
      BY <1>a, <2>1, <2>2
    <2>9. \A i \in 1..Len(connMail') : connMail'[i].kind = "new" =>
             link'[connMail'[i].to] = "pending" /\ connMail'[i].to[2] <= sess'[connMail'[i].to[1]]
      <3> TAKE i \in 1..Len(connMail')
      <3>1. CASE i \in 1..Len(connMail) /\ connMail'[i] = connMail[i]
        <4>1. SUFFICES ASSUME connMail[i].kind = "new"
                       PROVE  /\ link'[connMail[i].to] = "pending"
                              /\ connMail[i].to[2] <= sess'[connMail[i].to[1]]
          BY <3>1
        <4>2. connMail[i].to # d /\ connMail[i].to \in Conns
          BY <2>6, <3>1, <4>1
        <4> QED BY <2>2, <2>7, <3>1, <4>1, <4>2 DEF NewOnce
      <3>2. CASE i = Len(connMail) + 1 /\ connMail'[i].to = d
        BY <2>2, <2>8, <3>2
      <3> QED BY <2>5, <3>1, <3>2
    <2>10. \A i, j \in 1..Len(connMail') :
              connMail'[i].kind = "new" /\ connMail'[j].kind = "new"
              /\ connMail'[i].to = connMail'[j].to => i = j
      BY <2>5, <2>6 DEF NewOnce
    <2> QED BY <2>3, <2>9, <2>10 DEF NewOnce
  <1>13. ASSUME NEW t \in Takers, TakerActor(t) \/ TakerSetupEnds(t)
         PROVE  UNCHANGED <<connMail, link, sess>>
    <2>1. ASSUME NEW kinds, NEW o, Receive(t, kinds, o) PROVE UNCHANGED <<connMail, link, sess>>
      BY <2>1 DEF Receive
    <2>2. CASE HandleNewOrder(t) \/ HandleOrderRejected(t) \/ HandleOrderAccepted(t)
      BY <2>1, <2>2 DEF HandleNewOrder, HandleOrderRejected, HandleOrderAccepted
    <2>3. CASE TakerSetupCompleted(t) \/ TakerSetupEnds(t)
      BY <2>3 DEF TakerSetupCompleted, TakerSetupEnds
    <2> QED BY <1>13, <2>2, <2>3 DEF TakerActor
  <1>14. ASSUME NEW t \in Takers, NEW o \in Orders, TakeOffer(t, o)
         PROVE  UNCHANGED <<connMail, link, sess>>
    BY <1>14 DEF TakeOffer
  <1>15. UNCHANGED vars => UNCHANGED <<connMail, link, sess>>
    BY DEF vars
  <1> QED
    BY <1>1, <1>2, <1>3, <1>4, <1>5, <1>6, <1>7, <1>8, <1>9, <1>10, <1>11, <1>12, <1>13,
       <1>14, <1>15 DEF Next, ConnectionActor

(* What the connection actor writes to a taker is read by one it has told. *)
LEMMA NextShownByConnectionActor ==
    ASSUME IInv, TypeOK', Live, Young, Young', NewOnce, Links, Untold, ConnectionActor,
           NEW t \in Takers, Shown(t)
    PROVE  Shown(t)' /\ (~Greeted(t)' => (down[First(t)])' = <<>>)
  <1> USE DEF makerVars, connVars, takerVars
  <1> DEFINE c == First(t)
  <1>1. /\ c \in Conns /\ c' = c /\ Greeted(t) \in BOOLEAN /\ Greeted(t)' \in BOOLEAN
        /\ down[c] \in Seq(ToTaker) /\ connMail \in Seq(Messages) /\ TypeOK
        /\ link \in [Conns -> {"unused", "pending", "up", "gone", "dead", "reset", "failed"}]
        /\ down \in [Conns -> Seq(ToTaker)] /\ None \notin Conns
    BY YoungConns, NoneAssumption DEF IInv, TypeOK, First, Greeted
  <1>2. /\ greeting = None /\ connMail # <<>> /\ connMail' = Tail(connMail)
        /\ Head(connMail) \in Messages
    BY <1>1, FirstMessage DEF ConnectionActor, HandleNewConnection, HandleBroadcastOrder,
                              HandleTakerMessage, NextMessage
  <1>3. Greeted(t) <=> link[c] = "up"
    BY <1>1, <1>2 DEF Greeted
  <1>4. ~Greeted(t) => down[c] = <<>>
    BY DEF Untold
  <1>5. CASE HandleNewConnection
    <2> DEFINE d == Head(connMail).to
    <2>1. Head(connMail).kind = "new" /\ d \in Conns
      BY <1>2, <1>5 DEF HandleNewConnection, NextMessage, Messages, Answers
    <2>2. link[d] = "pending"
      <3>1. 1 \in 1..Len(connMail) /\ connMail[1] = Head(connMail)
        BY <1>1, <1>2
      <3> QED BY <2>1, <3>1 DEF NewOnce
    <2>3. \/ link' = [link EXCEPT ![d] = "up"] /\ greeting' = d
          \/ link' = [link EXCEPT ![d] = "failed"] /\ greeting' = greeting
      BY <1>5 DEF HandleNewConnection
    <2>4. Greeted(t)' = Greeted(t)
      <3>1. CASE c = d
        BY <1>1, <1>3, <2>1, <2>2, <2>3, <3>1 DEF Greeted
      <3>2. CASE c # d
        BY <1>1, <1>2, <2>3, <3>2 DEF Greeted
      <3> QED BY <3>1, <3>2
    <2>5. UNCHANGED <<current, published, known, feed, tState, down>>
      BY <1>5 DEF HandleNewConnection
    <2>6. Announced(Head(connMail), c) = {}
      BY <2>1 DEF Announced
    <2>7. (down[c])' = down[c]
      BY <1>1, <2>5
    <2>8. Shown(t)'
      BY <1>1, <1>2, <2>4, <2>5, <2>6, <2>7, ShownSent
    <2> QED BY <1>4, <2>4, <2>7, <2>8
  <1>6. ASSUME UNCHANGED <<current, published, known, feed, tState, link, greeting>>,
               NEW cs, NEW kind, NEW order, Deliver(cs, kind, order),
               [kind |-> kind, order |-> order] \in ToTaker,
               c \in cs /\ link[c] = "up" =>
                  Announced([kind |-> kind, order |-> order], c) = Announced(Head(connMail), c),
               c \notin cs /\ link[c] = "up" => Announced(Head(connMail), c) = {}
        PROVE  Shown(t)' /\ (~Greeted(t)' => (down[c])' = <<>>)
    <2>1. Greeted(t)' = Greeted(t)
      BY <1>1, <1>6 DEF Greeted
    <2>2. CASE c \in cs /\ link[c] = "up"
      <3>1. (down[c])' = Append(down[c], [kind |-> kind, order |-> order])
        BY <1>1, <1>6, <2>2 DEF Deliver
      <3>2. Shown(t)'
        BY <1>1, <1>2, <1>6, <2>1, <2>2, <3>1, ShownSent
      <3> QED BY <1>3, <2>1, <2>2, <3>2
    <2>3. CASE ~(c \in cs /\ link[c] = "up")
      <3>1. (down[c])' = down[c]
        BY <1>1, <1>6, <2>3 DEF Deliver
      <3>2. Announced(Head(connMail), c) = {} \/ (down[c] = <<>> /\ ~Greeted(t))
        BY <1>3, <1>4, <1>6, <2>3
      <3>3. Shown(t)'
        BY <1>1, <1>2, <1>6, <2>1, <3>1, <3>2, ShownSent
      <3> QED BY <1>4, <2>1, <3>1, <3>3
    <2> QED BY <2>2, <2>3
  <1>7. CASE HandleBroadcastOrder
    <2> DEFINE alive == {d \in Conns : link[d] \in {"up", "gone"}}
    <2>1. /\ Deliver(alive, "current", Head(connMail).order)
          /\ UNCHANGED <<current, published, known, feed, tState, link, greeting>>
      <3>1. \A d \in Conns : link[d] # "dead"
        BY DEF Links
      <3> QED BY <1>7, <3>1 DEF HandleBroadcastOrder
    <2>2. Head(connMail).kind = "broadcast" /\ Head(connMail).order \in Orders \cup {None}
      BY <1>2, <1>7 DEF HandleBroadcastOrder, NextMessage, Messages, Answers
    <2>3. [kind |-> "current", order |-> Head(connMail).order] \in ToTaker
      BY <2>2 DEF ToTaker
    <2>4. Announced([kind |-> "current", order |-> Head(connMail).order], c)
          = Announced(Head(connMail), c)
      BY <2>2 DEF Announced
    <2>5. link[c] = "up" => c \in alive
      BY <1>1
    <2> HIDE DEF alive, c
    <2> QED BY <1>6, <2>1, <2>3, <2>4, <2>5 DEF c
  <1>8. CASE HandleTakerMessage
    <2> DEFINE m == Head(connMail)
               cs == IF link[m.to] \in {"up", "gone"} THEN {m.to} ELSE {}
               kind == IF m.kind = "send" THEN "current" ELSE m.kind
    <2>1. /\ Deliver(cs, kind, m.order)
          /\ UNCHANGED <<current, published, known, feed, tState, link, greeting>>
      BY <1>8 DEF HandleTakerMessage
    <2>2. /\ m.to \in Conns
          /\ \/ m.kind = "send" /\ m.order \in Orders \cup {None}
             \/ m.kind \in Answers /\ m.order \in Orders
      BY <1>2, <1>8 DEF HandleTakerMessage, NextMessage, Messages, Answers
    <2>3. [kind |-> kind, order |-> m.order] \in ToTaker
      BY <2>2 DEF ToTaker, Answers
    <2>4. c \in cs => Announced([kind |-> kind, order |-> m.order], c) = Announced(m, c)
      BY <2>2 DEF Announced, Answers
    <2>5. c \notin cs /\ link[c] = "up" => Announced(m, c) = {}
      BY <2>2 DEF Announced, Answers
    <2> HIDE DEF cs, kind
    <2> QED BY <1>6, <2>1, <2>3, <2>4, <2>5
  <1> QED BY <1>5, <1>7, <1>8 DEF ConnectionActor

(* What is posted to the connection actor is put in the line.              *)
LEMMA NextShownByMaker ==
    ASSUME IInv, TypeOK', Young, Young', NEW t \in Takers, Shown(t), Untold,
           \/ \E o \in Orders : NewOrder(o) \/ RejectOrder(o) \/ AcceptOrder(o)
           \/ NewTakerOnline
           \/ \E c \in Conns : HandleTakeOrder(c)
    PROVE  Shown(t)' /\ (~Greeted(t)' => (down[First(t)])' = <<>>)
  <1> USE DEF makerVars, connVars, takerVars
  <1> DEFINE c == First(t)
             Same == /\ (down[c])' = down[c] /\ (known[t])' = known[t] /\ (feed[t])' = feed[t]
                     /\ (Took(t)' <=> Took(t))
  <1>1. /\ c \in Conns /\ TypeOK /\ connMail \in Seq(Messages)
        /\ greeting \in Conns \cup {None} /\ None \notin Conns
        /\ current \in published \cup {None} /\ published \subseteq Orders
    BY YoungConns, NoneAssumption DEF IInv, TypeOK
  <1>2. UNCHANGED <<down, known, feed, tState>> => Same
    BY DEF Took, First
  <1>3. ~Greeted(t) => down[c] = <<>>
    BY DEF Untold
  <1>a. ASSUME NEW m \in Messages, connMail' = connMail \o <<m>>, Same,
               Greeted(t)' = Greeted(t),
               \/ Announced(m, c) = {} /\ UNCHANGED <<current, published>>
               \/ /\ Announced(m, c) = {current'}
                  /\ current' = None \/ current' \notin published
                  /\ published \subseteq published'
        PROVE  Shown(t)'
    <2>1. connMail' = Append(connMail, m)
      BY <1>1, <1>a, AppendElement
    <2>2. ~Greeted(t)' => known[t] = {}
      BY <1>a DEF Shown, InLine
    <2> HIDE DEF c
    <2> QED BY <1>1, <1>a, <2>1, <2>2, ShownPost DEF c
  <1>b. UNCHANGED <<link, greeting>> => Greeted(t)' = Greeted(t)
    BY DEF Greeted, First
  (* Two messages: one to a taker, then that the order is gone.            *)
  <1>c. ASSUME NEW m \in Messages, Announced(m, c) = {}, UNCHANGED published,
               connMail' = connMail \o <<m, BroadcastOrder(None)>>,
               Same, Greeted(t)' = Greeted(t), current' = None
        PROVE  Shown(t)'
    <2> DEFINE q == down[c]
               r == connMail \o <<m>>
               b == BroadcastOrder(None)
    <2>1. q \in Seq(ToTaker) /\ r \in Seq(Messages) /\ connMail' = r \o <<b>>
      BY <1>1, <1>c, YoungConns
    <2>2. b \in Messages /\ Announced(b, c) = {None}
      BY DEF BroadcastOrder, Message, Messages, Announced
    <2>3. Took(t) \in BOOLEAN /\ Greeted(t) \in BOOLEAN /\ c' = c /\ Took(t)' = Took(t)
      BY <1>c DEF Took, Greeted, First
    <2>4. InLine(News(q, connMail, c, current), Places(q, connMail), known[t], feed[t], Took(t),
                 Greeted(t), published)
      BY DEF Shown
    <2>5. InLine(News(q, r, c, current), Places(q, r), known[t], feed[t], Took(t), Greeted(t),
                 published)
      BY <1>1, <1>c, <2>1, <2>3, <2>4, LinePost
    <2>6. ~Greeted(t) => known[t] = {}
      BY DEF Shown, InLine
    <2>7. InLine(News(q, r \o <<b>>, c, None), Places(q, r \o <<b>>), known[t], feed[t], Took(t),
                 Greeted(t), published)
      <3> HIDE DEF q, r, b, c
      <3> QED BY <1>1, <2>1, <2>2, <2>3, <2>5, <2>6, LinePost
    <2> QED BY <1>c, <2>1, <2>3, <2>7 DEF Shown
  <1>d. \A o \in Orders \cup {None} :
           BroadcastOrder(o) \in Messages /\ Announced(BroadcastOrder(o), c) = {o}
    BY DEF BroadcastOrder, Message, Messages, Announced
  <1>e. \A k \in Answers, e \in Conns, o \in Orders :
           Message(k, e, o) \in Messages /\ Announced(Message(k, e, o), c) = {}
    BY DEF Message, Messages, Answers, Announced
  <1>4. ASSUME NEW o \in Orders, NewOrder(o) PROVE Shown(t)' /\ Same /\ Greeted(t)' = Greeted(t)
    <2>1. /\ connMail' = connMail \o <<BroadcastOrder(o)>> /\ current' = o /\ o \notin published
          /\ published' = published \cup {o} /\ UNCHANGED <<link, greeting>>
          /\ UNCHANGED <<down, known, feed, tState>>
      BY <1>4 DEF NewOrder, Post
    <2> QED BY <1>2, <1>a, <1>b, <1>d, <2>1
  <1>5. ASSUME NEW o \in Orders, RejectOrder(o) PROVE Shown(t)' /\ Same /\ Greeted(t)' = Greeted(t)
    <2>1. /\ connMail' = connMail \o <<Message("reject", who[o], o), BroadcastOrder(None)>>
          /\ current' = None /\ UNCHANGED <<link, greeting, published>>
          /\ UNCHANGED <<down, known, feed, tState>>
      BY <1>5 DEF RejectOrder, Post
    <2>2. who[o] \in Conns
      BY <1>5 DEF RejectOrder, IInv, WhoKnown, TypeOK
    <2> QED BY <1>2, <1>c, <1>b, <1>e, <2>1, <2>2 DEF Answers
  <1>6. ASSUME NEW o \in Orders, AcceptOrder(o) PROVE Shown(t)' /\ Same /\ Greeted(t)' = Greeted(t)
    <2>1. /\ connMail' = connMail \o <<Message("confirm", who[o], o)>>
          /\ UNCHANGED <<link, greeting, published, current>>
          /\ UNCHANGED <<down, known, feed, tState>>
      BY <1>6 DEF AcceptOrder, Post
    <2>2. who[o] \in Conns
      BY <1>6 DEF AcceptOrder, IInv, WhoKnown, TypeOK
    <2> QED BY <1>2, <1>a, <1>b, <1>e, <2>1, <2>2 DEF Answers
  <1>7. ASSUME NEW d \in Conns, HandleTakeOrder(d)
        PROVE  Shown(t)' /\ Same /\ Greeted(t)' = Greeted(t)
    <2>1. PICK o \in Orders : TakeOutdated(d, o) \/ TakeOutOfBounds(d, o) \/ TakeCurrent(d, o)
      BY <1>7 DEF HandleTakeOrder
    <2>2. UNCHANGED <<link, greeting, published, down, known, feed, tState>>
      BY <2>1 DEF TakeOutdated, TakeOutOfBounds, TakeCurrent, TakeOrderOf, Post
    <2>3. CASE TakeOutdated(d, o)
      <3>1. connMail' = connMail \o <<Message("invalid", d, o)>> /\ UNCHANGED current
        BY <2>3 DEF TakeOutdated, Post
      <3> QED BY <1>2, <1>a, <1>b, <1>e, <2>2, <3>1 DEF Answers
    <2>4. CASE TakeOutOfBounds(d, o)
      <3>1. /\ connMail' = connMail \o <<Message("reject", d, o), BroadcastOrder(None)>>
            /\ current' = None
        BY <2>4 DEF TakeOutOfBounds, InsertCfd, Post
      <3> QED BY <1>2, <1>c, <1>b, <1>e, <2>2, <3>1 DEF Answers
    <2>5. CASE TakeCurrent(d, o)
      <3>1. connMail' = connMail \o <<BroadcastOrder(None)>> /\ current' = None
        BY <2>5 DEF TakeCurrent, InsertCfd, Post
      <3> QED BY <1>2, <1>a, <1>b, <1>d, <2>2, <3>1
    <2> QED BY <2>1, <2>3, <2>4, <2>5
  <1>8. CASE NewTakerOnline
    <2> DEFINE m == Message("send", greeting, current)
    <2>1. /\ greeting # None /\ connMail' = Append(connMail, m) /\ greeting' = None
          /\ UNCHANGED <<link, down, known, feed, tState, current, published>>
      BY <1>8 DEF NewTakerOnline
    <2>2. m \in Messages
      BY <1>1, <2>1 DEF Message, Messages
    <2>3. Same /\ (Greeted(t)' <=> link[c] = "up")
      BY <1>1, <1>2, <2>1 DEF Greeted, First
    <2>4. CASE greeting = c
      <3>1. ~Greeted(t) /\ Announced(m, c) = {current}
        BY <2>4 DEF Greeted, Announced, Message
      <3>2. known[t] = {}
        BY <3>1 DEF Shown, InLine
      <3>3. Shown(t)'
        BY <1>1, <2>1, <2>2, <2>3, <3>1, <3>2, ShownPost
      <3> QED BY <1>3, <2>3, <3>1, <3>3
    <2>5. CASE greeting # c
      <3>1. Greeted(t)' = Greeted(t)
        BY <2>3, <2>5 DEF Greeted
      <3>2. Announced(m, c) = {}
        BY <2>5 DEF Announced, Message
      <3>3. Shown(t)'
        BY <1>1, <2>1, <2>2, <2>3, <3>1, <3>2, ShownPost
      <3> QED BY <1>3, <2>3, <3>1, <3>3
    <2> QED BY <2>4, <2>5
  <1>9. ASSUME Shown(t)', Same, Greeted(t)' = Greeted(t)
        PROVE  Shown(t)' /\ (~Greeted(t)' => (down[c])' = <<>>)
    BY <1>3, <1>9
  <1> QED BY <1>4, <1>5, <1>6, <1>7, <1>8, <1>9

(* A taker starts, reads, or takes an order.                               *)
LEMMA NextShownByTaker ==
    ASSUME IInv, TypeOK', Live, Young, Young', Links, Untold, NEW t \in Takers, Shown(t),
           NEW s \in Takers,
           \/ TakerStarts(s) \/ TakerActor(s) \/ TakerSetupEnds(s)
           \/ \E o \in Orders : TakeOffer(s, o)
    PROVE  Shown(t)' /\ (~Greeted(t)' => (down[First(t)])' = <<>>)
  <1> USE DEF makerVars, connVars, takerVars
  <1> DEFINE c == First(t)
  <1>1. /\ c \in Conns /\ TypeOK /\ connMail \in Seq(Messages)
        /\ link \in [Conns -> {"unused", "pending", "up", "gone", "dead", "reset", "failed"}]
        /\ down \in [Conns -> Seq(ToTaker)] /\ sess \in [Takers -> 0..MaxSessions]
        /\ known \in [Takers -> SUBSET Orders] /\ feed \in [Takers -> Orders \cup {None}]
        /\ tState \in [Takers -> [Orders -> States \ {"incoming"}]]
    BY YoungConns DEF IInv, TypeOK
  <1>2. ~Greeted(t) => down[c] = <<>>
    BY DEF Untold
  <1>3. /\ Own(s) = c => s = t
        /\ Online(s) => Own(s) = First(s) /\ link[First(s)] = "up"
    BY <1>1, YoungLinks DEF Own, First
  <1>4. CASE TakerStarts(s)
    <2> DEFINE d == <<s, sess[s] + 1>>
    <2>1. sess[s] = 0 /\ Own(s) \notin Conns /\ d \in Conns /\ link[First(s)] # "up"
      <3>1. sess'[s] = sess[s] + 1 /\ sess[s] \in Nat /\ sess[s] < MaxSessions
        BY <1>1, <1>4 DEF TakerStarts
      <3>2. sess[s] = 0
        BY <3>1 DEF Young
      <3>3. Own(s) \notin Conns /\ link[First(s)] # "up"
        BY <1>1, <3>2, YoungLinks
      <3>4. d \in Conns
        BY <3>1, <3>2, SessionAssumption DEF Conns
      <3> QED BY <3>2, <3>3, <3>4
    <2>2. /\ link'[d] = "pending"
          /\ \A e \in Conns : e # d => link'[e] = link[e]
          /\ connMail' = Append(connMail, Message("new", d, None))
          /\ Message("new", d, None) \in Messages
          /\ Announced(Message("new", d, None), c) = {}
          /\ UNCHANGED <<current, published, known, greeting>>
      BY <1>4, <2>1 DEF TakerStarts, Message, Messages, Announced
    <2>3. (down[c])' = down[c]
      BY <1>1, <1>4, <2>1 DEF TakerStarts
    <2>4. CASE s = t
      <3>1. d = c /\ ~Greeted(t) /\ ~Greeted(t)'
        BY <1>1, <2>1, <2>2, <2>4 DEF First, Greeted
      <3>2. Greeted(t) = FALSE /\ Greeted(t)' = FALSE
        BY <3>1 DEF Greeted
      <3>3. Shown(t)'
        BY <1>1, <2>2, <2>3, <3>1, <3>2, ShownPost
      <3> QED BY <1>2, <2>3, <3>1, <3>3
    <2>5. CASE s # t
      <3>1. d # c
        BY <2>5 DEF First
      <3>2. Greeted(t)' = Greeted(t)
        BY <1>1, <2>2, <3>1 DEF Greeted, First
      <3>3. (feed[t])' = feed[t] /\ (Took(t)' <=> Took(t))
        BY <1>1, <1>4, <2>5 DEF TakerStarts, Took
      <3>4. Shown(t)'
        BY <1>1, <2>2, <2>3, <3>2, <3>3, ShownPost
      <3> QED BY <1>2, <2>3, <3>2, <3>4
    <2> QED BY <2>4, <2>5
  <1>5. ASSUME UNCHANGED <<connMail, current, published, link, greeting>>,
               (down[c])' = down[c], (known[t])' = known[t], (feed[t])' = feed[t],
               Took(t) => Took(t)'
        PROVE  Shown(t)' /\ (~Greeted(t)' => (down[c])' = <<>>)
    <2>1. Greeted(t)' = Greeted(t)
      BY <1>5 DEF Greeted, First
    <2>2. Shown(t)'
      BY <1>1, <1>5, <2>1, ShownSame
    <2> QED BY <1>2, <1>5, <2>1, <2>2
  <1>6. CASE TakerSetupCompleted(s) \/ TakerSetupEnds(s)
    <2>1. /\ UNCHANGED <<connMail, current, published, link, greeting, down, known, feed>>
          /\ \/ UNCHANGED tState
             \/ \E o \in Orders, x \in {"open", "failed"} : tState' = [tState EXCEPT ![s][o] = x]
      <3>1. CASE TakerSetupEnds(s)
        BY <3>1 DEF TakerSetupEnds
      <3>2. CASE TakerSetupCompleted(s)
        <4>1. tSetup[s].order \in Orders
          BY <3>2 DEF TakerSetupCompleted, IInv, TypeOK, Setups
        <4> QED BY <3>2, <4>1 DEF TakerSetupCompleted, Concluded
      <3> QED BY <1>6, <3>1, <3>2
    <2>2. Took(t) => Took(t)'
      <3>1. CASE UNCHANGED tState
        BY <3>1 DEF Took
      <3>2. ASSUME NEW o \in Orders, NEW x \in {"open", "failed"},
                   tState' = [tState EXCEPT ![s][o] = x]
            PROVE  \A p \in Orders : tState[t][p] # "none" => tState'[t][p] # "none"
        BY <1>1, <3>2
      <3> QED BY <2>1, <3>1, <3>2 DEF Took
    <2> QED BY <1>1, <1>5, <2>1, <2>2
  <1>7. ASSUME NEW o \in Orders, TakeOffer(s, o)
        PROVE  Shown(t)' /\ (~Greeted(t)' => (down[c])' = <<>>)
    <2>1. /\ UNCHANGED <<connMail, current, published, link, greeting, down, known>>
          /\ tState' = [tState EXCEPT ![s][o] = "outgoing"]
          /\ feed' = [feed EXCEPT ![s] = None]
      BY <1>7 DEF TakeOffer
    <2>2. CASE s # t
      <3>1. (feed[t])' = feed[t] /\ (Took(t) => Took(t)')
        BY <1>1, <2>1, <2>2 DEF Took
      <3> QED BY <1>1, <1>5, <2>1, <3>1
    <2>3. CASE s = t
      <3>1. (feed[t])' = None /\ Took(t)' = TRUE
        BY <1>1, <2>1, <2>3 DEF Took
      <3>2. Greeted(t)' = Greeted(t) /\ Greeted(t) \in BOOLEAN /\ Took(t) \in BOOLEAN
        BY <2>1 DEF Greeted, First, Took
      <3>3. InLine(News(down[c], connMail, c, current), Places(down[c], connMail), known[t],
                   None, TRUE, Greeted(t), published)
        BY <3>2, LineTakes DEF Shown
      <3>4. Shown(t)'
        BY <2>1, <3>1, <3>2, <3>3 DEF Shown, First
      <3> QED BY <1>2, <2>1, <3>2, <3>4
    <2> QED BY <2>2, <2>3
  (* A message is read.                                                    *)
  <1>8. ASSUME NEW kinds, NEW o, Receive(s, kinds, o)
        PROVE  /\ UNCHANGED <<connMail, current, published, link, greeting>>
               /\ s # t => (down[c])' = down[c]
               /\ s = t => /\ Greeted(t) /\ Greeted(t)' /\ down[c] # <<>>
                           /\ (down[c])' = Tail(down[c])
                           /\ Head(down[c]).kind \in kinds /\ Head(down[c]).order = o
    <2>1. /\ UNCHANGED <<connMail, current, published, link, greeting>>
          /\ Online(s) /\ down[Own(s)] # <<>>
          /\ Head(down[Own(s)]).kind \in kinds /\ o = Head(down[Own(s)]).order
          /\ down' = [down EXCEPT ![Own(s)] = Tail(@)]
      BY <1>8 DEF Receive
    <2>2. Own(s) = First(s)
      BY <1>3, <2>1
    <2>3. s # t => (down[c])' = down[c]
      BY <1>1, <2>1, <2>2 DEF First
    <2>4. ASSUME s = t
          PROVE  /\ Greeted(t) /\ Greeted(t)' /\ down[c] # <<>> /\ (down[c])' = Tail(down[c])
                 /\ Head(down[c]).kind \in kinds /\ Head(down[c]).order = o
      <3>1. down[c] # <<>> /\ (down[c])' = Tail(down[c])
        BY <1>1, <2>1, <2>2, <2>4 DEF First
      <3>2. Greeted(t)
        BY <1>2, <3>1
      <3>3. Greeted(t)'
        BY <2>1, <3>2 DEF Greeted, First
      <3> QED BY <2>1, <2>2, <2>4, <3>1, <3>2, <3>3
    <2> QED BY <2>1, <2>3, <2>4
  <1>9. CASE HandleNewOrder(s)
    <2>1. PICK o \in Orders \cup {None} :
             /\ Receive(s, {"current"}, o)
             /\ known' = [known EXCEPT ![s] = @ \cup ({o} \ {None})]
             /\ feed' = IF o \in known[s] THEN feed ELSE [feed EXCEPT ![s] = o]
             /\ UNCHANGED <<tState, tSetup>>
      BY <1>9 DEF HandleNewOrder
    <2>2. CASE s # t
      <3>1. (known[t])' = known[t] /\ (feed[t])' = feed[t] /\ (Took(t) => Took(t)')
        BY <1>1, <2>1, <2>2 DEF Took
      <3> QED BY <1>5, <1>8, <2>1, <2>2, <3>1
    <2>3. CASE s = t
      <3>1. /\ (known[t])' = known[t] \cup ({o} \ {None})
            /\ (feed[t])' = (IF o \in known[t] THEN feed[t] ELSE o) /\ (Took(t) => Took(t)')
        BY <1>1, <2>1, <2>3 DEF Took
      <3>2. Head(down[c]).kind \in {"current"} /\ Head(down[c]).order = o
        BY <1>8, <2>1, <2>3
      <3>3. Announced(Head(down[c]), c) = {o}
        BY <3>2 DEF Announced
      <3>4. After(Announced(Head(down[c]), c), known[t], feed[t], (known[t])', (feed[t])')
        BY <3>1, <3>3 DEF After
      <3>5. Shown(t)'
        BY <1>1, <1>8, <2>1, <2>3, <3>1, <3>4, ShownHandled
      <3> QED BY <1>8, <2>1, <2>3, <3>5
    <2> QED BY <2>2, <2>3
  <1>10. ASSUME NEW kinds, NEW o, Receive(s, kinds, o), "current" \notin kinds,
                kinds \subseteq Answers, UNCHANGED <<known, feed>>, Took(t) => Took(t)'
         PROVE  Shown(t)' /\ (~Greeted(t)' => (down[c])' = <<>>)
    <2>2. CASE s # t
      BY <1>1, <1>5, <1>8, <1>10, <2>2
    <2>3. CASE s = t
      <3>1. Announced(Head(down[c]), c) = {}
        BY <1>8, <1>10, <2>3 DEF Announced, Answers
      <3>2. After(Announced(Head(down[c]), c), known[t], feed[t], (known[t])', (feed[t])')
        BY <1>10, <3>1 DEF After
      <3>3. Shown(t)'
        BY <1>1, <1>8, <1>10, <2>3, <3>2, ShownHandled
      <3> QED BY <1>8, <1>10, <2>3, <3>3
    <2> QED BY <2>2, <2>3
  <1>11. CASE HandleOrderRejected(s)
    <2>1. PICK o \in Orders :
             /\ Receive(s, {"reject", "invalid"}, o)
             /\ tState' = [tState EXCEPT ![s][o] = "rejected"]
             /\ UNCHANGED <<known, feed, tSetup>>
      BY <1>11 DEF HandleOrderRejected
    <2>2. Took(t) => Took(t)'
      BY <1>1, <2>1 DEF Took
    <2> QED BY <1>10, <2>1, <2>2 DEF Answers
  <1>12. CASE HandleOrderAccepted(s)
    <2>1. PICK o \in Orders :
             /\ Receive(s, {"confirm"}, o)
             /\ UNCHANGED tState \/ tState' = [tState EXCEPT ![s][o] = "setup"]
             /\ UNCHANGED <<known, feed>>
      BY <1>12 DEF HandleOrderAccepted
    <2>2. Took(t) => Took(t)'
      BY <1>1, <2>1 DEF Took
    <2> QED BY <1>10, <2>1, <2>2 DEF Answers
  <1> QED BY <1>4, <1>6, <1>7, <1>9, <1>11, <1>12 DEF TakerActor

LEMMA InitFeeds == Init => Feeds
  <1> SUFFICES ASSUME Init PROVE NewOnce /\ Links /\ Untold /\ \A t \in Takers : Shown(t)
    BY DEF Feeds
  <1>1. /\ connMail = <<>> /\ current = None /\ published = {}
        /\ \A t \in Takers : First(t) \in Conns
        /\ \A c \in Conns : link[c] = "unused" /\ down[c] = <<>>
        /\ \A t \in Takers : known[t] = {} /\ feed[t] = None
    BY YoungConns, InitInv DEF Init, IInv
  <1>2. NewOnce /\ Links /\ Untold
    BY <1>1 DEF NewOnce, Links, Untold
  <1>3. ASSUME NEW t \in Takers PROVE Shown(t)
    <2> DEFINE N == News(<<>>, <<>>, First(t), None)
    <2>1. Places(<<>>, <<>>) = 1 /\ N[1] = {None}
      BY DEF News, Places
    <2>2. ~Greeted(t) /\ Greeted(t) \in BOOLEAN
      BY <1>1 DEF Greeted
    <2> HIDE DEF N
    <2>3. OneStretch(N, 1) /\ LastIsOnOffer(N, 1) /\ KnownFirst(N, 1, {})
          /\ KnownShown(N, 1, {}, None, Took(t))
      BY DEF OneStretch, LastIsOnOffer, KnownFirst, KnownShown
    <2>4. InLine(N, 1, {}, None, Took(t), Greeted(t), {})
      BY <2>1, <2>2, <2>3 DEF InLine
    <2> QED BY <1>1, <2>1, <2>4 DEF Shown, N
  <1> QED BY <1>2, <1>3

LEMMA NextFeeds ==
    ASSUME IInv, TypeOK', Live, Feeds, [Next]_vars
    PROVE  Feeds'
  <1> USE DEF makerVars, connVars, takerVars
  <1>1. SUFFICES ASSUME Young' PROVE (NewOnce /\ Links /\ Untold /\ \A t \in Takers : Shown(t))'
    BY DEF Feeds
  <1>2. TypeOK /\ Young
    BY <1>1, YoungBefore DEF IInv
  <1>3. NewOnce /\ Links /\ Untold /\ \A t \in Takers : Shown(t)
    BY <1>2 DEF Feeds
  <1>4. NewOnce' /\ Links'
    BY <1>1, <1>2, <1>3, NextNewOnce
  <1>5. ASSUME NEW t \in Takers PROVE Shown(t)' /\ (~Greeted(t)' => (down[First(t)])' = <<>>)
    <2>0. Shown(t) /\ (~Greeted(t) => down[First(t)] = <<>>)
      BY <1>3 DEF Untold
    <2>1. CASE \/ \E o \in Orders : NewOrder(o) \/ RejectOrder(o) \/ AcceptOrder(o)
               \/ NewTakerOnline
               \/ \E c \in Conns : HandleTakeOrder(c)
      BY <1>1, <1>2, <1>3, <2>0, <2>1, NextShownByMaker
    <2>2. CASE ConnectionActor
      BY <1>1, <1>2, <1>3, <2>0, <2>2, NextShownByConnectionActor
    <2>3. ASSUME NEW s \in Takers,
                 \/ TakerStarts(s) \/ TakerActor(s) \/ TakerSetupEnds(s)
                 \/ \E o \in Orders : TakeOffer(s, o)
          PROVE  Shown(t)' /\ (~Greeted(t)' => (down[First(t)])' = <<>>)
      BY <1>1, <1>2, <1>3, <2>0, <2>3, NextShownByTaker
    <2>4. CASE UNCHANGED <<published, current, connMail, greeting, link, down, known, tState,
                           feed>>
      <3>1. /\ Greeted(t)' = Greeted(t) /\ (Took(t) => Took(t)') /\ (down[First(t)])' = down[First(t)]
            /\ (known[t])' = known[t] /\ (feed[t])' = feed[t]
        BY <2>4 DEF Greeted, Took, First
      <3>2. Shown(t)'
        BY <1>2, <2>0, <2>4, <3>1, ShownSame
      <3> QED BY <2>0, <3>1, <3>2
    <2>5. CASE AcceptContinues \/ MakerSetupEnds \/ MakerSetupCompleted \/ UNCHANGED vars
      BY <2>4, <2>5 DEF AcceptContinues, MakerSetupEnds, MakerSetupCompleted, vars
    <2>6. CASE MakerRestarts
      BY <1>1, <1>2, <2>6 DEF MakerRestarts, Young, TypeOK
    <2>7. ASSUME NEW c \in Conns, ConnectionCloses(c) PROVE FALSE
      BY <1>3, <2>7 DEF ConnectionCloses, Links
    <2> QED BY <2>1, <2>2, <2>3, <2>5, <2>6, <2>7 DEF Next
  <1>6. Untold'
    BY <1>5 DEF Untold
  <1> QED BY <1>4, <1>5, <1>6

(* Until a daemon stops no taker is shown an order that is not on offer    *)
(* once all messages are handled, whichever way broadcasts, the greeting   *)
(* of new connections and the takers' own orders cross                     *)
(* (handle_broadcast_order against handle_new_taker_online).               *)
THEOREM FeedsFollow == Spec => []FeedsAgree
  <1>1. IInv /\ Answered /\ Feeds /\ [Next]_vars => Feeds'
    <2> SUFFICES ASSUME IInv, Answered, Feeds, [Next]_vars PROVE Feeds'
      OBVIOUS
    <2>1. TypeOK' /\ Live
      BY NextTypeOK DEF Answered
    <2> QED BY <2>1, NextFeeds
  <1>2. IInv /\ Answered /\ Feeds => FeedsAgree
    <2> SUFFICES ASSUME IInv, Answered, Feeds, Quiescent, Young, NEW t \in Takers, Online(t)
                 PROVE  /\ feed[t] \in {current, None}
                        /\ (\A o \in Orders : tState[t][o] = "none") => feed[t] = current
      BY DEF FeedsAgree, Young
    <2>1. First(t) \in Conns /\ TypeOK /\ Live /\ Links /\ Shown(t)
      BY YoungConns DEF Feeds, IInv, Answered
    <2>2. link[First(t)] = "up" /\ connMail = <<>> /\ greeting = None /\ down[First(t)] = <<>>
      BY <2>1, YoungLinks DEF Quiescent
    <2>3. Greeted(t)
      BY <2>1, <2>2, NoneAssumption DEF Greeted
    <2> DEFINE N == News(<<>>, <<>>, First(t), current)
    <2>4. Places(<<>>, <<>>) = 1 /\ N[1] = {current}
      BY DEF News, Places
    <2> HIDE DEF N
    <2>5. InLine(N, 1, known[t], feed[t], Took(t), TRUE, published)
      <3>1. Greeted(t) = TRUE
        BY <2>3 DEF Greeted
      <3> QED BY <2>1, <2>2, <2>4, <3>1 DEF Shown, N
    <2>6. NothingTold(N, 1)
      BY DEF NothingTold
    <2>7. Sees(feed[t], Took(t), {current})
      BY <2>4, <2>5, <2>6 DEF InLine
    <2> QED BY <2>7 DEF Sees, Took
  <1> QED BY AnswersOnce, InitFeeds, <1>1, <1>2, PTL DEF Spec

=============================================================================
