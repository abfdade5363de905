------------------------ MODULE ContractSetupProofs ------------------------
(***************************************************************************)
(* Proofs about ContractSetup, for any orders, terms and failures:         *)
(* TypeOK, LockIsBacked and ContractsMatch.                                *)
(***************************************************************************)

EXTENDS ContractSetup, SequenceTheorems, TLAPS

(***************************************************************************)
(* The inductive invariant                                                 *)
(***************************************************************************)

KeyOf(p, lock) == IF p = "maker" THEN lock.maker ELSE lock.taker

(* What is on its way, or in an inbox, was said by the other party.        *)
Delivered ==
    /\ \A i \in 1..Len(toMaker) : toMaker[i] \in sent["taker"]
    /\ \A i \in 1..Len(toTaker) :
         toTaker[i].kind = "accepted" \/ toTaker[i] \in sent["maker"]
    /\ \A p \in Parties, o \in Orders : \A i \in 1..Len(tasks[p][o].inbox) :
         tasks[p][o].inbox[i] \in sent[Other(p)]

(* How far a set-up has got, by what was said.                             *)
ProgressOf(p, o) ==
    LET step == tasks[p][o].step IN
    /\ step \in {"msg0", "msg1", "msg2", "ok"} => Msg0(o) \in sent[p]
    /\ step \in {"msg1", "msg2", "ok"} =>
         tasks[p][o].other \in Orders /\ Msg1(Own(p, o)) \in sent[p]
    /\ step \in {"msg2", "ok"} => Msg1(Own(p, o)) \in sent[Other(p)]
    /\ step = "ok" => Msg2(Own(p, o)) \in sent[Other(p)]

Progress == \A p \in Parties, o \in Orders : ProgressOf(p, o)

(* A party signs contracts on its own terms only, and a lock transaction   *)
(* only if the other has signed the rest of the contract.                  *)
Honest == \A p \in Parties, c \in Contracts :
    /\ Msg1(c) \in sent[p] => /\ c.event = terms[KeyOf(p, c.lock)].event
                              /\ c.lock.margin = terms[KeyOf(p, c.lock)].margin
    /\ Msg2(c) \in sent[p] /\ c.event = terms[KeyOf(p, c.lock)].event
         => Msg1(c) \in sent[Other(p)]

(* A contract in a database is signed by both.                             *)
Kept == \A p \in Parties, o \in Orders :
    LET c == dlc[p][o] IN
    c # None => /\ KeyOf(p, c.lock) = o
                /\ Msg1(c) \in sent[p] /\ Msg1(c) \in sent[Other(p)]
                /\ Msg2(c) \in sent[Other(p)]

(* The maker begins with each order, and accepts it once.                  *)
MakerBegins == \A o \in Orders :
    LET step == tasks["maker"][o].step IN
    /\ cfd["maker"][o] = "requested" => step = "none"
    /\ step = "none" => /\ tasks["taker"][o].step = "none"
                        /\ \A i \in 1..Len(toTaker) : toTaker[i] # Accepted(o)
    /\ step \in {"none", "params"} => Msg0(o) \notin sent["maker"]

(* The maker uses one key of the taker for each order.                     *)
OneKey == \A c \in Contracts :
    Msg1(c) \in sent["maker"] =>
        LET task == tasks["maker"][c.lock.maker] IN
        /\ task.step \notin {"none", "params", "msg0"}
        /\ task.other = c.lock.taker
        /\ Msg0(c.lock.maker) \in sent["maker"]

(* What the taker's set-up of order o reads first, when it has not read.   *)
Unheard(o) == tasks["taker"][o].step \in {"params", "msg0"}
Silent(o)  == tasks["taker"][o].inbox = <<>> /\ toTaker = <<>>
FirstFor(o) == Head(IF tasks["taker"][o].inbox # <<>> THEN tasks["taker"][o].inbox
                                                     ELSE toTaker)

(* If the maker has said Msg0 of that order, it is the first.              *)
FirstIsMsg0 == \A o \in Orders : Unheard(o) =>
    /\ Msg0(o) \in sent["maker"] =>
         IF Silent(o) THEN ~linked ELSE FirstFor(o) = Msg0(o)
    /\ tasks["maker"][o].step = "params" => Silent(o)

NextIsMsg0 == \A i \in 1..Len(toTaker), o \in Orders : toTaker[i] = Accepted(o) =>
    /\ Msg0(o) \in sent["maker"] =>
         IF i = Len(toTaker) THEN ~linked ELSE toTaker[i + 1] = Msg0(o)
    /\ tasks["maker"][o].step = "params" => i = Len(toTaker)

(* The taker takes the key of another order only when the maker's set-up   *)
(* of its own ended without a word.                                        *)
Crossed == \A c \in Contracts :
    Msg1(c) \in sent["taker"] /\ c.lock.maker # c.lock.taker =>
        /\ Msg0(c.lock.taker) \notin sent["maker"]
        /\ tasks["maker"][c.lock.taker].step \notin {"none", "params"}

IInv ==
    /\ TypeOK /\ Delivered /\ Progress /\ Honest /\ Kept
    /\ MakerBegins /\ OneKey /\ FirstIsMsg0 /\ NextIsMsg0 /\ Crossed


-----------------------------------------------------------------------------
(* The shapes of messages.                                                 *)
LEMMA MessageTypes ==
    /\ \A o \in Orders : Accepted(o) \in ToTaker /\ Accepted(o).kind = "accepted"
                         /\ Accepted(o).order = o
    /\ \A m \in SetupMsgs :
         /\ m \in ToTaker /\ m.kind \in {"msg0", "msg1", "msg2"}
         /\ m.kind = "msg0" => m.key \in Orders /\ m.margin \in Margins
         /\ m.kind = "msg1" => m.signed \in Contracts /\ m = Msg1(m.signed)
         /\ m.kind = "msg2" => m.lock \in Locks
    /\ \A m \in ToTaker :
         IF m.kind = "accepted" THEN m.order \in Orders /\ m = Accepted(m.order)
                                ELSE m \in SetupMsgs
    /\ \A c \in Contracts : Msg1(c) \in SetupMsgs /\ Msg2(c) \in SetupMsgs
  BY DEF SetupMsgs, ToTaker, Accepted, Msg1, Msg2, Contracts

LEMMA Msg0Type ==
    ASSUME terms \in [Orders -> Terms], NEW o \in Orders
    PROVE  Msg0(o) \in SetupMsgs /\ terms[o].margin \in Margins /\ terms[o].event \in Events
  BY DEF Terms, Msg0, SetupMsgs

LEMMA BuiltType ==
    ASSUME terms \in [Orders -> Terms], NEW p \in Parties, NEW o \in Orders, NEW k \in Orders
    PROVE  /\ Built(p, o, k) \in Contracts /\ KeyOf(p, Built(p, o, k).lock) = o
           /\ Built(p, o, k).event = terms[o].event
           /\ Built(p, o, k).lock.margin = terms[o].margin
  BY Msg0Type DEF Built, Contracts, Locks, KeyOf, Parties

LEMMA ExceptOne ==
    ASSUME NEW S, NEW f \in [Parties -> [Orders -> S]], NEW p \in Parties, NEW o \in Orders,
           NEW v \in S, NEW g, g = [f EXCEPT ![p][o] = v]
    PROVE  /\ g \in [Parties -> [Orders -> S]] /\ g[p][o] = v
           /\ \A q \in Parties, r \in Orders : q # p \/ r # o => g[q][r] = f[q][r]
  OBVIOUS

(* The task of one order changes, and no other.                            *)
Only(p, o, t) ==
    /\ tasks' \in [Parties -> [Orders -> Tasks]]
    /\ tasks'[p][o] = t
    /\ \A q \in Parties, r \in Orders :
         q # p \/ r # o => tasks'[q][r] = tasks[q][r]

LEMMA AtIsOnly ==
    ASSUME tasks \in [Parties -> [Orders -> Tasks]],
           NEW p \in Parties, NEW o \in Orders, NEW k \in Orders \cup {None},
           NEW s \in {"none", "params", "msg0", "msg1", "msg2", "ok", "failed", "done"},
           NEW q \in Seq(SetupMsgs), At(p, o, s, k, q)
    PROVE  Only(p, o, [step |-> s, other |-> k, inbox |-> q])
  <1>1. [step |-> s, other |-> k, inbox |-> q] \in Tasks
    BY DEF Tasks
  <1> QED BY <1>1 DEF At, Only

LEMMA TaskTypes ==
    ASSUME tasks \in [Parties -> [Orders -> Tasks]], NEW p \in Parties, NEW o \in Orders
    PROVE  /\ tasks[p][o].step \in {"none", "params", "msg0", "msg1", "msg2", "ok", "failed", "done"}
           /\ tasks[p][o].other \in Orders \cup {None}
           /\ tasks[p][o].inbox \in Seq(SetupMsgs)
           /\ tasks[p][o].inbox # <<>> =>
                Tail(tasks[p][o].inbox) \in Seq(SetupMsgs) /\ Unread(p, o) \in SetupMsgs
  BY DEF Tasks, Unread

(* A message that is sent is the last of its queue, unless the connection  *)
(* is lost.                                                                *)
LEMMA SendQueues ==
    ASSUME NEW p \in Parties, NEW m \in ToTaker, p = "taker" => m \in SetupMsgs,
           toMaker \in Seq(SetupMsgs), toTaker \in Seq(ToTaker), Send(p, <<m>>)
    PROVE  /\ toTaker' = IF linked /\ p = "maker" THEN Append(toTaker, m) ELSE toTaker
           /\ toMaker' = IF linked /\ p = "taker" THEN Append(toMaker, m) ELSE toMaker
  <1>1. /\ toTaker \o <<>> = toTaker /\ toTaker \o <<m>> = Append(toTaker, m)
        /\ toMaker \o <<>> = toMaker
        /\ p = "taker" => toMaker \o <<m>> = Append(toMaker, m)
    OBVIOUS
  <1> QED BY <1>1 DEF Send, Parties

Queues == toMaker \in Seq(SetupMsgs) /\ toTaker \in Seq(ToTaker)
Active == \A p \in Parties, o \in Orders :
    setup[p] = o <=> tasks[p][o].step \notin {"none", "done"}

LEMMA SaysTypes ==
    ASSUME TypeOK, NEW p \in Parties, NEW m \in SetupMsgs, Says(p, m), UNCHANGED linked
    PROVE  /\ toTaker' = IF linked /\ p = "maker" THEN Append(toTaker, m) ELSE toTaker
           /\ toMaker' = IF linked /\ p = "taker" THEN Append(toMaker, m) ELSE toMaker
           /\ Queues'
           /\ sent' \in [Parties -> SUBSET SetupMsgs]
           /\ \A q \in Parties : sent'[q] = IF q = p THEN sent[q] \cup {m} ELSE sent[q]
  <1>1. m \in ToTaker
    BY DEF ToTaker
  <1>2. /\ toMaker \in Seq(SetupMsgs) /\ toTaker \in Seq(ToTaker)
        /\ sent \in [Parties -> SUBSET SetupMsgs]
    BY DEF TypeOK
  <1>3. /\ toTaker' = IF linked /\ p = "maker" THEN Append(toTaker, m) ELSE toTaker
        /\ toMaker' = IF linked /\ p = "taker" THEN Append(toMaker, m) ELSE toMaker
    BY <1>1, <1>2, SendQueues DEF Says
  <1>4. toTaker' \in Seq(ToTaker) /\ toMaker' \in Seq(SetupMsgs)
    BY <1>1, <1>2, <1>3
  <1>5. Queues'
    BY <1>4 DEF Queues, ToTaker, SetupMsgs, Orders, Contracts, Locks
  <1>6. sent' = [sent EXCEPT ![p] = @ \cup {m}]
    BY DEF Says
  <1>7. sent' \in [Parties -> SUBSET SetupMsgs]
    BY <1>2, <1>6
  <1>8. \A q \in Parties : sent'[q] = IF q = p THEN sent[q] \cup {m} ELSE sent[q]
    BY <1>2, <1>6
  <1> QED BY <1>3, <1>5, <1>7, <1>8

(* Tasks that stay, or are no longer, the active set-up.                   *)
LEMMA ActiveStays ==
    ASSUME TypeOK, NEW p \in Parties, NEW o \in Orders, NEW t, Only(p, o, t),
           \/ /\ UNCHANGED setup
              /\ t.step \notin {"none", "done"} /\ tasks[p][o].step \notin {"none", "done"}
           \/ /\ setup' = [setup EXCEPT ![p] = o] /\ setup[p] = None
              /\ t.step \notin {"none", "done"}
           \/ /\ setup' = [setup EXCEPT ![p] = None] /\ setup[p] = o
              /\ t.step = "done"
    PROVE  Active'
  <1>1. /\ setup \in [Parties -> Orders \cup {None}] /\ None \notin Orders
        /\ \A q \in Parties, r \in Orders :
             setup[q] = r <=> tasks[q][r].step \notin {"none", "done"}
    BY NoneAssumption DEF TypeOK
  <1>2. /\ tasks'[p][o] = t
        /\ \A q \in Parties, r \in Orders :
             q # p \/ r # o => tasks'[q][r] = tasks[q][r]
    BY DEF Only
  <1>3. SUFFICES ASSUME NEW q \in Parties, NEW r \in Orders
                 PROVE  setup'[q] = r <=> tasks'[q][r].step \notin {"none", "done"}
    BY DEF Active, Parties, Orders
  <1>4. CASE q # p
    <2>1. setup'[q] = setup[q] /\ tasks'[q][r] = tasks[q][r]
      BY <1>1, <1>2, <1>4
    <2> QED BY <1>1, <2>1
  <1>5. CASE q = p /\ r # o
    BY <1>1, <1>2, <1>5
  <1>6. CASE q = p /\ r = o
    BY <1>1, <1>2, <1>6
  <1> QED BY <1>4, <1>5, <1>6

(* What holds of every step: types are kept; the maker's set-ups only go   *)
(* forward and keep the key they have taken; nothing said is unsaid.       *)
Forward == \A o \in Orders :
    LET a == tasks["maker"][o].step
        b == tasks'["maker"][o].step IN
    /\ a # "none" => b # "none"
    /\ a \notin {"none", "params"} => b \notin {"none", "params"}
    /\ a \notin {"none", "params", "msg0"} =>
         /\ b \notin {"none", "params", "msg0"}
         /\ tasks'["maker"][o].other = tasks["maker"][o].other

Shape ==
    /\ UNCHANGED terms /\ TypeOK' /\ Forward
    /\ \A p \in Parties : sent[p] \subseteq sent'[p]

LEMMA TypesNext ==
    ASSUME terms' \in [Orders -> Terms],
           cfd' \in [Parties -> [Orders -> {"requested", "setup", "open", "failed"}]],
           dlc' \in [Parties -> [Orders -> Contracts \cup {None}]],
           setup' \in [Parties -> Orders \cup {None}],
           tasks' \in [Parties -> [Orders -> Tasks]],
           Active', linked' \in BOOLEAN,
           toMaker' \in Seq(SetupMsgs), toTaker' \in Seq(ToTaker),
           sent' \in [Parties -> SUBSET SetupMsgs],
           failures' \in 0..MaxFailures, disturbed' \in BOOLEAN
    PROVE  TypeOK'
  BY DEF TypeOK, Active, Parties, Orders, Terms, Contracts, Locks, Tasks, SetupMsgs, ToTaker

(* The task of one set-up goes forward.                                    *)
LEMMA OnlyForward ==
    ASSUME TypeOK, NEW p \in Parties, NEW o \in Orders, NEW t, Only(p, o, t),
           LET a == tasks[p][o].step IN p = "maker" =>
           /\ a # "none" => t.step # "none"
           /\ a \notin {"none", "params"} => t.step \notin {"none", "params"}
           /\ a \notin {"none", "params", "msg0"} =>
                t.step \notin {"none", "params", "msg0"} /\ t.other = tasks[p][o].other
    PROVE  Forward
  BY DEF Only, Forward, Parties

LEMMA FailsShape ==
    ASSUME TypeOK, NEW p \in Parties, NEW o \in Orders, Fails(p, o), Running(p, o),
           failures' \in 0..MaxFailures, disturbed' \in BOOLEAN
    PROVE  /\ Shape
           /\ Only(p, o, [step |-> "failed", other |-> tasks[p][o].other, inbox |-> <<>>])
  <1> DEFINE t == [step |-> "failed", other |-> tasks[p][o].other, inbox |-> <<>>]
  <1>1. tasks \in [Parties -> [Orders -> Tasks]] /\ UNCHANGED <<dbVars, setup, wireVars, sent>>
    BY DEF TypeOK, Fails
  <1>2. Only(p, o, t)
    <2>1. tasks[p][o].other \in Orders \cup {None} /\ <<>> \in Seq(SetupMsgs)
      BY <1>1, TaskTypes
    <2>2. At(p, o, "failed", tasks[p][o].other, <<>>)
      BY DEF Fails
    <2> HIDE DEF t
    <2>3. Only(p, o, [step |-> "failed", other |-> tasks[p][o].other, inbox |-> <<>>])
      BY <1>1, <2>1, <2>2, AtIsOnly
    <2> QED BY <2>3 DEF t
  <1>3. Active'
    BY <1>1, <1>2, ActiveStays DEF Running
  <1>4. Forward
    BY <1>2, OnlyForward DEF Running
  <1>5. TypeOK'
    BY <1>1, <1>2, <1>3, TypesNext DEF TypeOK, Only, dbVars, wireVars
  <1> QED BY <1>1, <1>2, <1>4, <1>5 DEF Shape, dbVars

LEMMA SpeaksShape ==
    ASSUME TypeOK, NEW p \in Parties, NEW o \in Orders, NEW m \in SetupMsgs, Says(p, m),
           NEW s \in {"msg0", "msg1", "msg2"}, NEW k \in Orders \cup {None},
           NEW q \in Seq(SetupMsgs), At(p, o, s, k, q), Running(p, o),
           tasks[p][o].step # "params" => s # "msg0",
           tasks[p][o].step \in {"msg1", "msg2"} => k = tasks[p][o].other,
           UNCHANGED <<taskUnchanged, disturbed>>
    PROVE  /\ Shape
           /\ Only(p, o, [step |-> s, other |-> k, inbox |-> q])
           /\ \A r \in Parties : sent'[r] = IF r = p THEN sent[r] \cup {m} ELSE sent[r]
           /\ toTaker' = IF linked /\ p = "maker" THEN Append(toTaker, m) ELSE toTaker
           /\ toMaker' = IF linked /\ p = "taker" THEN Append(toMaker, m) ELSE toMaker
  <1>1. /\ tasks \in [Parties -> [Orders -> Tasks]]
        /\ UNCHANGED <<terms, cfd, dlc, setup, linked, failures, disturbed>>
    BY DEF TypeOK, taskUnchanged, dbVars
  <1>2. Only(p, o, [step |-> s, other |-> k, inbox |-> q])
    BY <1>1, AtIsOnly
  <1>3. Active'
    BY <1>1, <1>2, ActiveStays DEF Running
  <1>4. Forward
    BY <1>2, OnlyForward DEF Running
  <1>5. /\ toTaker' = IF linked /\ p = "maker" THEN Append(toTaker, m) ELSE toTaker
        /\ toMaker' = IF linked /\ p = "taker" THEN Append(toMaker, m) ELSE toMaker
        /\ Queues' /\ sent' \in [Parties -> SUBSET SetupMsgs]
        /\ \A r \in Parties : sent'[r] = IF r = p THEN sent[r] \cup {m} ELSE sent[r]
    BY <1>1, SaysTypes
  <1>6. toMaker' \in Seq(SetupMsgs) /\ toTaker' \in Seq(ToTaker)
    BY <1>5 DEF Queues, ToTaker, SetupMsgs, Orders, Contracts, Locks
  <1>7. TypeOK'
    BY <1>1, <1>2, <1>3, <1>5, <1>6, TypesNext DEF TypeOK, Only
  <1> QED BY <1>1, <1>2, <1>4, <1>5, <1>7 DEF Shape

LEMMA ReadsTypes ==
    ASSUME TypeOK, NEW p \in Parties, NEW o \in Orders, tasks[p][o].inbox # <<>>
    PROVE  /\ Unread(p, o) \in SetupMsgs /\ Tail(tasks[p][o].inbox) \in Seq(SetupMsgs)
           /\ 1 \in 1..Len(tasks[p][o].inbox) /\ Unread(p, o) = tasks[p][o].inbox[1]
           /\ Len(Tail(tasks[p][o].inbox)) = Len(tasks[p][o].inbox) - 1
           /\ \A i \in 1..Len(Tail(tasks[p][o].inbox)) :
                i + 1 \in 1..Len(tasks[p][o].inbox)
                /\ Tail(tasks[p][o].inbox)[i] = tasks[p][o].inbox[i + 1]
  <1>1. /\ tasks[p][o].inbox \in Seq(SetupMsgs)
        /\ Tail(tasks[p][o].inbox) \in Seq(SetupMsgs) /\ Unread(p, o) \in SetupMsgs
    BY TaskTypes DEF TypeOK
  <1> QED BY <1>1 DEF Unread

-----------------------------------------------------------------------------
(* What each step does to a state that satisfies the invariant.            *)

Said(p, m) == \A r \in Parties : sent'[r] = IF r = p THEN sent[r] \cup {m} ELSE sent[r]

Carried(p, m) ==
    /\ toTaker' = IF linked /\ p = "maker" THEN Append(toTaker, m) ELSE toTaker
    /\ toMaker' = IF linked /\ p = "taker" THEN Append(toMaker, m) ELSE toMaker

LEMMA BuildEffect ==
    ASSUME IInv, NEW p \in Parties, NEW o \in Orders, BuildPartyParams(p, o)
    PROVE  /\ Shape /\ Said(p, Msg0(o)) /\ Carried(p, Msg0(o))
           /\ Only(p, o, [step |-> "msg0", other |-> tasks[p][o].other,
                          inbox |-> tasks[p][o].inbox])
  <1>1. TypeOK /\ tasks \in [Parties -> [Orders -> Tasks]] /\ terms \in [Orders -> Terms]
    BY DEF IInv, TypeOK
  <1>2. Msg0(o) \in SetupMsgs
    BY <1>1, Msg0Type
  <1>3. tasks[p][o].other \in Orders \cup {None} /\ tasks[p][o].inbox \in Seq(SetupMsgs)
    BY <1>1, TaskTypes
  <1>4. /\ tasks[p][o].step = "params" /\ Running(p, o)
        /\ At(p, o, "msg0", tasks[p][o].other, tasks[p][o].inbox)
        /\ Says(p, Msg0(o)) /\ UNCHANGED <<taskUnchanged, disturbed>>
    BY DEF BuildPartyParams, Running
  <1> QED BY <1>1, <1>2, <1>3, <1>4, SpeaksShape DEF Said, Carried

LEMMA ReadMsg0Effect ==
    ASSUME IInv, NEW p \in Parties, NEW o \in Orders, ReadMsg0(p, o)
    PROVE  LET k == Unread(p, o).key IN
           /\ k \in Orders /\ Reads(p, o, "msg0") /\ MarginFits(o, Unread(p, o))
           /\ Shape /\ Said(p, Msg1(Built(p, o, k))) /\ Carried(p, Msg1(Built(p, o, k)))
           /\ Only(p, o, [step |-> "msg1", other |-> k, inbox |-> Tail(tasks[p][o].inbox)])
  <1> DEFINE k == Unread(p, o).key
  <1>1. TypeOK /\ tasks \in [Parties -> [Orders -> Tasks]] /\ terms \in [Orders -> Terms]
    BY DEF IInv, TypeOK
  <1>2. /\ Reads(p, o, "msg0") /\ tasks[p][o].inbox # <<>> /\ tasks[p][o].step = "msg0"
        /\ Unread(p, o).kind = "msg0" /\ MarginFits(o, Unread(p, o)) /\ Running(p, o)
        /\ At(p, o, "msg1", k, Tail(tasks[p][o].inbox))
        /\ Says(p, Msg1(Built(p, o, k))) /\ UNCHANGED <<taskUnchanged, disturbed>>
    BY DEF ReadMsg0, Reads, Running
  <1>3. Unread(p, o) \in SetupMsgs /\ Tail(tasks[p][o].inbox) \in Seq(SetupMsgs)
    BY <1>1, <1>2, ReadsTypes
  <1>4. k \in Orders
    BY <1>2, <1>3, MessageTypes
  <1>5. Msg1(Built(p, o, k)) \in SetupMsgs
    BY <1>1, <1>4, BuiltType, MessageTypes
  <1> HIDE DEF k
  <1>6. /\ Shape /\ Said(p, Msg1(Built(p, o, k))) /\ Carried(p, Msg1(Built(p, o, k)))
        /\ Only(p, o, [step |-> "msg1", other |-> k, inbox |-> Tail(tasks[p][o].inbox)])
    BY <1>1, <1>2, <1>3, <1>4, <1>5, SpeaksShape DEF Said, Carried
  <1> QED BY <1>2, <1>4, <1>6 DEF k

LEMMA OwnTypes ==
    ASSUME IInv, NEW p \in Parties, NEW o \in Orders,
           tasks[p][o].step \in {"msg1", "msg2", "ok"}
    PROVE  /\ tasks[p][o].other \in Orders /\ Own(p, o) \in Contracts
           /\ KeyOf(p, Own(p, o).lock) = o
           /\ Own(p, o).event = terms[o].event /\ Own(p, o).lock.margin = terms[o].margin
           /\ Msg1(Own(p, o)) \in SetupMsgs /\ Msg2(Own(p, o)) \in SetupMsgs
  <1>1. tasks[p][o].other \in Orders
    BY DEF IInv, Progress, ProgressOf
  <1>2. terms \in [Orders -> Terms]
    BY DEF IInv, TypeOK
  <1> QED BY <1>1, <1>2, BuiltType, MessageTypes DEF Own

LEMMA ReadMsg1Effect ==
    ASSUME IInv, NEW p \in Parties, NEW o \in Orders, ReadMsg1(p, o)
    PROVE  /\ Reads(p, o, "msg1") /\ Unread(p, o) = Msg1(Own(p, o))
           /\ Shape /\ Said(p, Msg2(Own(p, o))) /\ Carried(p, Msg2(Own(p, o)))
           /\ Only(p, o, [step |-> "msg2", other |-> tasks[p][o].other,
                          inbox |-> Tail(tasks[p][o].inbox)])
  <1>1. TypeOK /\ tasks \in [Parties -> [Orders -> Tasks]] /\ terms \in [Orders -> Terms]
    BY DEF IInv, TypeOK
  <1>2. /\ Reads(p, o, "msg1") /\ tasks[p][o].inbox # <<>> /\ tasks[p][o].step = "msg1"
        /\ Unread(p, o).kind = "msg1" /\ Running(p, o)
        /\ At(p, o, "msg2", tasks[p][o].other, Tail(tasks[p][o].inbox))
        /\ Says(p, Msg2(Own(p, o))) /\ UNCHANGED <<taskUnchanged, disturbed>>
    BY DEF ReadMsg1, Reads, Running, Goes
  <1>3. Unread(p, o) \in SetupMsgs /\ Tail(tasks[p][o].inbox) \in Seq(SetupMsgs)
    BY <1>1, <1>2, ReadsTypes
  <1>4. /\ tasks[p][o].other \in Orders /\ Own(p, o) \in Contracts
        /\ Msg2(Own(p, o)) \in SetupMsgs
    BY <1>2, OwnTypes
  <1>5. /\ Shape /\ Said(p, Msg2(Own(p, o))) /\ Carried(p, Msg2(Own(p, o)))
        /\ Only(p, o, [step |-> "msg2", other |-> tasks[p][o].other,
                       inbox |-> Tail(tasks[p][o].inbox)])
    BY <1>1, <1>2, <1>3, <1>4, SpeaksShape DEF Said, Carried
  <1>6. Unread(p, o).signed \in Contracts /\ Unread(p, o) = Msg1(Unread(p, o).signed)
    BY <1>2, <1>3, MessageTypes
  <1>7. Unread(p, o).signed = Own(p, o)
    BY <1>4, <1>6 DEF ReadMsg1, Verified, CetsVerify, Contracts
  <1> QED BY <1>2, <1>5, <1>6, <1>7

LEMMA ReadMsg2Effect ==
    ASSUME IInv, NEW p \in Parties, NEW o \in Orders, ReadMsg2(p, o)
    PROVE  /\ Reads(p, o, "msg2") /\ Unread(p, o) = Msg2(Own(p, o))
           /\ Shape /\ UNCHANGED <<dbVars, wireVars, sent>>
           /\ Only(p, o, [step |-> "ok", other |-> tasks[p][o].other,
                          inbox |-> Tail(tasks[p][o].inbox)])
  <1>1. TypeOK /\ tasks \in [Parties -> [Orders -> Tasks]] /\ terms \in [Orders -> Terms]
    BY DEF IInv, TypeOK
  <1>2. /\ Reads(p, o, "msg2") /\ tasks[p][o].inbox # <<>> /\ tasks[p][o].step = "msg2"
        /\ Unread(p, o).kind = "msg2" /\ Unread(p, o).lock = Own(p, o).lock
        /\ At(p, o, "ok", tasks[p][o].other, Tail(tasks[p][o].inbox))
        /\ UNCHANGED <<terms, cfd, dlc, setup, linked, failures, disturbed, toMaker, toTaker, sent>>
    BY DEF ReadMsg2, Reads, Goes, taskUnchanged, dbVars
  <1>3. Unread(p, o) \in SetupMsgs /\ Tail(tasks[p][o].inbox) \in Seq(SetupMsgs)
    BY <1>1, <1>2, ReadsTypes
  <1>4. tasks[p][o].other \in Orders
    BY <1>2, OwnTypes
  <1>5. Only(p, o, [step |-> "ok", other |-> tasks[p][o].other,
                    inbox |-> Tail(tasks[p][o].inbox)])
    BY <1>1, <1>2, <1>3, <1>4, AtIsOnly
  <1>6. Active'
    BY <1>1, <1>2, <1>5, ActiveStays
  <1>7. Forward
    BY <1>1, <1>2, <1>5, OnlyForward
  <1>8. TypeOK'
    BY <1>1, <1>2, <1>5, <1>6, TypesNext DEF TypeOK, Only
  <1>9. Unread(p, o) = Msg2(Own(p, o))
    BY <1>2, <1>3 DEF SetupMsgs, Msg2
  <1> QED BY <1>2, <1>5, <1>7, <1>8, <1>9 DEF Shape, dbVars, wireVars

LEMMA FailingEffect ==
    ASSUME IInv, NEW p \in Parties, NEW o \in Orders,
           ReadWrong(p, o) \/ GivesUp(p, o) \/ WalletFails(p, o)
    PROVE  /\ Shape /\ UNCHANGED <<dbVars, setup, wireVars, sent>>
           /\ Only(p, o, [step |-> "failed", other |-> tasks[p][o].other, inbox |-> <<>>])
  <1>1. Fails(p, o) /\ Running(p, o)
    BY DEF ReadWrong, GivesUp, WalletFails, Running, Reads
  <1>2. failures \in 0..MaxFailures /\ disturbed \in BOOLEAN
    BY DEF IInv, TypeOK
  <1>3. disturbed' \in BOOLEAN
    BY <1>2 DEF ReadWrong, GivesUp, WalletFails
  <1>4. failures' \in 0..MaxFailures
    BY <1>2, BoundsAssumption DEF ReadWrong, GivesUp, WalletFails
  <1> QED BY <1>1, <1>3, <1>4, FailsShape DEF IInv, Fails

LEMMA CompletedEffect ==
    ASSUME IInv, NEW p \in Parties, NEW o \in Orders, SetupCompleted(p, o)
    PROVE  /\ tasks[p][o].step \in {"ok", "failed"}
           /\ Shape /\ UNCHANGED <<wireVars, sent>>
           /\ dlc' = IF tasks[p][o].step = "ok" THEN [dlc EXCEPT ![p][o] = Own(p, o)] ELSE dlc
           /\ \A q \in Parties, r \in Orders :
                q # p \/ r # o => cfd'[q][r] = cfd[q][r]
           /\ cfd'[p][o] \in {"open", "failed"}
           /\ Only(p, o, [step |-> "done", other |-> tasks[p][o].other,
                          inbox |-> tasks[p][o].inbox])
  <1>1. /\ TypeOK /\ tasks \in [Parties -> [Orders -> Tasks]]
        /\ cfd \in [Parties -> [Orders -> {"requested", "setup", "open", "failed"}]]
        /\ dlc \in [Parties -> [Orders -> Contracts \cup {None}]]
        /\ setup \in [Parties -> Orders \cup {None}]
        /\ setup[p] = o <=> tasks[p][o].step \notin {"none", "done"}
    BY DEF IInv, TypeOK
  <1>2. /\ tasks[p][o].step \in {"ok", "failed"}
        /\ setup' = [setup EXCEPT ![p] = None]
        /\ At(p, o, "done", tasks[p][o].other, tasks[p][o].inbox)
        /\ IF tasks[p][o].step = "ok"
           THEN /\ cfd' = [cfd EXCEPT ![p][o] = "open"]
                /\ dlc' = [dlc EXCEPT ![p][o] = Own(p, o)]
           ELSE cfd' = [cfd EXCEPT ![p][o] = "failed"] /\ dlc' = dlc
        /\ UNCHANGED <<terms, wireVars, sent, failures, disturbed>>
    BY DEF SetupCompleted
  <1>3. tasks[p][o].other \in Orders \cup {None} /\ tasks[p][o].inbox \in Seq(SetupMsgs)
    BY <1>1, TaskTypes
  <1>4. Only(p, o, [step |-> "done", other |-> tasks[p][o].other,
                    inbox |-> tasks[p][o].inbox])
    BY <1>1, <1>2, <1>3, AtIsOnly
  <1>5. setup[p] = o
    BY <1>1, <1>2
  <1>6. Active'
    BY <1>1, <1>2, <1>4, <1>5, ActiveStays
  <1>7. Forward
    BY <1>1, <1>2, <1>4, OnlyForward
  <1>8. /\ cfd' \in [Parties -> [Orders -> {"requested", "setup", "open", "failed"}]]
        /\ \A q \in Parties, r \in Orders :
             q # p \/ r # o => cfd'[q][r] = cfd[q][r]
        /\ cfd'[p][o] \in {"open", "failed"}
    <2>1. PICK v \in {"open", "failed"} : cfd' = [cfd EXCEPT ![p][o] = v]
      BY <1>2
    <2> QED BY <1>1, <2>1, ExceptOne
  <1>9. dlc' \in [Parties -> [Orders -> Contracts \cup {None}]]
    <2>1. CASE tasks[p][o].step = "ok"
      <3>1. Own(p, o) \in Contracts \cup {None} /\ dlc' = [dlc EXCEPT ![p][o] = Own(p, o)]
        BY <1>2, <2>1, OwnTypes
      <3> QED BY <1>1, <3>1, ExceptOne
    <2>2. CASE tasks[p][o].step # "ok"
      BY <1>1, <1>2, <2>2
    <2> QED BY <2>1, <2>2
  <1>10. setup' \in [Parties -> Orders \cup {None}]
    BY <1>1, <1>2
  <1>11. TypeOK'
    BY <1>2, <1>4, <1>6, <1>8, <1>9, <1>10, TypesNext DEF IInv, TypeOK, Only, wireVars
  <1> QED BY <1>2, <1>4, <1>7, <1>8, <1>11 DEF Shape

(* A set-up starts.                                                        *)
LEMMA StartsEffect ==
    ASSUME TypeOK, NEW p \in Parties, NEW o \in Orders, Starts(p, o), setup[p] = None,
           p = "maker" => tasks[p][o].step \in {"none", "params"},
           UNCHANGED <<terms, dlc, linked, sent, failures>>, disturbed' \in BOOLEAN,
           toMaker' \in Seq(SetupMsgs), toTaker' \in Seq(ToTaker)
    PROVE  /\ Shape /\ Only(p, o, [step |-> "params", other |-> None, inbox |-> <<>>])
           /\ \A q \in Parties, r \in Orders :
                cfd'[q][r] = IF q = p /\ r = o THEN "setup" ELSE cfd[q][r]
  <1>1. /\ tasks \in [Parties -> [Orders -> Tasks]]
        /\ cfd \in [Parties -> [Orders -> {"requested", "setup", "open", "failed"}]]
        /\ setup \in [Parties -> Orders \cup {None}]
    BY DEF TypeOK
  <1>2. /\ cfd' = [cfd EXCEPT ![p][o] = "setup"] /\ setup' = [setup EXCEPT ![p] = o]
        /\ At(p, o, "params", None, <<>>)
    BY DEF Starts
  <1>3. <<>> \in Seq(SetupMsgs)
    OBVIOUS
  <1>4. Only(p, o, [step |-> "params", other |-> None, inbox |-> <<>>])
    BY <1>1, <1>2, <1>3, AtIsOnly
  <1>5. Active'
    BY <1>2, <1>4, ActiveStays
  <1>6. Forward
    BY <1>4, OnlyForward
  <1>7. /\ cfd' \in [Parties -> [Orders -> {"requested", "setup", "open", "failed"}]]
        /\ setup' \in [Parties -> Orders \cup {None}]
        /\ \A q \in Parties, r \in Orders :
             cfd'[q][r] = IF q = p /\ r = o THEN "setup" ELSE cfd[q][r]
    BY <1>1, <1>2, ExceptOne
  <1>8. TypeOK'
    BY <1>4, <1>5, <1>7, TypesNext DEF TypeOK, Only
  <1> QED BY <1>4, <1>6, <1>7, <1>8 DEF Shape

LEMMA AcceptOrderEffect ==
    ASSUME IInv, NEW o \in Orders, AcceptOrder(o)
    PROVE  /\ Shape /\ Only("maker", o, [step |-> "params", other |-> None, inbox |-> <<>>])
           /\ setup["maker"] = None /\ tasks["maker"][o].step = "none"
           /\ UNCHANGED <<dlc, linked, sent>> /\ Carried("maker", Accepted(o))
           /\ \A q \in Parties, r \in Orders :
                cfd'[q][r] = IF q = "maker" /\ r = o THEN "setup" ELSE cfd[q][r]
  <1>1. /\ TypeOK /\ toMaker \in Seq(SetupMsgs) /\ toTaker \in Seq(ToTaker)
        /\ disturbed \in BOOLEAN /\ Accepted(o) \in ToTaker /\ "maker" \in Parties
    BY MessageTypes DEF IInv, TypeOK, Parties
  <1>2. /\ setup["maker"] = None /\ Starts("maker", o) /\ Send("maker", <<Accepted(o)>>)
        /\ UNCHANGED <<terms, dlc, linked, sent, failures, disturbed>>
    BY DEF AcceptOrder
  <1>3. tasks["maker"][o].step = "none"
    BY DEF AcceptOrder, IInv, MakerBegins
  <1>4. Carried("maker", Accepted(o))
    BY <1>1, <1>2, SendQueues DEF Carried
  <1>5. toMaker' \in Seq(SetupMsgs) /\ toTaker' \in Seq(ToTaker)
    BY <1>1, <1>4 DEF Carried
  <1> QED BY <1>1, <1>2, <1>3, <1>4, <1>5, StartsEffect

(* The queue to one party loses its head.                                  *)
LEMMA TailOf ==
    ASSUME NEW S, NEW q \in Seq(S), q # <<>>
    PROVE  /\ Head(q) \in S /\ Head(q) = q[1] /\ 1 \in 1..Len(q) /\ Tail(q) \in Seq(S)
           /\ Len(q) \in Nat /\ Len(Tail(q)) = Len(q) - 1
           /\ \A i \in 1..Len(Tail(q)) : i + 1 \in 1..Len(q) /\ Tail(q)[i] = q[i + 1]
  OBVIOUS

LEMMA OrderAcceptedEffect ==
    ASSUME IInv, HandleOrderAccepted
    PROVE  \E o \in Orders :
           /\ toTaker # <<>> /\ Head(toTaker) = Accepted(o) /\ toTaker' = Tail(toTaker)
           /\ Shape /\ UNCHANGED <<dlc, linked, toMaker, sent>>
           /\ \A r \in Orders : cfd'["maker"][r] = cfd["maker"][r]
           /\ \/ /\ setup["taker"] = None
                 /\ Only("taker", o, [step |-> "params", other |-> None, inbox |-> <<>>])
              \/ setup["taker"] # None /\ UNCHANGED tasks
  <1>1. /\ TypeOK /\ toTaker \in Seq(ToTaker) /\ toMaker \in Seq(SetupMsgs)
        /\ disturbed \in BOOLEAN /\ "taker" \in Parties /\ "maker" \in Parties
    BY DEF IInv, TypeOK, Parties
  <1>2. /\ toTaker # <<>> /\ Head(toTaker).kind = "accepted" /\ toTaker' = Tail(toTaker)
        /\ IF setup["taker"] = None THEN Starts("taker", Head(toTaker).order)
                                    ELSE UNCHANGED <<cfd, setup, tasks>>
        /\ disturbed' = (disturbed \/ setup["taker"] # None)
        /\ UNCHANGED <<terms, dlc, linked, toMaker, sent, failures>>
    BY DEF HandleOrderAccepted
  <1>3. PICK o \in Orders : Head(toTaker) = Accepted(o) /\ Head(toTaker).order = o
    BY <1>1, <1>2, TailOf, MessageTypes
  <1>4. disturbed' \in BOOLEAN /\ toTaker' \in Seq(ToTaker) /\ toMaker' \in Seq(SetupMsgs)
    BY <1>1, <1>2, TailOf
  <1>5. CASE setup["taker"] = None
    <2>1. Starts("taker", o) /\ UNCHANGED <<terms, dlc, linked, toMaker, sent, failures>>
      BY <1>2, <1>3, <1>5
    <2>2. /\ Shape /\ Only("taker", o, [step |-> "params", other |-> None, inbox |-> <<>>])
          /\ \A q \in Parties, r \in Orders :
               cfd'[q][r] = IF q = "taker" /\ r = o THEN "setup" ELSE cfd[q][r]
      BY <1>1, <1>4, <1>5, <2>1, StartsEffect
    <2> QED BY <1>1, <1>2, <1>3, <1>5, <2>1, <2>2
  <1>6. CASE setup["taker"] # None
    <2>1. UNCHANGED <<terms, cfd, dlc, setup, tasks, linked, toMaker, sent, failures>>
      BY <1>2, <1>6
    <2>2. TypeOK'
      BY <1>1, <1>4, <2>1, TypesNext DEF TypeOK, Active
    <2>3. Shape
      BY <2>1, <2>2 DEF Shape, Forward
    <2> QED BY <1>2, <1>3, <1>6, <2>1, <2>3
  <1> QED BY <1>5, <1>6

(* A message gets to the inbox of the active set-up, or nowhere.           *)
RoutesTo(p, m) == \A q \in Parties, o \in Orders :
    /\ tasks'[q][o].step = tasks[q][o].step
    /\ tasks'[q][o].other = tasks[q][o].other
    /\ tasks'[q][o].inbox = IF q = p /\ setup[p] = o /\ Running(p, o)
         THEN Append(tasks[q][o].inbox, m) ELSE tasks[q][o].inbox

LEMMA RoutedEffect ==
    ASSUME TypeOK, NEW p \in Parties, NEW m \in SetupMsgs, Routed(p, m),
           UNCHANGED <<dbVars, setup, linked, sent, failures, disturbed>>,
           toMaker' \in Seq(SetupMsgs), toTaker' \in Seq(ToTaker)
    PROVE  Shape /\ RoutesTo(p, m)
  <1>1. tasks \in [Parties -> [Orders -> Tasks]]
    BY DEF TypeOK
  <1>2. ASSUME setup[p] # None, Running(p, setup[p])
        PROVE  tasks' \in [Parties -> [Orders -> Tasks]] /\ RoutesTo(p, m)
    <2>1. PICK o \in Orders : o = setup[p]
      BY <1>2 DEF TypeOK
    <2>2. /\ tasks[p][o].inbox \in Seq(SetupMsgs) /\ tasks[p][o].other \in Orders \cup {None}
          /\ tasks[p][o].step \in
               {"none", "params", "msg0", "msg1", "msg2", "ok", "failed", "done"}
      BY <1>1, TaskTypes
    <2>3. Append(tasks[p][o].inbox, m) \in Seq(SetupMsgs)
      BY <2>2
    <2>4. At(p, o, tasks[p][o].step, tasks[p][o].other, Append(tasks[p][o].inbox, m))
      BY <1>2, <2>1 DEF Routed
    <2>5. Only(p, o, [step |-> tasks[p][o].step, other |-> tasks[p][o].other,
                      inbox |-> Append(tasks[p][o].inbox, m)])
      BY <1>1, <2>2, <2>3, <2>4, AtIsOnly
    <2>6. /\ tasks' \in [Parties -> [Orders -> Tasks]]
          /\ tasks'[p][o].step = tasks[p][o].step /\ tasks'[p][o].other = tasks[p][o].other
          /\ tasks'[p][o].inbox = Append(tasks[p][o].inbox, m)
          /\ \A q \in Parties, r \in Orders :
               q # p \/ r # o => tasks'[q][r] = tasks[q][r]
      BY <2>5 DEF Only
    <2>7. setup[p] = o /\ Running(p, o)
      BY <1>2, <2>1
    <2>8. ASSUME NEW q \in Parties, NEW r \in Orders
          PROVE  /\ tasks'[q][r].step = tasks[q][r].step
                 /\ tasks'[q][r].other = tasks[q][r].other
                 /\ tasks'[q][r].inbox = IF q = p /\ setup[p] = r /\ Running(p, r)
                      THEN Append(tasks[q][r].inbox, m) ELSE tasks[q][r].inbox
      <3>1. CASE q = p /\ r = o
        BY <2>6, <2>7, <3>1
      <3>2. CASE q # p \/ r # o
        BY <2>6, <2>7, <3>2
      <3> QED BY <3>1, <3>2
    <2> QED BY <2>6, <2>8 DEF RoutesTo
  <1>3. ASSUME ~(setup[p] # None /\ Running(p, setup[p]))
        PROVE  tasks' \in [Parties -> [Orders -> Tasks]] /\ RoutesTo(p, m)
    <2>1. UNCHANGED tasks
      BY <1>3 DEF Routed
    <2> QED BY <1>1, <1>3, <2>1, NoneAssumption DEF RoutesTo
  <1>7. tasks' \in [Parties -> [Orders -> Tasks]] /\ RoutesTo(p, m)
    BY <1>2, <1>3
  <1>8. \A q \in Parties, o \in Orders : tasks'[q][o].step = tasks[q][o].step
    BY <1>7 DEF RoutesTo
  <1>9. Active'
    <2>1. UNCHANGED setup /\ Active
      BY DEF TypeOK, Active
    <2>2. \A q \in Parties, o \in Orders :
            setup'[q] = o <=> tasks'[q][o].step \notin {"none", "done"}
      BY <1>8, <2>1 DEF Active
    <2> QED BY <2>2 DEF Active, Parties, Orders
  <1>10. TypeOK'
    BY <1>7, <1>9, TypesNext DEF TypeOK, dbVars
  <1> QED BY <1>7, <1>10 DEF Shape, Forward, dbVars, Parties, RoutesTo

LEMMA HandlesEffect ==
    ASSUME IInv, NEW p \in Parties,
           IF p = "maker" THEN MakerHandlesProtocolMsg ELSE TakerHandlesProtocolMsg
    PROVE  LET m == Head(IF p = "maker" THEN toMaker ELSE toTaker) IN
           /\ Shape /\ m \in SetupMsgs /\ UNCHANGED <<cfd, dlc, linked, sent>>
           /\ p = "maker" => toMaker # <<>> /\ toMaker' = Tail(toMaker) /\ UNCHANGED toTaker
           /\ p = "taker" => toTaker # <<>> /\ toTaker' = Tail(toTaker) /\ UNCHANGED toMaker
           /\ RoutesTo(p, m)
  <1>1. TypeOK /\ toMaker \in Seq(SetupMsgs) /\ toTaker \in Seq(ToTaker)
    BY DEF IInv, TypeOK
  <1>2. CASE p = "maker"
    <2>1. /\ toMaker # <<>> /\ Routed(p, Head(toMaker)) /\ toMaker' = Tail(toMaker)
          /\ UNCHANGED <<dbVars, setup, linked, toTaker, sent, failures, disturbed>>
      BY <1>2 DEF MakerHandlesProtocolMsg
    <2>2. /\ Head(toMaker) \in SetupMsgs
          /\ toMaker' \in Seq(SetupMsgs) /\ toTaker' \in Seq(ToTaker)
      BY <1>1, <2>1, TailOf
    <2> QED BY <1>1, <1>2, <2>1, <2>2, RoutedEffect DEF dbVars
  <1>3. CASE p = "taker"
    <2>1. /\ toTaker # <<>> /\ Head(toTaker).kind # "accepted"
          /\ Routed(p, Head(toTaker)) /\ toTaker' = Tail(toTaker)
          /\ UNCHANGED <<dbVars, setup, linked, toMaker, sent, failures, disturbed>>
      BY <1>3 DEF TakerHandlesProtocolMsg
    <2>2. /\ Head(toTaker) \in SetupMsgs
          /\ toMaker' \in Seq(SetupMsgs) /\ toTaker' \in Seq(ToTaker)
      BY <1>1, <2>1, TailOf, MessageTypes
    <2> QED BY <1>1, <1>3, <2>1, <2>2, RoutedEffect DEF dbVars
  <1> QED BY <1>2, <1>3 DEF Parties

LEMMA TruncatedOf ==
    ASSUME NEW S, NEW q \in Seq(S), NEW n \in 0..Len(q)
    PROVE  /\ Truncated(q, n) \in Seq(S) /\ Len(Truncated(q, n)) = n
           /\ \A i \in 1..n : Truncated(q, n)[i] = q[i]
  BY SubSeqProperties DEF Truncated

LEMMA ClosesEffect ==
    ASSUME IInv, ConnectionCloses
    PROVE  /\ Shape /\ UNCHANGED <<cfd, dlc, tasks, sent>> /\ linked' = FALSE
           /\ \E n \in 0..Len(toMaker) : toMaker' = Truncated(toMaker, n)
           /\ \E n \in 0..Len(toTaker) : toTaker' = Truncated(toTaker, n)
  <1>1. TypeOK /\ toMaker \in Seq(SetupMsgs) /\ toTaker \in Seq(ToTaker)
    BY DEF IInv, TypeOK
  <1>2. PICK i \in 0..Len(toMaker), j \in 0..Len(toTaker) :
          /\ linked' = FALSE
          /\ toMaker' = Truncated(toMaker, i) /\ toTaker' = Truncated(toTaker, j)
          /\ disturbed' = TRUE
          /\ UNCHANGED <<terms, cfd, dlc, setup, tasks, sent, failures>>
    BY DEF ConnectionCloses, dbVars
  <1>3. toMaker' \in Seq(SetupMsgs) /\ toTaker' \in Seq(ToTaker)
    BY <1>1, <1>2, TruncatedOf
  <1>4. TypeOK'
    BY <1>1, <1>2, <1>3, TypesNext DEF TypeOK, Active
  <1> QED BY <1>2, <1>4 DEF Shape, Forward

LEMMA RestartEffect ==
    ASSUME IInv, NEW p \in Parties, Restart(p)
    PROVE  \E o \in Orders :
           /\ setup[p] = o /\ tasks[p][o].step \notin {"none", "done"}
           /\ Shape /\ UNCHANGED <<dlc, sent>> /\ linked' = FALSE
           /\ toMaker' = (IF p = "maker" THEN <<>> ELSE toMaker)
           /\ toTaker' = (IF p = "taker" THEN <<>> ELSE toTaker)
           /\ \A q \in Parties, r \in Orders :
                q # p \/ r # o => cfd'[q][r] = cfd[q][r]
           /\ cfd'[p][o] = "failed"
           /\ Only(p, o, [step |-> "done", other |-> tasks[p][o].other, inbox |-> <<>>])
  <1>1. /\ TypeOK /\ tasks \in [Parties -> [Orders -> Tasks]]
        /\ cfd \in [Parties -> [Orders -> {"requested", "setup", "open", "failed"}]]
        /\ setup \in [Parties -> Orders \cup {None}]
        /\ toMaker \in Seq(SetupMsgs) /\ toTaker \in Seq(ToTaker)
    BY DEF IInv, TypeOK
  <1>2. PICK o \in Orders : o = setup[p]
    BY <1>1 DEF Restart
  <1>3. /\ linked' = FALSE /\ disturbed' = TRUE
        /\ toMaker' = (IF p = "maker" THEN <<>> ELSE toMaker)
        /\ toTaker' = (IF p = "taker" THEN <<>> ELSE toTaker)
        /\ setup' = [setup EXCEPT ![p] = None]
        /\ cfd' = [cfd EXCEPT ![p][o] = "failed"]
        /\ At(p, o, "done", tasks[p][o].other, <<>>)
        /\ UNCHANGED <<terms, dlc, sent, failures>>
    BY <1>2 DEF Restart
  <1>4. tasks[p][o].step \notin {"none", "done"} /\ setup[p] = o
    BY <1>2 DEF IInv, TypeOK
  <1>5. tasks[p][o].other \in Orders \cup {None} /\ <<>> \in Seq(SetupMsgs)
    BY <1>1, TaskTypes
  <1>6. Only(p, o, [step |-> "done", other |-> tasks[p][o].other, inbox |-> <<>>])
    BY <1>1, <1>3, <1>5, AtIsOnly
  <1>7. Active'
    BY <1>1, <1>3, <1>4, <1>6, ActiveStays
  <1>8. Forward
    BY <1>1, <1>4, <1>6, OnlyForward
  <1>9. /\ cfd' \in [Parties -> [Orders -> {"requested", "setup", "open", "failed"}]]
        /\ \A q \in Parties, r \in Orders :
             q # p \/ r # o => cfd'[q][r] = cfd[q][r]
        /\ cfd'[p][o] = "failed"
    BY <1>1, <1>3, ExceptOne
  <1>10. /\ toMaker' \in Seq(SetupMsgs) /\ toTaker' \in Seq(ToTaker)
         /\ setup' \in [Parties -> Orders \cup {None}]
    BY <1>1, <1>3
  <1>11. TypeOK'
    BY <1>1, <1>3, <1>6, <1>7, <1>9, <1>10, TypesNext DEF TypeOK, Only
  <1> QED BY <1>3, <1>4, <1>6, <1>8, <1>9, <1>11 DEF Shape

-----------------------------------------------------------------------------
(* The steps, by what they do.                                             *)

LEMMA NextCases ==
    ASSUME Next
    PROVE  \/ HandleOrderAccepted
           \/ \E p \in Parties :
                IF p = "maker" THEN MakerHandlesProtocolMsg ELSE TakerHandlesProtocolMsg
           \/ \E p \in Parties, o \in Orders :
                \/ BuildPartyParams(p, o) \/ ReadMsg0(p, o) \/ ReadMsg1(p, o)
                \/ ReadMsg2(p, o) \/ SetupCompleted(p, o)
                \/ ReadWrong(p, o) \/ GivesUp(p, o) \/ WalletFails(p, o)
           \/ \E o \in Orders : AcceptOrder(o)
           \/ ConnectionCloses
           \/ \E p \in Parties : Restart(p)
  BY DEF Next, Work, SetupStep, Parties

LEMMA StepShape ==
    ASSUME IInv, Next
    PROVE  Shape
  <1>1. CASE HandleOrderAccepted
    BY <1>1, OrderAcceptedEffect
  <1>2. ASSUME NEW p \in Parties,
               IF p = "maker" THEN MakerHandlesProtocolMsg ELSE TakerHandlesProtocolMsg
        PROVE  Shape
    BY <1>2, HandlesEffect
  <1>3. ASSUME NEW p \in Parties, NEW o \in Orders,
               \/ BuildPartyParams(p, o) \/ ReadMsg0(p, o) \/ ReadMsg1(p, o)
               \/ ReadMsg2(p, o) \/ SetupCompleted(p, o)
               \/ ReadWrong(p, o) \/ GivesUp(p, o) \/ WalletFails(p, o)
        PROVE  Shape
    BY <1>3, BuildEffect, ReadMsg0Effect, ReadMsg1Effect, ReadMsg2Effect, CompletedEffect,
       FailingEffect
  <1>4. ASSUME NEW o \in Orders, AcceptOrder(o)
        PROVE  Shape
    BY <1>4, AcceptOrderEffect
  <1>5. CASE ConnectionCloses
    BY <1>5, ClosesEffect
  <1>6. ASSUME NEW p \in Parties, Restart(p)
        PROVE  Shape
    BY <1>6, RestartEffect
  <1> QED BY <1>1, <1>2, <1>3, <1>4, <1>5, <1>6, NextCases

(* Only three steps say anything, and only one keeps a contract.           *)
LEMMA WhoSpeaks ==
    ASSUME IInv, Next
    PROVE  \/ UNCHANGED sent
           \/ \E p \in Parties, o \in Orders :
                BuildPartyParams(p, o) \/ ReadMsg0(p, o) \/ ReadMsg1(p, o)
  <1>1. CASE HandleOrderAccepted
    BY <1>1, OrderAcceptedEffect
  <1>2. ASSUME NEW p \in Parties,
               IF p = "maker" THEN MakerHandlesProtocolMsg ELSE TakerHandlesProtocolMsg
        PROVE  UNCHANGED sent
    BY <1>2, HandlesEffect
  <1>3. ASSUME NEW p \in Parties, NEW o \in Orders,
               \/ ReadMsg2(p, o) \/ SetupCompleted(p, o)
               \/ ReadWrong(p, o) \/ GivesUp(p, o) \/ WalletFails(p, o)
        PROVE  UNCHANGED sent
    BY <1>3, ReadMsg2Effect, CompletedEffect, FailingEffect
  <1>4. ASSUME NEW o \in Orders, AcceptOrder(o)
        PROVE  UNCHANGED sent
    BY <1>4, AcceptOrderEffect
  <1>5. CASE ConnectionCloses
    BY <1>5, ClosesEffect
  <1>6. ASSUME NEW p \in Parties, Restart(p)
        PROVE  UNCHANGED sent
    BY <1>6, RestartEffect
  <1> QED BY <1>1, <1>2, <1>3, <1>4, <1>5, <1>6, NextCases

LEMMA WhoKeeps ==
    ASSUME IInv, Next
    PROVE  \/ UNCHANGED dlc
           \/ \E p \in Parties, o \in Orders :
                /\ tasks[p][o].step = "ok" /\ UNCHANGED sent
                /\ dlc' = [dlc EXCEPT ![p][o] = Own(p, o)]
  <1>1. CASE HandleOrderAccepted
    BY <1>1, OrderAcceptedEffect
  <1>2. ASSUME NEW p \in Parties,
               IF p = "maker" THEN MakerHandlesProtocolMsg ELSE TakerHandlesProtocolMsg
        PROVE  UNCHANGED dlc
    BY <1>2, HandlesEffect
  <1>3. ASSUME NEW p \in Parties, NEW o \in Orders,
               \/ BuildPartyParams(p, o) \/ ReadMsg0(p, o) \/ ReadMsg1(p, o)
               \/ ReadMsg2(p, o) \/ ReadWrong(p, o) \/ GivesUp(p, o) \/ WalletFails(p, o)
        PROVE  UNCHANGED dlc
    <2>1. BuildPartyParams(p, o) \/ ReadMsg0(p, o) => UNCHANGED dlc
      BY DEF BuildPartyParams, ReadMsg0, taskUnchanged, dbVars
    <2>2. ReadMsg1(p, o) \/ ReadMsg2(p, o) => UNCHANGED dlc
      BY DEF ReadMsg1, ReadMsg2, taskUnchanged, dbVars
    <2>3. ReadWrong(p, o) \/ GivesUp(p, o) \/ WalletFails(p, o) => UNCHANGED dlc
      BY DEF ReadWrong, GivesUp, WalletFails, Fails, dbVars
    <2> QED BY <1>3, <2>1, <2>2, <2>3
  <1>4. ASSUME NEW p \in Parties, NEW o \in Orders, SetupCompleted(p, o)
        PROVE  \/ UNCHANGED dlc
               \/ /\ tasks[p][o].step = "ok" /\ UNCHANGED sent
                  /\ dlc' = [dlc EXCEPT ![p][o] = Own(p, o)]
    <2>1. /\ UNCHANGED sent
          /\ dlc' = IF tasks[p][o].step = "ok" THEN [dlc EXCEPT ![p][o] = Own(p, o)] ELSE dlc
      BY <1>4, CompletedEffect, Zenon
    <2> QED BY <2>1
  <1>5. ASSUME NEW o \in Orders, AcceptOrder(o)
        PROVE  UNCHANGED dlc
    BY <1>5, AcceptOrderEffect
  <1>6. CASE ConnectionCloses
    BY <1>6, ClosesEffect
  <1>7. ASSUME NEW p \in Parties, Restart(p)
        PROVE  UNCHANGED dlc
    BY <1>7, RestartEffect
  <1> QED BY <1>1, <1>2, <1>3, <1>4, <1>5, <1>6, <1>7, NextCases

-----------------------------------------------------------------------------
(* Each part of the invariant is kept.                                     *)

(* Kinds tell messages apart, and messages of a kind their contents.       *)
LEMMA Distinct ==
    /\ \A o \in Orders, c \in Contracts : Msg0(o) # Msg1(c) /\ Msg0(o) # Msg2(c)
    /\ \A c, d \in Contracts :
         /\ Msg1(c) # Msg2(d)
         /\ Msg1(c) = Msg1(d) => c = d
         /\ Msg2(c) = Msg2(d) => c.lock = d.lock
    /\ \A o, q \in Orders : Msg0(o) = Msg0(q) => o = q
    /\ \A o, q \in Orders : Accepted(o) = Accepted(q) => o = q
    /\ \A o, q \in Orders : Accepted(o) # Msg0(q)
  BY DEF Msg0, Msg1, Msg2, Accepted

(* One message is said, and nothing else.                                  *)
LEMMA SaidOnly ==
    ASSUME NEW q, NEW m, Said(q, m), NEW r \in Parties, NEW x, x \in sent'[r], x # m \/ r # q
    PROVE  x \in sent[r]
  BY DEF Said

LEMMA HonestKept ==
    ASSUME IInv, Next
    PROVE  Honest'
  <1>1. Shape /\ Honest
    BY StepShape DEF IInv
  <1>2. SUFFICES ASSUME NEW p \in Parties, NEW c \in Contracts
                 PROVE  /\ Msg1(c) \in sent'[p] =>
                             /\ c.event = terms[KeyOf(p, c.lock)].event
                             /\ c.lock.margin = terms[KeyOf(p, c.lock)].margin
                        /\ Msg2(c) \in sent'[p] /\ c.event = terms[KeyOf(p, c.lock)].event
                             => Msg1(c) \in sent'[Other(p)]
    <2>1. UNCHANGED terms
      BY <1>1 DEF Shape
    <2> QED BY <2>1 DEF Honest, Msg1, Msg2, KeyOf
  <1>3. /\ Msg1(c) \in sent[p] => /\ c.event = terms[KeyOf(p, c.lock)].event
                                  /\ c.lock.margin = terms[KeyOf(p, c.lock)].margin
        /\ Msg2(c) \in sent[p] /\ c.event = terms[KeyOf(p, c.lock)].event
             => Msg1(c) \in sent[Other(p)]
        /\ sent[Other(p)] \subseteq sent'[Other(p)]
    BY <1>1 DEF Honest, Shape, Other, Parties
  <1>4. CASE UNCHANGED sent
    BY <1>3, <1>4
  <1>5. ASSUME NEW q \in Parties, NEW o \in Orders, BuildPartyParams(q, o)
        PROVE  (Msg1(c) \in sent'[p] => Msg1(c) \in sent[p])
               /\ (Msg2(c) \in sent'[p] => Msg2(c) \in sent[p])
    <2>1. Said(q, Msg0(o))
      BY <1>5, BuildEffect
    <2> QED BY <2>1, Distinct DEF Said
  <1>6. ASSUME NEW q \in Parties, NEW o \in Orders, ReadMsg0(q, o)
        PROVE  /\ Msg1(c) \in sent'[p] => Msg1(c) \in sent[p]
                    \/ /\ c.event = terms[KeyOf(p, c.lock)].event
                       /\ c.lock.margin = terms[KeyOf(p, c.lock)].margin
               /\ Msg2(c) \in sent'[p] => Msg2(c) \in sent[p]
    <2> DEFINE d == Built(q, o, Unread(q, o).key)
    <2>1. Said(q, Msg1(d)) /\ Unread(q, o).key \in Orders /\ terms \in [Orders -> Terms]
      BY <1>6, ReadMsg0Effect DEF IInv, TypeOK
    <2>2. /\ d \in Contracts /\ KeyOf(q, d.lock) = o
          /\ d.event = terms[o].event /\ d.lock.margin = terms[o].margin
      BY <2>1, BuiltType
    <2> HIDE DEF d
    <2>3. (Msg1(c) = Msg1(d) => c = d) /\ Msg1(d) # Msg2(c)
      BY <2>2, Distinct
    <2>4. /\ Msg1(c) \in sent'[p] => Msg1(c) \in sent[p] \/ (p = q /\ c = d)
          /\ Msg2(c) \in sent'[p] => Msg2(c) \in sent[p]
      BY <2>1, <2>3 DEF Said
    <2> QED BY <2>2, <2>4
  <1>7. ASSUME NEW q \in Parties, NEW o \in Orders, ReadMsg1(q, o)
        PROVE  /\ Msg1(c) \in sent'[p] => Msg1(c) \in sent[p]
               /\ Msg2(c) \in sent'[p] /\ c.event = terms[KeyOf(p, c.lock)].event =>
                    Msg2(c) \in sent[p] \/ Msg1(c) \in sent[Other(p)]
    <2> DEFINE d == Own(q, o)
    <2>1. /\ Said(q, Msg2(d)) /\ Reads(q, o, "msg1") /\ Unread(q, o) = Msg1(d)
      BY <1>7, ReadMsg1Effect
    <2>2. d \in Contracts /\ KeyOf(q, d.lock) = o /\ d.event = terms[o].event
      BY <2>1, OwnTypes DEF Reads
    <2>3. Msg1(d) \in sent[Other(q)]
      BY <2>1, ReadsTypes DEF Reads, IInv, Delivered
    <2> HIDE DEF d
    <2>4. /\ Msg1(c) \in sent'[p] => Msg1(c) \in sent[p]
          /\ Msg2(c) \in sent'[p] => Msg2(c) \in sent[p] \/ (p = q /\ c.lock = d.lock)
      BY <2>1, <2>2, Distinct DEF Said
    <2>5. c.lock = d.lock /\ c.event = d.event => c = d
      BY <2>2 DEF Contracts
    <2> QED BY <2>2, <2>3, <2>4, <2>5
  <1> QED BY <1>3, <1>4, <1>5, <1>6, <1>7, WhoSpeaks

LEMMA KeptKept ==
    ASSUME IInv, Next
    PROVE  Kept'
  <1>1. Shape /\ Kept /\ dlc \in [Parties -> [Orders -> Contracts \cup {None}]]
    BY StepShape DEF IInv, TypeOK
  <1>2. SUFFICES ASSUME NEW p \in Parties, NEW o \in Orders, dlc'[p][o] # None
                 PROVE  LET c == dlc'[p][o] IN
                        /\ KeyOf(p, c.lock) = o
                        /\ Msg1(c) \in sent'[p] /\ Msg1(c) \in sent'[Other(p)]
                        /\ Msg2(c) \in sent'[Other(p)]
    BY DEF Kept, Msg1, Msg2, KeyOf
  <1>3. dlc[p][o] # None => LET c == dlc[p][o] IN
          /\ KeyOf(p, c.lock) = o
          /\ Msg1(c) \in sent[p] /\ Msg1(c) \in sent[Other(p)]
          /\ Msg2(c) \in sent[Other(p)]
    BY <1>1 DEF Kept
  <1>4. sent[p] \subseteq sent'[p] /\ sent[Other(p)] \subseteq sent'[Other(p)]
    BY <1>1 DEF Shape, Other, Parties
  <1>5. CASE dlc'[p][o] = dlc[p][o]
    BY <1>2, <1>3, <1>4, <1>5
  <1>6. ASSUME NEW q \in Parties, NEW r \in Orders, tasks[q][r].step = "ok",
               dlc' = [dlc EXCEPT ![q][r] = Own(q, r)]
        PROVE  \/ dlc'[p][o] = dlc[p][o]
               \/ LET c == dlc'[p][o] IN
                  /\ KeyOf(p, c.lock) = o
                  /\ Msg1(c) \in sent[p] /\ Msg1(c) \in sent[Other(p)]
                  /\ Msg2(c) \in sent[Other(p)]
    <2>1. /\ KeyOf(q, Own(q, r).lock) = r /\ Own(q, r) \in Contracts \cup {None}
          /\ Msg1(Own(q, r)) \in sent[q] /\ Msg1(Own(q, r)) \in sent[Other(q)]
          /\ Msg2(Own(q, r)) \in sent[Other(q)]
      BY <1>6, OwnTypes DEF IInv, Progress, ProgressOf
    <2>2. /\ dlc'[q][r] = Own(q, r)
          /\ p # q \/ o # r => dlc'[p][o] = dlc[p][o]
      BY <1>1, <1>6, <2>1, ExceptOne
    <2> QED BY <2>1, <2>2
  <1> QED BY <1>3, <1>4, <1>5, <1>6, WhoKeeps

LEMMA OneKeyKept ==
    ASSUME IInv, Next
    PROVE  OneKey'
  <1>1. Shape /\ OneKey /\ "maker" \in Parties
    BY StepShape DEF IInv, Parties
  <1>2. SUFFICES ASSUME NEW c \in Contracts, Msg1(c) \in sent'["maker"]
                 PROVE  LET task == tasks'["maker"][c.lock.maker] IN
                        /\ task.step \notin {"none", "params", "msg0"}
                        /\ task.other = c.lock.taker
                        /\ Msg0(c.lock.maker) \in sent'["maker"]
    BY <1>1 DEF OneKey, Shape, Msg0, Msg1
  <1>3. c.lock.maker \in Orders /\ c.lock.taker \in Orders
    BY DEF Contracts, Locks
  <1>4. CASE Msg1(c) \in sent["maker"]
    <2>1. LET task == tasks["maker"][c.lock.maker] IN
          /\ task.step \notin {"none", "params", "msg0"}
          /\ task.other = c.lock.taker
          /\ Msg0(c.lock.maker) \in sent["maker"]
      BY <1>1, <1>4 DEF OneKey
    <2> QED BY <1>1, <1>3, <2>1 DEF Shape, Forward
  <1>5. CASE UNCHANGED sent
    BY <1>2, <1>4, <1>5
  <1>6. ASSUME NEW q \in Parties, NEW o \in Orders, BuildPartyParams(q, o)
        PROVE  Msg1(c) \in sent["maker"]
    <2>1. Said(q, Msg0(o))
      BY <1>6, BuildEffect
    <2> QED BY <1>1, <1>2, <2>1, Distinct DEF Said
  <1>7. ASSUME NEW q \in Parties, NEW o \in Orders, ReadMsg1(q, o)
        PROVE  Msg1(c) \in sent["maker"]
    <2>1. Said(q, Msg2(Own(q, o))) /\ Own(q, o) \in Contracts
      BY <1>7, ReadMsg1Effect, OwnTypes DEF Reads
    <2> QED BY <1>1, <1>2, <2>1, Distinct DEF Said
  <1>8. ASSUME NEW q \in Parties, NEW o \in Orders, ReadMsg0(q, o),
               Msg1(c) \notin sent["maker"]
        PROVE  LET task == tasks'["maker"][c.lock.maker] IN
               /\ task.step \notin {"none", "params", "msg0"}
               /\ task.other = c.lock.taker
               /\ Msg0(c.lock.maker) \in sent'["maker"]
    <2> DEFINE k == Unread(q, o).key
    <2>1. /\ Said(q, Msg1(Built(q, o, k))) /\ k \in Orders /\ terms \in [Orders -> Terms]
          /\ tasks'[q][o] = [step |-> "msg1", other |-> k, inbox |-> Tail(tasks[q][o].inbox)]
          /\ tasks[q][o].step = "msg0"
      BY <1>8, ReadMsg0Effect DEF IInv, TypeOK, Only, Reads
    <2>2. Built(q, o, k) \in Contracts
      BY <2>1, BuiltType
    <2> HIDE DEF k
    <2>7. q = "maker" /\ Msg1(c) = Msg1(Built(q, o, k))
      BY <1>1, <1>2, <1>8, <2>1, SaidOnly
    <2>3. q = "maker" /\ c = Built(q, o, k)
      BY <2>2, <2>7, Distinct
    <2>4. c.lock.maker = o /\ c.lock.taker = k
      BY <2>3 DEF Built
    <2>5. Msg0(o) \in sent["maker"]
      BY <2>1, <2>3 DEF IInv, Progress, ProgressOf
    <2> QED BY <1>1, <2>1, <2>3, <2>4, <2>5 DEF Shape
  <1> QED BY <1>4, <1>5, <1>6, <1>7, <1>8, WhoSpeaks

LEMMA CrossedKept ==
    ASSUME IInv, Next
    PROVE  Crossed'
  <1>1. /\ Shape /\ Crossed /\ MakerBegins /\ FirstIsMsg0
        /\ "maker" \in Parties /\ "taker" \in Parties
    BY StepShape DEF IInv, Parties
  <1>2. SUFFICES ASSUME NEW c \in Contracts, Msg1(c) \in sent'["taker"],
                        c.lock.maker # c.lock.taker
                 PROVE  /\ Msg0(c.lock.taker) \notin sent'["maker"]
                        /\ tasks'["maker"][c.lock.taker].step \notin {"none", "params"}
    BY <1>1 DEF Crossed, Shape, Msg0, Msg1
  <1> DEFINE x == c.lock.taker
  <1>3. x \in Orders
    BY DEF Contracts, Locks
  <1> HIDE DEF x
  <1>4. tasks["maker"][x].step \notin {"none", "params"} =>
          tasks'["maker"][x].step \notin {"none", "params"}
    BY <1>1, <1>3 DEF Shape, Forward
  <1>5. Msg1(c) \in sent["taker"] => /\ Msg0(x) \notin sent["maker"]
                                     /\ tasks["maker"][x].step \notin {"none", "params"}
    BY <1>1, <1>2 DEF Crossed, x
  <1>6. CASE UNCHANGED sent
    BY <1>2, <1>4, <1>5, <1>6 DEF x
  <1>7. ASSUME NEW q \in Parties, NEW o \in Orders, BuildPartyParams(q, o)
        PROVE  /\ Msg0(x) \notin sent'["maker"]
               /\ tasks'["maker"][x].step \notin {"none", "params"}
    <2>1. Said(q, Msg0(o)) /\ tasks[q][o].step = "params"
      BY <1>7, BuildEffect DEF BuildPartyParams
    <2>2. Msg1(c) \in sent["taker"]
      BY <1>1, <1>2, <2>1, Distinct DEF Said
    <2>3. Msg0(x) \in sent'["maker"] => Msg0(x) \in sent["maker"] \/ (q = "maker" /\ x = o)
      BY <1>1, <1>3, <2>1, Distinct DEF Said
    <2> QED BY <1>4, <1>5, <2>1, <2>2, <2>3
  <1>8. ASSUME NEW q \in Parties, NEW o \in Orders, ReadMsg1(q, o)
        PROVE  /\ Msg0(x) \notin sent'["maker"]
               /\ tasks'["maker"][x].step \notin {"none", "params"}
    <2>1. Said(q, Msg2(Own(q, o))) /\ Own(q, o) \in Contracts
      BY <1>8, ReadMsg1Effect, OwnTypes DEF Reads
    <2>3. Msg1(c) # Msg2(Own(q, o)) /\ Msg0(x) # Msg2(Own(q, o))
      BY <1>3, <2>1, Distinct
    <2>2. /\ Msg1(c) \in sent["taker"]
          /\ Msg0(x) \in sent'["maker"] => Msg0(x) \in sent["maker"]
      BY <1>1, <1>2, <2>1, <2>3, SaidOnly
    <2> QED BY <1>4, <1>5, <2>2
  <1>9. ASSUME NEW q \in Parties, NEW o \in Orders, ReadMsg0(q, o)
        PROVE  /\ Msg0(x) \notin sent'["maker"]
               /\ tasks'["maker"][x].step \notin {"none", "params"}
    <2> DEFINE k == Unread(q, o).key
               d == Built(q, o, k)
    <2>1. Said(q, Msg1(d)) /\ k \in Orders /\ terms \in [Orders -> Terms]
      BY <1>9, ReadMsg0Effect DEF IInv, TypeOK
    <2>2. d \in Contracts /\ (q = "taker" => d.lock.maker = k /\ d.lock.taker = o)
      BY <2>1, BuiltType DEF Built
    <2>3. Reads(q, o, "msg0")
      BY <1>9 DEF ReadMsg0
    <2>4. Unread(q, o).key # o => Unread(q, o) # Msg0(o)
      BY DEF Msg0
    <2> HIDE DEF k, d
    <2>7. Msg0(x) # Msg1(d) /\ (Msg1(c) = Msg1(d) => c = d)
      BY <1>3, <2>2, Distinct
    <2>5. /\ Msg1(c) \in sent["taker"] \/ (q = "taker" /\ c = d)
          /\ Msg0(x) \in sent'["maker"] => Msg0(x) \in sent["maker"]
      BY <1>1, <1>2, <2>1, <2>7, SaidOnly
    <2>6. CASE q = "taker" /\ c = d
      <3>1. x = o /\ k # o
        BY <1>2, <2>2, <2>6 DEF x
      <3>2. /\ tasks["taker"][o].inbox # <<>> /\ tasks["taker"][o].step = "msg0"
            /\ Head(tasks["taker"][o].inbox) # Msg0(o)
        BY <2>3, <2>4, <2>6, <3>1 DEF Reads, Unread, k
      <3>3. /\ Msg0(o) \notin sent["maker"]
            /\ tasks["maker"][o].step # "params"
        BY <1>1, <3>2 DEF FirstIsMsg0, Unheard, Silent, FirstFor
      <3>4. tasks["maker"][o].step # "none"
        BY <1>1, <3>2 DEF MakerBegins
      <3> QED BY <1>4, <2>5, <3>1, <3>3, <3>4
    <2> QED BY <1>4, <1>5, <2>5, <2>6
  <1> QED BY <1>6, <1>7, <1>8, <1>9, WhoSpeaks DEF x

(* What was said stays said.                                               *)
LEMMA ProgressStays ==
    ASSUME IInv, Shape, NEW p \in Parties, NEW o \in Orders,
           \/ /\ tasks'[p][o].step = tasks[p][o].step
              /\ tasks'[p][o].other = tasks[p][o].other
           \/ tasks'[p][o].step \in {"none", "params", "failed", "done"}
    PROVE  ProgressOf(p, o)'
  <1>1. ProgressOf(p, o) /\ UNCHANGED terms /\ Other(p) \in Parties
        /\ \A q \in Parties : sent[q] \subseteq sent'[q]
    BY DEF IInv, Progress, Shape, Other, Parties
  <1>2. CASE /\ tasks'[p][o].step = tasks[p][o].step
             /\ tasks'[p][o].other = tasks[p][o].other
    <2>1. Own(p, o)' = Own(p, o) /\ Msg0(o)' = Msg0(o)
      BY <1>1, <1>2 DEF Own, Built, Msg0
    <2>2. Msg1(Own(p, o))' = Msg1(Own(p, o)) /\ Msg2(Own(p, o))' = Msg2(Own(p, o))
      BY <2>1 DEF Msg1, Msg2
    <2> QED BY <1>1, <1>2, <2>1, <2>2 DEF ProgressOf
  <1>3. CASE tasks'[p][o].step \in {"none", "params", "failed", "done"}
    BY <1>3 DEF ProgressOf
  <1> QED BY <1>2, <1>3

(* One set-up goes on: the others stay where they are.                     *)
LEMMA ProgressOnly ==
    ASSUME IInv, Shape, NEW p \in Parties, NEW o \in Orders, NEW t, Only(p, o, t),
           ProgressOf(p, o)'
    PROVE  Progress'
  <1>1. ASSUME NEW q \in Parties, NEW r \in Orders, q # p \/ r # o
        PROVE  ProgressOf(q, r)'
    BY <1>1, ProgressStays DEF Only
  <1> QED BY <1>1 DEF Progress

LEMMA ProgressKept ==
    ASSUME IInv, Next
    PROVE  Progress'
  <1>1. Shape /\ UNCHANGED terms
    BY StepShape DEF Shape
  <1>2. CASE HandleOrderAccepted
    <2>1. PICK o \in Orders : UNCHANGED tasks
             \/ Only("taker", o, [step |-> "params", other |-> None, inbox |-> <<>>])
      BY <1>2, OrderAcceptedEffect
    <2>2. CASE UNCHANGED tasks
      BY <1>1, <2>2, ProgressStays DEF Progress
    <2>3. CASE Only("taker", o, [step |-> "params", other |-> None, inbox |-> <<>>])
      BY <1>1, <2>3, ProgressStays, ProgressOnly DEF Only, Parties
    <2> QED BY <2>1, <2>2, <2>3
  <1>3. ASSUME NEW p \in Parties,
               IF p = "maker" THEN MakerHandlesProtocolMsg ELSE TakerHandlesProtocolMsg
        PROVE  Progress'
    <2>1. \A q \in Parties, o \in Orders :
             tasks'[q][o].step = tasks[q][o].step /\ tasks'[q][o].other = tasks[q][o].other
      BY <1>3, HandlesEffect DEF RoutesTo
    <2> QED BY <1>1, <2>1, ProgressStays DEF Progress
  <1>4. ASSUME NEW p \in Parties, NEW o \in Orders, BuildPartyParams(p, o)
        PROVE  Progress'
    <2>1. /\ Said(p, Msg0(o))
          /\ Only(p, o, [step |-> "msg0", other |-> tasks[p][o].other,
                         inbox |-> tasks[p][o].inbox])
      BY <1>4, BuildEffect
    <2>2. Msg0(o) \in sent'[p]
      BY <2>1 DEF Said
    <2>3. tasks'[p][o].step = "msg0"
      BY <2>1 DEF Only
    <2>4. Msg0(o)' = Msg0(o)
      BY <1>1 DEF Msg0
    <2>5. ProgressOf(p, o)'
      BY <2>2, <2>3, <2>4 DEF ProgressOf
    <2> QED BY <1>1, <2>1, <2>5, ProgressOnly
  <1>5. ASSUME NEW p \in Parties, NEW o \in Orders, ReadMsg0(p, o)
        PROVE  Progress'
    <2> DEFINE k == Unread(p, o).key
    <2>1. /\ Said(p, Msg1(Built(p, o, k))) /\ k \in Orders /\ tasks[p][o].step = "msg0"
          /\ Only(p, o, [step |-> "msg1", other |-> k, inbox |-> Tail(tasks[p][o].inbox)])
      BY <1>5, ReadMsg0Effect DEF Reads
    <2> HIDE DEF k
    <2>2. Msg1(Built(p, o, k)) \in sent'[p] /\ Msg0(o) \in sent'[p]
      <3>1. Msg0(o) \in sent[p]
        BY <2>1 DEF IInv, Progress, ProgressOf
      <3> QED BY <2>1, <3>1 DEF Said
    <2>3. tasks'[p][o].step = "msg1" /\ tasks'[p][o].other = k
      BY <2>1 DEF Only
    <2>4. Own(p, o)' = Built(p, o, k) /\ Msg0(o)' = Msg0(o)
      BY <1>1, <2>3 DEF Own, Built, Msg0
    <2>5. Msg1(Own(p, o))' = Msg1(Built(p, o, k))
      BY <2>4 DEF Msg1
    <2>6. ProgressOf(p, o)'
      BY <2>1, <2>2, <2>3, <2>4, <2>5 DEF ProgressOf
    <2> QED BY <1>1, <2>1, <2>6, ProgressOnly
  <1>6. ASSUME NEW p \in Parties, NEW o \in Orders, NEW s \in {"msg2", "ok"},
               NEW q, Only(p, o, [step |-> s, other |-> tasks[p][o].other, inbox |-> q]),
               tasks[p][o].step \in {"msg1", "msg2"}, Msg1(Own(p, o)) \in sent[Other(p)],
               s = "ok" => Msg2(Own(p, o)) \in sent[Other(p)]
        PROVE  Progress'
    <2>1. tasks'[p][o].step = s /\ tasks'[p][o].other = tasks[p][o].other
      BY <1>6 DEF Only
    <2>2. Own(p, o)' = Own(p, o) /\ Msg0(o)' = Msg0(o)
      BY <1>1, <2>1 DEF Own, Built, Msg0
    <2>3. Msg1(Own(p, o))' = Msg1(Own(p, o)) /\ Msg2(Own(p, o))' = Msg2(Own(p, o))
      BY <2>2 DEF Msg1, Msg2
    <2>4. /\ Msg0(o) \in sent[p] /\ Msg1(Own(p, o)) \in sent[p]
          /\ tasks[p][o].other \in Orders
      BY <1>6 DEF IInv, Progress, ProgressOf
    <2>5. sent[p] \subseteq sent'[p] /\ sent[Other(p)] \subseteq sent'[Other(p)]
      BY <1>1 DEF Shape, Other, Parties
    <2>6. ProgressOf(p, o)'
      BY <1>6, <2>1, <2>2, <2>3, <2>4, <2>5 DEF ProgressOf
    <2> QED BY <1>1, <1>6, <2>6, ProgressOnly
  <1>7. ASSUME NEW p \in Parties, NEW o \in Orders, ReadMsg1(p, o)
        PROVE  Progress'
    <2>1. /\ Reads(p, o, "msg1") /\ Unread(p, o) = Msg1(Own(p, o))
          /\ Only(p, o, [step |-> "msg2", other |-> tasks[p][o].other,
                         inbox |-> Tail(tasks[p][o].inbox)])
      BY <1>7, ReadMsg1Effect
    <2>2. Msg1(Own(p, o)) \in sent[Other(p)]
      BY <2>1, ReadsTypes DEF Reads, IInv, Delivered
    <2> QED BY <1>6, <2>1, <2>2 DEF Reads
  <1>8. ASSUME NEW p \in Parties, NEW o \in Orders, ReadMsg2(p, o)
        PROVE  Progress'
    <2>1. /\ Reads(p, o, "msg2") /\ Unread(p, o) = Msg2(Own(p, o))
          /\ Only(p, o, [step |-> "ok", other |-> tasks[p][o].other,
                         inbox |-> Tail(tasks[p][o].inbox)])
      BY <1>8, ReadMsg2Effect
    <2>2. Msg2(Own(p, o)) \in sent[Other(p)]
      BY <2>1, ReadsTypes DEF Reads, IInv, Delivered
    <2>3. Msg1(Own(p, o)) \in sent[Other(p)]
      BY <2>1 DEF Reads, IInv, Progress, ProgressOf
    <2> QED BY <1>6, <2>1, <2>2, <2>3 DEF Reads
  <1>9. ASSUME NEW p \in Parties, NEW o \in Orders, NEW s \in {"failed", "done", "params"},
               NEW k, NEW q, Only(p, o, [step |-> s, other |-> k, inbox |-> q])
        PROVE  Progress'
    <2>1. tasks'[p][o].step = s
      BY <1>9 DEF Only
    <2> QED BY <1>1, <1>9, <2>1, ProgressStays, ProgressOnly
  <1>10. ASSUME NEW p \in Parties, NEW o \in Orders,
                SetupCompleted(p, o) \/ ReadWrong(p, o) \/ GivesUp(p, o) \/ WalletFails(p, o)
         PROVE  Progress'
    <2>1. CASE SetupCompleted(p, o)
      BY <1>9, <2>1, CompletedEffect
    <2>2. CASE ~SetupCompleted(p, o)
      BY <1>9, <1>10, <2>2, FailingEffect
    <2> QED BY <2>1, <2>2
  <1>11. ASSUME NEW o \in Orders, AcceptOrder(o)
         PROVE  Progress'
    BY <1>9, <1>11, AcceptOrderEffect DEF Parties
  <1>12. CASE ConnectionCloses
    BY <1>1, <1>12, ClosesEffect, ProgressStays DEF Progress
  <1>13. ASSUME NEW p \in Parties, Restart(p)
         PROVE  Progress'
    BY <1>9, <1>13, RestartEffect
  <1> QED BY <1>2, <1>3, <1>4, <1>5, <1>7, <1>8, <1>10, <1>11, <1>12, <1>13, NextCases

(* Queues lose their head or their end, or get messages at the end.        *)
Derived(new, old, M) ==
    \A i \in 1..Len(new) : new[i] \in M \/ \E j \in 1..Len(old) : new[i] = old[j]

LEMMA DerivedQueues ==
    ASSUME NEW S, NEW q \in Seq(S), NEW M
    PROVE  /\ Derived(q, q, M) /\ Derived(<<>>, q, M)
           /\ \A m \in S : Derived(Append(q, m), q, {m})
           /\ q # <<>> => Derived(Tail(q), q, M)
           /\ \A n \in 0..Len(q) : Derived(Truncated(q, n), q, M)
  <1>1. Derived(q, q, M) /\ Derived(<<>>, q, M)
    BY DEF Derived
  <1>2. \A m \in S : Derived(Append(q, m), q, {m})
    BY AppendProperties DEF Derived
  <1>3. q # <<>> => Derived(Tail(q), q, M)
    BY TailOf DEF Derived
  <1>4. ASSUME NEW n \in 0..Len(q)
        PROVE  Derived(Truncated(q, n), q, M)
    <2>1. /\ Len(Truncated(q, n)) = n /\ n \in Nat /\ Len(q) \in Nat /\ n <= Len(q)
          /\ \A i \in 1..n : Truncated(q, n)[i] = q[i]
      BY TruncatedOf
    <2> QED BY <2>1 DEF Derived
  <1> QED BY <1>1, <1>2, <1>3, <1>4

(* Each stream after a step.                                               *)
Acceptances == {Accepted(o) : o \in {q \in Orders : AcceptOrder(q)}}

LEMMA StreamsStep ==
    ASSUME IInv, Next
    PROVE  /\ Derived(toMaker', toMaker, sent'["taker"])
           /\ Derived(toTaker', toTaker, sent'["maker"] \cup Acceptances)
  <1> DEFINE M == sent'["taker"]
             T == sent'["maker"] \cup Acceptances
             G == Derived(toMaker', toMaker, M) /\ Derived(toTaker', toTaker, T)
  <1>1. toMaker \in Seq(SetupMsgs) /\ toTaker \in Seq(ToTaker)
    BY DEF IInv, TypeOK
  <1> HIDE DEF M, T
  <1>2. /\ Derived(toMaker, toMaker, M) /\ Derived(<<>>, toMaker, M)
        /\ toMaker # <<>> => Derived(Tail(toMaker), toMaker, M)
        /\ \A n \in 0..Len(toMaker) : Derived(Truncated(toMaker, n), toMaker, M)
    BY <1>1, DerivedQueues
  <1>3. /\ Derived(toTaker, toTaker, T) /\ Derived(<<>>, toTaker, T)
        /\ toTaker # <<>> => Derived(Tail(toTaker), toTaker, T)
        /\ \A n \in 0..Len(toTaker) : Derived(Truncated(toTaker, n), toTaker, T)
    BY <1>1, DerivedQueues
  <1>4. ASSUME NEW p \in Parties, NEW m \in ToTaker, Carried(p, m),
               p = "taker" => m \in SetupMsgs /\ m \in M, p = "maker" => m \in T
        PROVE  G
    <2>1. p = "taker" => Derived(Append(toMaker, m), toMaker, M)
      BY <1>1, <1>4, DerivedQueues DEF Derived
    <2>2. p = "maker" => Derived(Append(toTaker, m), toTaker, T)
      BY <1>1, <1>4, DerivedQueues DEF Derived
    <2> QED BY <1>2, <1>3, <1>4, <2>1, <2>2 DEF Carried
  <1>5. ASSUME NEW p \in Parties, NEW m \in SetupMsgs, Carried(p, m), Said(p, m)
        PROVE  G
    <2>1. /\ p = "taker" => m \in M
          /\ p = "maker" => m \in T
      BY <1>5 DEF Said, M, T
    <2> QED BY <1>4, <1>5, <2>1, MessageTypes
  <1>6. ASSUME HandleOrderAccepted
        PROVE  G
    BY <1>2, <1>3, <1>6, OrderAcceptedEffect DEF M, T
  <1>7. ASSUME NEW p \in Parties,
               IF p = "maker" THEN MakerHandlesProtocolMsg ELSE TakerHandlesProtocolMsg
        PROVE  G
    BY <1>2, <1>3, <1>7, HandlesEffect DEF Parties
  <1>8. ASSUME NEW p \in Parties, NEW o \in Orders, BuildPartyParams(p, o)
        PROVE  G
    BY <1>5, <1>8, BuildEffect, Msg0Type DEF IInv, TypeOK
  <1>9. ASSUME NEW p \in Parties, NEW o \in Orders, ReadMsg0(p, o)
        PROVE  G
    <2> DEFINE k == Unread(p, o).key
    <2>1. /\ k \in Orders /\ Said(p, Msg1(Built(p, o, k))) /\ Carried(p, Msg1(Built(p, o, k)))
          /\ terms \in [Orders -> Terms]
      BY <1>9, ReadMsg0Effect DEF IInv, TypeOK
    <2> HIDE DEF k
    <2>2. Msg1(Built(p, o, k)) \in SetupMsgs
      BY <2>1, BuiltType, MessageTypes
    <2> QED BY <1>5, <2>1, <2>2
  <1>10. ASSUME NEW p \in Parties, NEW o \in Orders, ReadMsg1(p, o)
         PROVE  G
    BY <1>5, <1>10, ReadMsg1Effect, OwnTypes DEF Reads
  <1>11. ASSUME NEW p \in Parties, NEW o \in Orders,
                \/ ReadMsg2(p, o) \/ SetupCompleted(p, o)
                \/ ReadWrong(p, o) \/ GivesUp(p, o) \/ WalletFails(p, o)
         PROVE  G
    BY <1>2, <1>3, <1>11, ReadMsg2Effect, CompletedEffect, FailingEffect DEF wireVars
  <1>12. ASSUME NEW o \in Orders, AcceptOrder(o)
         PROVE  G
    <2>1. Accepted(o) \in T /\ Accepted(o) \in ToTaker
      BY <1>12, MessageTypes DEF T, Acceptances
    <2>2. Carried("maker", Accepted(o))
      BY <1>12, AcceptOrderEffect
    <2> QED BY <1>4, <2>1, <2>2 DEF Parties
  <1>13. ASSUME ConnectionCloses
         PROVE  G
    <2>1. PICK n \in 0..Len(toMaker) : toMaker' = Truncated(toMaker, n)
      BY <1>13, ClosesEffect
    <2>2. PICK j \in 0..Len(toTaker) : toTaker' = Truncated(toTaker, j)
      BY <1>13, ClosesEffect
    <2> QED BY <1>2, <1>3, <2>1, <2>2
  <1>14. ASSUME NEW p \in Parties, Restart(p)
         PROVE  G
    <2>1. toMaker' \in {<<>>, toMaker} /\ toTaker' \in {<<>>, toTaker}
      BY <1>14, RestartEffect
    <2> QED BY <1>2, <1>3, <2>1
  <1> HIDE DEF G
  <1>15. G
    BY <1>6, <1>7, <1>8, <1>9, <1>10, <1>11, <1>12, <1>13, <1>14, NextCases
  <1> QED BY <1>15 DEF G, M, T

LEMMA InboxStep ==
    ASSUME IInv, Next, NEW p \in Parties, NEW o \in Orders
    PROVE  Derived(tasks'[p][o].inbox, tasks[p][o].inbox, sent[Other(p)])
  <1> DEFINE S == sent[Other(p)]
             G == Derived(tasks'[p][o].inbox, tasks[p][o].inbox, S)
  <1>1. /\ \A q \in Parties, r \in Orders : tasks[q][r].inbox \in Seq(SetupMsgs)
        /\ toMaker \in Seq(SetupMsgs) /\ toTaker \in Seq(ToTaker)
    BY TaskTypes DEF IInv, TypeOK
  <1> HIDE DEF S
  <1>2. LET q == tasks[p][o].inbox IN
        /\ Derived(q, q, S) /\ Derived(<<>>, q, S) /\ (q # <<>> => Derived(Tail(q), q, S))
    BY <1>1, DerivedQueues
  <1>3. ASSUME NEW q \in Parties, NEW r \in Orders, NEW s, NEW k, NEW b,
               Only(q, r, [step |-> s, other |-> k, inbox |-> b]),
               \/ b = <<>> \/ b = tasks[q][r].inbox
               \/ tasks[q][r].inbox # <<>> /\ b = Tail(tasks[q][r].inbox)
        PROVE  G
    <2>1. q # p \/ r # o => tasks'[p][o].inbox = tasks[p][o].inbox
      BY <1>3 DEF Only
    <2>2. q = p /\ r = o => tasks'[p][o].inbox = b
      BY <1>3 DEF Only
    <2> QED BY <1>2, <1>3, <2>1, <2>2
  <1>4. ASSUME HandleOrderAccepted
        PROVE  G
    <2>1. PICK r \in Orders : UNCHANGED tasks
             \/ Only("taker", r, [step |-> "params", other |-> None, inbox |-> <<>>])
      BY <1>4, OrderAcceptedEffect
    <2> HIDE DEF G
    <2>2. Only("taker", r, [step |-> "params", other |-> None, inbox |-> <<>>]) => G
      BY <1>3 DEF Parties
    <2>3. UNCHANGED tasks => G
      BY <1>2 DEF G
    <2> QED BY <2>1, <2>2, <2>3
  <1>5. ASSUME NEW q \in Parties,
               IF q = "maker" THEN MakerHandlesProtocolMsg ELSE TakerHandlesProtocolMsg
        PROVE  G
    <2> DEFINE m == Head(IF q = "maker" THEN toMaker ELSE toTaker)
    <2>1. /\ RoutesTo(q, m) /\ m \in SetupMsgs
          /\ q = "maker" => toMaker # <<>>
          /\ q = "taker" => toTaker # <<>>
      BY <1>5, HandlesEffect
    <2>2. m \in sent[Other(q)]
      BY <1>1, <2>1, TailOf, MessageTypes DEF IInv, Delivered, Other, Parties
    <2> HIDE DEF m
    <2>3. Derived(Append(tasks[p][o].inbox, m), tasks[p][o].inbox, {m})
      BY <1>1, <2>1, DerivedQueues
    <2>4. q = p => Derived(Append(tasks[p][o].inbox, m), tasks[p][o].inbox, S)
      BY <2>2, <2>3 DEF Derived, S
    <2> QED BY <1>2, <2>1, <2>4 DEF RoutesTo
  <1>6. ASSUME NEW q \in Parties, NEW r \in Orders,
               \/ BuildPartyParams(q, r) \/ ReadMsg0(q, r) \/ ReadMsg1(q, r)
               \/ ReadMsg2(q, r) \/ SetupCompleted(q, r)
               \/ ReadWrong(q, r) \/ GivesUp(q, r) \/ WalletFails(q, r)
        PROVE  G
    <2> HIDE DEF G
    <2>1. CASE BuildPartyParams(q, r)
      BY <1>3, <2>1, BuildEffect
    <2>2. CASE ReadMsg0(q, r)
      BY <1>3, <2>2, ReadMsg0Effect DEF Reads
    <2>3. CASE ReadMsg1(q, r)
      BY <1>3, <2>3, ReadMsg1Effect DEF Reads
    <2>4. CASE ReadMsg2(q, r)
      BY <1>3, <2>4, ReadMsg2Effect DEF Reads
    <2>5. CASE SetupCompleted(q, r)
      <3>1. Only(q, r, [step |-> "done", other |-> tasks[q][r].other, inbox |-> tasks[q][r].inbox])
        BY <2>5, CompletedEffect
      <3> QED BY <1>3, <3>1
    <2>6. CASE ReadWrong(q, r) \/ GivesUp(q, r) \/ WalletFails(q, r)
      BY <1>3, <2>6, FailingEffect
    <2> QED BY <1>6, <2>1, <2>2, <2>3, <2>4, <2>5, <2>6
  <1>7. ASSUME NEW r \in Orders, AcceptOrder(r)
        PROVE  G
    BY <1>3, <1>7, AcceptOrderEffect DEF Parties
  <1>8. ASSUME ConnectionCloses
        PROVE  G
    BY <1>2, <1>8, ClosesEffect
  <1>9. ASSUME NEW q \in Parties, Restart(q)
        PROVE  G
    BY <1>3, <1>9, RestartEffect
  <1> HIDE DEF G
  <1>10. G
    BY <1>4, <1>5, <1>6, <1>7, <1>8, <1>9, NextCases
  <1> QED BY <1>10 DEF G, S

LEMMA DeliveredKept ==
    ASSUME IInv, Next
    PROVE  Delivered'
  <1>1. \A p \in Parties : sent[p] \subseteq sent'[p] /\ Other(p) \in Parties
    BY StepShape DEF Shape, Other, Parties
  <1>2. /\ \A i \in 1..Len(toMaker) : toMaker[i] \in sent["taker"]
        /\ \A i \in 1..Len(toTaker) :
             toTaker[i].kind = "accepted" \/ toTaker[i] \in sent["maker"]
        /\ \A p \in Parties, o \in Orders : \A i \in 1..Len(tasks[p][o].inbox) :
             tasks[p][o].inbox[i] \in sent[Other(p)]
    BY DEF IInv, Delivered
  <1>3. \A i \in 1..Len(toMaker') : toMaker'[i] \in sent'["taker"]
    BY <1>1, <1>2, StreamsStep DEF Derived, Parties
  <1>4. \A i \in 1..Len(toTaker') :
           toTaker'[i].kind = "accepted" \/ toTaker'[i] \in sent'["maker"]
    BY <1>1, <1>2, StreamsStep, MessageTypes DEF Derived, Parties, Acceptances
  <1>5. \A p \in Parties, o \in Orders : \A i \in 1..Len(tasks'[p][o].inbox) :
           tasks'[p][o].inbox[i] \in sent'[Other(p)]
    BY <1>1, <1>2, InboxStep DEF Derived
  <1> QED BY <1>3, <1>4, <1>5 DEF Delivered

(* Only an acceptance starts the maker's set-up, and it is followed by the *)
(* taker's.                                                                *)
LEMMA WhoStarts ==
    ASSUME IInv, Next, NEW o \in Orders
    PROVE  /\ tasks["maker"][o].step = "none" =>
                tasks'["maker"][o].step = "none" \/ AcceptOrder(o)
           /\ cfd'["maker"][o] = "requested" => cfd["maker"][o] = "requested" /\ ~AcceptOrder(o)
           /\ tasks["taker"][o].step = "none" /\ tasks'["taker"][o].step # "none" =>
                toTaker # <<>> /\ Head(toTaker) = Accepted(o)
  <1> DEFINE G == /\ tasks["maker"][o].step = "none" =>
                       tasks'["maker"][o].step = "none" \/ AcceptOrder(o)
                  /\ cfd'["maker"][o] = "requested" =>
                       cfd["maker"][o] = "requested" /\ ~AcceptOrder(o)
                  /\ tasks["taker"][o].step = "none" /\ tasks'["taker"][o].step # "none" =>
                       toTaker # <<>> /\ Head(toTaker) = Accepted(o)
  <1>1. "maker" \in Parties /\ "taker" \in Parties
    BY DEF Parties
  <1>2. AcceptOrder(o) => cfd'["maker"][o] = "setup"
    BY <1>1, AcceptOrderEffect
  <1>3. ASSUME NEW p \in Parties, NEW r \in Orders, NEW t, Only(p, r, t),
               tasks[p][r].step # "none",
               cfd'["maker"][o] = "requested" => cfd["maker"][o] = "requested"
        PROVE  G
    BY <1>1, <1>2, <1>3 DEF Only
  <1>4. ASSUME HandleOrderAccepted
        PROVE  G
    <2>1. PICK r \in Orders :
            /\ toTaker # <<>> /\ Head(toTaker) = Accepted(r)
            /\ \A q \in Orders : cfd'["maker"][q] = cfd["maker"][q]
            /\ UNCHANGED tasks
               \/ Only("taker", r, [step |-> "params", other |-> None, inbox |-> <<>>])
      BY <1>4, OrderAcceptedEffect
    <2> QED BY <1>1, <1>2, <2>1 DEF Only
  <1>5. ASSUME NEW p \in Parties,
               IF p = "maker" THEN MakerHandlesProtocolMsg ELSE TakerHandlesProtocolMsg
        PROVE  G
    BY <1>1, <1>2, <1>5, HandlesEffect DEF RoutesTo
  <1>6. ASSUME NEW p \in Parties, NEW r \in Orders,
               \/ BuildPartyParams(p, r) \/ ReadMsg0(p, r) \/ ReadMsg1(p, r)
               \/ ReadMsg2(p, r) \/ ReadWrong(p, r) \/ GivesUp(p, r) \/ WalletFails(p, r)
        PROVE  G
    <2>1. UNCHANGED cfd /\ tasks[p][r].step # "none"
      BY <1>6 DEF BuildPartyParams, ReadMsg0, ReadMsg1, ReadMsg2, ReadWrong, GivesUp,
         WalletFails, Fails, taskUnchanged, dbVars, Reads
    <2>2. PICK t : Only(p, r, t)
      BY <1>6, BuildEffect, ReadMsg0Effect, ReadMsg1Effect, ReadMsg2Effect, FailingEffect
    <2> QED BY <1>3, <2>1, <2>2
  <1>7. ASSUME NEW p \in Parties, NEW r \in Orders, SetupCompleted(p, r)
        PROVE  G
    <2>1. PICK t : Only(p, r, t)
      BY <1>7, CompletedEffect
    <2>3. /\ \A q \in Parties, i \in Orders : q # p \/ i # r => cfd'[q][i] = cfd[q][i]
          /\ cfd'[p][r] \in {"open", "failed"} /\ tasks[p][r].step \in {"ok", "failed"}
      BY <1>7, CompletedEffect
    <2>2. /\ tasks[p][r].step # "none"
          /\ cfd'["maker"][o] = "requested" => cfd["maker"][o] = "requested"
      BY <1>1, <2>3
    <2> QED BY <1>3, <2>1, <2>2
  <1>8. ASSUME NEW r \in Orders, AcceptOrder(r)
        PROVE  G
    <2>1. /\ Only("maker", r, [step |-> "params", other |-> None, inbox |-> <<>>])
          /\ \A q \in Parties, x \in Orders :
               cfd'[q][x] = IF q = "maker" /\ x = r THEN "setup" ELSE cfd[q][x]
      BY <1>8, AcceptOrderEffect
    <2> QED BY <1>1, <1>2, <1>8, <2>1 DEF Only
  <1>9. ASSUME ConnectionCloses
        PROVE  G
    BY <1>1, <1>2, <1>9, ClosesEffect
  <1>10. ASSUME NEW p \in Parties, Restart(p)
         PROVE  G
    <2>1. PICK r \in Orders :
            /\ tasks[p][r].step # "none"
            /\ \A q \in Parties, x \in Orders :
                 q # p \/ x # r => cfd'[q][x] = cfd[q][x]
            /\ cfd'[p][r] = "failed"
            /\ Only(p, r, [step |-> "done", other |-> tasks[p][r].other, inbox |-> <<>>])
      BY <1>10, RestartEffect
    <2> QED BY <1>1, <1>3, <2>1
  <1> HIDE DEF G
  <1>11. G
    BY <1>4, <1>5, <1>6, <1>7, <1>8, <1>9, <1>10, NextCases
  <1> QED BY <1>11 DEF G

LEMMA MakerBeginsKept ==
    ASSUME IInv, Next
    PROVE  MakerBegins'
  <1>1. /\ Shape /\ MakerBegins /\ "maker" \in Parties /\ "taker" \in Parties
        /\ toTaker \in Seq(ToTaker)
    BY StepShape DEF IInv, TypeOK, Parties
  <1>2. SUFFICES ASSUME NEW o \in Orders
                 PROVE  LET step == tasks'["maker"][o].step IN
                   /\ cfd'["maker"][o] = "requested" => step = "none"
                   /\ step = "none" => /\ tasks'["taker"][o].step = "none"
                                       /\ \A i \in 1..Len(toTaker') : toTaker'[i] # Accepted(o)
                   /\ step \in {"none", "params"} => Msg0(o) \notin sent'["maker"]
    BY <1>1 DEF MakerBegins, Shape, Msg0, Accepted
  <1>3. LET step == tasks["maker"][o].step IN
        /\ cfd["maker"][o] = "requested" => step = "none"
        /\ step = "none" => /\ tasks["taker"][o].step = "none"
                            /\ \A i \in 1..Len(toTaker) : toTaker[i] # Accepted(o)
        /\ step \in {"none", "params"} => Msg0(o) \notin sent["maker"]
    BY <1>1 DEF MakerBegins
  <1>4. LET a == tasks["maker"][o].step
            b == tasks'["maker"][o].step IN
        /\ a # "none" => b # "none"
        /\ a \notin {"none", "params"} => b \notin {"none", "params"}
    BY <1>1 DEF Shape, Forward
  <1>5. cfd'["maker"][o] = "requested" => tasks'["maker"][o].step = "none"
    BY <1>3, WhoStarts
  <1>6. ASSUME tasks'["maker"][o].step = "none"
        PROVE  /\ tasks'["taker"][o].step = "none"
               /\ \A i \in 1..Len(toTaker') : toTaker'[i] # Accepted(o)
    <2>1. /\ tasks["maker"][o].step = "none" /\ tasks["taker"][o].step = "none"
          /\ \A i \in 1..Len(toTaker) : toTaker[i] # Accepted(o)
      BY <1>3, <1>4, <1>6
    <2>2. tasks'["taker"][o].step = "none"
      BY <1>1, <2>1, WhoStarts, TailOf
    <2>3. ~AcceptOrder(o)
      <3>1. SUFFICES ASSUME AcceptOrder(o)
                     PROVE  FALSE
        OBVIOUS
      <3>2. Only("maker", o, [step |-> "params", other |-> None, inbox |-> <<>>])
        BY <3>1, AcceptOrderEffect, Zenon
      <3>3. tasks'["maker"][o].step = "params"
        BY <3>2 DEF Only
      <3> QED BY <1>6, <3>3
    <2>4. Accepted(o) \notin sent'["maker"]
      <3>1. sent'["maker"] \subseteq SetupMsgs
        BY <1>1 DEF Shape, TypeOK, SetupMsgs, Orders, Contracts, Locks
      <3>2. Accepted(o).kind = "accepted" /\ \A m \in SetupMsgs : m.kind # "accepted"
        BY MessageTypes
      <3> QED BY <3>1, <3>2
    <2>5. Accepted(o) \notin Acceptances
      BY <2>3, Distinct DEF Acceptances
    <2> QED BY <2>1, <2>2, <2>4, <2>5, StreamsStep DEF Derived
  <1>7. ASSUME tasks'["maker"][o].step \in {"none", "params"}
        PROVE  Msg0(o) \notin sent'["maker"]
    <2>1. Msg0(o) \notin sent["maker"]
      BY <1>3, <1>4, <1>7
    <2>2. CASE UNCHANGED sent
      BY <2>1, <2>2
    <2>3. ASSUME NEW p \in Parties, NEW r \in Orders, BuildPartyParams(p, r)
          PROVE  Msg0(o) \notin sent'["maker"]
      <3>1. Said(p, Msg0(r)) /\ tasks'[p][r].step = "msg0"
        <4>1. /\ Said(p, Msg0(r))
              /\ Only(p, r, [step |-> "msg0", other |-> tasks[p][r].other,
                             inbox |-> tasks[p][r].inbox])
          BY <2>3, BuildEffect
        <4> QED BY <4>1 DEF Only
      <3>2. ~(p = "maker" /\ r = o)
        BY <1>7, <3>1
      <3> QED BY <1>1, <2>1, <3>1, <3>2, Distinct DEF Said
    <2>4. ASSUME NEW p \in Parties, NEW c \in Contracts, NEW m \in {Msg1(c), Msg2(c)},
                 Said(p, m)
          PROVE  Msg0(o) \notin sent'["maker"]
      <3>1. Msg0(o) # m
        BY <2>4, Distinct
      <3> QED BY <1>1, <2>1, <2>4, <3>1 DEF Said
    <2>5. ASSUME NEW p \in Parties, NEW r \in Orders, ReadMsg0(p, r)
          PROVE  Msg0(o) \notin sent'["maker"]
      <3>1. PICK k \in Orders : Said(p, Msg1(Built(p, r, k)))
        BY <2>5, ReadMsg0Effect
      <3>2. Built(p, r, k) \in Contracts
        BY BuiltType DEF IInv, TypeOK
      <3> QED BY <2>4, <3>1, <3>2
    <2>6. ASSUME NEW p \in Parties, NEW r \in Orders, ReadMsg1(p, r)
          PROVE  Msg0(o) \notin sent'["maker"]
      <3>1. Said(p, Msg2(Own(p, r))) /\ Own(p, r) \in Contracts
        BY <2>6, ReadMsg1Effect, OwnTypes DEF Reads
      <3> QED BY <2>4, <3>1
    <2> QED BY <2>2, <2>3, <2>5, <2>6, WhoSpeaks
  <1> QED BY <1>5, <1>6, <1>7

-----------------------------------------------------------------------------
(* The order of what the taker reads.                                      *)

LEMMA OneActive ==
    ASSUME TypeOK, NEW p \in Parties
    PROVE  /\ \A o, q \in Orders :
                tasks[p][o].step \notin {"none", "done"} /\ tasks[p][q].step \notin {"none", "done"}
                  => o = q
           /\ setup[p] = None => \A o \in Orders : tasks[p][o].step \in {"none", "done"}
           /\ \A o \in Orders : tasks[p][o].step \notin {"none", "done"} => setup[p] = o
  BY NoneAssumption DEF TypeOK

LEMMA HeadOfAppend ==
    ASSUME NEW S, NEW q \in Seq(S), NEW m \in S
    PROVE  /\ Append(q, m) # <<>>
           /\ Head(Append(q, m)) = IF q = <<>> THEN m ELSE Head(q)
  BY AppendProperties, HeadTailAppend

(* Nothing new for the taker.                                              *)
LEMMA StreamQuiet ==
    ASSUME IInv, Shape, UNCHANGED toTaker, linked' => linked,
           \A o \in Orders :
             /\ Msg0(o) \in sent'["maker"] => Msg0(o) \in sent["maker"]
             /\ tasks'["taker"][o].step \in {"params", "msg0"} =>
                  /\ tasks["taker"][o].step \in {"params", "msg0"}
                  /\ tasks'["taker"][o].inbox = tasks["taker"][o].inbox
             /\ tasks'["maker"][o].step = "params" => tasks["maker"][o].step = "params"
    PROVE  FirstIsMsg0' /\ NextIsMsg0'
  <1>1. FirstIsMsg0 /\ NextIsMsg0 /\ \A o \in Orders : Msg0(o)' = Msg0(o)
    BY DEF IInv, Shape, Msg0
  <1>2. ASSUME NEW o \in Orders
        PROVE  /\ Unheard(o)' => Unheard(o)
               /\ Unheard(o)' => Silent(o)' = Silent(o) /\ FirstFor(o)' = FirstFor(o)
    BY DEF Unheard, Silent, FirstFor
  <1>3. FirstIsMsg0'
    BY <1>1, <1>2 DEF FirstIsMsg0
  <1>4. NextIsMsg0'
    BY <1>1 DEF NextIsMsg0, Accepted
  <1> QED BY <1>3, <1>4

LEMMA StreamSays ==
    ASSUME IInv, Shape, UNCHANGED linked, NEW r \in Orders, NEW m \in SetupMsgs,
           Carried("maker", m), NEW t, Only("maker", r, t),
           tasks["maker"][r].step \in {"params", "msg0", "msg1"}, t.step # "params",
           \A o \in Orders : Msg0(o) \in sent'["maker"] =>
             Msg0(o) \in sent["maker"] \/ (m = Msg0(o) /\ o = r /\ tasks["maker"][r].step = "params")
    PROVE  FirstIsMsg0' /\ NextIsMsg0'
  <1>1. /\ FirstIsMsg0 /\ NextIsMsg0 /\ \A o \in Orders : Msg0(o)' = Msg0(o)
        /\ toTaker \in Seq(ToTaker) /\ m \in ToTaker /\ m.kind # "accepted"
        /\ "maker" \in Parties /\ "taker" \in Parties
    BY MessageTypes DEF IInv, Shape, Msg0, TypeOK, Parties
  <1>2. toTaker' = IF linked THEN Append(toTaker, m) ELSE toTaker
    BY DEF Carried
  <1>3. \A o \in Orders : tasks'["taker"][o] = tasks["taker"][o]
    BY <1>1 DEF Only
  <1>4. \A o \in Orders : tasks'["maker"][o].step # "params"
    <2>1. \A o \in Orders : o # r => tasks["maker"][o].step # "params"
      BY <1>1, OneActive DEF IInv
    <2> QED BY <1>1, <2>1 DEF Only
  <1>5. ASSUME NEW o \in Orders, Unheard(o)', Msg0(o) \in sent'["maker"]
        PROVE  IF Silent(o)' THEN ~linked' ELSE FirstFor(o)' = Msg0(o)
    <2>1. Unheard(o)
      BY <1>3, <1>5 DEF Unheard
    <2>2. tasks["taker"][o].inbox \in Seq(SetupMsgs)
      BY <1>1, TaskTypes DEF IInv, TypeOK
    <2>3. CASE m = Msg0(o) /\ Silent(o)
      BY <1>1, <1>2, <1>3, <2>3 DEF Silent, FirstFor
    <2>4. CASE Msg0(o) \in sent["maker"]
      <3>1. IF Silent(o) THEN ~linked ELSE FirstFor(o) = Msg0(o)
        BY <1>1, <2>1, <2>4 DEF FirstIsMsg0
      <3>2. CASE Silent(o)
        BY <1>2, <1>3, <3>1, <3>2 DEF Silent
      <3>3. CASE ~Silent(o)
        <4>1. toTaker # <<>> => toTaker' # <<>> /\ Head(toTaker') = Head(toTaker)
          BY <1>1, <1>2, HeadOfAppend
        <4>2. ~Silent(o)' /\ FirstFor(o)' = FirstFor(o)
          BY <1>3, <3>3, <4>1 DEF Silent, FirstFor
        <4> QED BY <3>1, <3>3, <4>2
      <3> QED BY <3>2, <3>3
    <2>5. tasks["maker"][o].step = "params" => Silent(o)
      BY <1>1, <2>1 DEF FirstIsMsg0
    <2> QED BY <1>5, <2>3, <2>4, <2>5
  <1>6. ASSUME NEW i \in 1..Len(toTaker'), NEW o \in Orders, toTaker'[i] = Accepted(o),
               Msg0(o) \in sent'["maker"]
        PROVE  IF i = Len(toTaker') THEN ~linked' ELSE toTaker'[i + 1] = Msg0(o)
    <2>1. i \in 1..Len(toTaker) /\ toTaker[i] = Accepted(o)
      <3>1. m # Accepted(o)
        BY <1>1, MessageTypes
      <3> QED BY <1>1, <1>2, <1>6, <3>1
    <2>2. CASE Msg0(o) \in sent["maker"]
      <3>1. IF i = Len(toTaker) THEN ~linked ELSE toTaker[i + 1] = Msg0(o)
        BY <1>1, <2>1, <2>2 DEF NextIsMsg0
      <3> QED BY <1>1, <1>2, <2>1, <3>1
    <2>3. CASE m = Msg0(o) /\ tasks["maker"][o].step = "params"
      <3>1. i = Len(toTaker)
        BY <1>1, <2>1, <2>3 DEF NextIsMsg0
      <3> QED BY <1>1, <1>2, <2>3, <3>1
    <2> QED BY <1>6, <2>2, <2>3
  <1>7. FirstIsMsg0'
    BY <1>1, <1>4, <1>5 DEF FirstIsMsg0
  <1>8. NextIsMsg0'
    BY <1>1, <1>4, <1>6 DEF NextIsMsg0, Accepted
  <1> QED BY <1>7, <1>8

(* The maker accepts an order: no set-up of its is active before.          *)
LEMMA StreamAccepts ==
    ASSUME IInv, NEW r \in Orders, AcceptOrder(r)
    PROVE  FirstIsMsg0' /\ NextIsMsg0'
  <1>1. /\ FirstIsMsg0 /\ NextIsMsg0 /\ MakerBegins /\ UNCHANGED <<terms, linked, sent>>
        /\ toTaker \in Seq(ToTaker) /\ Accepted(r) \in ToTaker
        /\ "maker" \in Parties /\ "taker" \in Parties
        /\ setup["maker"] = None /\ tasks["maker"][r].step = "none"
    BY AcceptOrderEffect, MessageTypes DEF IInv, Shape, TypeOK, Parties
  <1>2. toTaker' = IF linked THEN Append(toTaker, Accepted(r)) ELSE toTaker
    BY AcceptOrderEffect DEF Carried
  <1>3. Only("maker", r, [step |-> "params", other |-> None, inbox |-> <<>>])
    BY AcceptOrderEffect
  <1>4. \A o \in Orders : /\ tasks'["taker"][o] = tasks["taker"][o]
                          /\ tasks'["maker"][o].step = "params" => o = r
    <2>1. \A o \in Orders : tasks["maker"][o].step \in {"none", "done"}
      BY <1>1, OneActive DEF IInv
    <2> QED BY <1>1, <1>3, <2>1 DEF Only
  <1>5. /\ tasks["taker"][r].step = "none" /\ Msg0(r) \notin sent["maker"]
        /\ \A i \in 1..Len(toTaker) : toTaker[i] # Accepted(r)
    BY <1>1 DEF MakerBegins
  <1>6. ASSUME NEW o \in Orders, Unheard(o)'
        PROVE  /\ Msg0(o) \in sent["maker"] =>
                    IF Silent(o)' THEN ~linked' ELSE FirstFor(o)' = Msg0(o)
               /\ tasks'["maker"][o].step # "params"
    <2>1. Unheard(o) /\ o # r
      BY <1>4, <1>5, <1>6 DEF Unheard
    <2>2. Msg0(o) \in sent["maker"] =>
             IF Silent(o) THEN ~linked ELSE FirstFor(o) = Msg0(o)
      BY <1>1, <2>1 DEF FirstIsMsg0
    <2>3. CASE Silent(o)
      BY <1>1, <1>2, <1>4, <2>1, <2>2, <2>3 DEF Silent
    <2>4. CASE ~Silent(o)
      <3>1. toTaker # <<>> => toTaker' # <<>> /\ Head(toTaker') = Head(toTaker)
        BY <1>1, <1>2, HeadOfAppend
      <3>2. ~Silent(o)' /\ FirstFor(o)' = FirstFor(o)
        BY <1>4, <2>4, <3>1 DEF Silent, FirstFor
      <3> QED BY <1>4, <2>1, <2>2, <2>4, <3>2
    <2> QED BY <2>3, <2>4
  <1>7. ASSUME NEW i \in 1..Len(toTaker'), NEW o \in Orders, toTaker'[i] = Accepted(o)
        PROVE  /\ Msg0(o) \in sent["maker"] =>
                    IF i = Len(toTaker') THEN ~linked' ELSE toTaker'[i + 1] = Msg0(o)
               /\ tasks'["maker"][o].step = "params" => i = Len(toTaker')
    <2>1. CASE o = r
      BY <1>1, <1>2, <1>5, <1>7, <2>1
    <2>2. CASE o # r
      <3>1. i \in 1..Len(toTaker) /\ toTaker[i] = Accepted(o)
        <4>1. Accepted(r) # Accepted(o)
          BY <2>2, Distinct
        <4> QED BY <1>1, <1>2, <1>7, <4>1
      <3>2. Msg0(o) \in sent["maker"] =>
               IF i = Len(toTaker) THEN ~linked ELSE toTaker[i + 1] = Msg0(o)
        BY <1>1, <3>1 DEF NextIsMsg0
      <3> QED BY <1>1, <1>2, <1>4, <2>2, <3>1, <3>2
    <2> QED BY <2>1, <2>2
  <1>8. \A o \in Orders : Msg0(o)' = Msg0(o)
    BY <1>1 DEF Msg0
  <1>9. FirstIsMsg0'
    BY <1>1, <1>6, <1>8 DEF FirstIsMsg0
  <1>10. NextIsMsg0'
    BY <1>1, <1>7, <1>8 DEF NextIsMsg0, Accepted
  <1> QED BY <1>9, <1>10

(* The taker takes what comes next.                                        *)
LEMMA NextOfTail ==
    ASSUME IInv, UNCHANGED <<terms, linked, sent>>, toTaker # <<>>, toTaker' = Tail(toTaker),
           \A o \in Orders : tasks'["maker"][o].step = tasks["maker"][o].step
    PROVE  NextIsMsg0'
  <1>1. toTaker \in Seq(ToTaker) /\ NextIsMsg0
    BY DEF IInv, TypeOK
  <1>2. /\ Len(toTaker) \in Nat /\ Len(toTaker') = Len(toTaker) - 1
        /\ \A i \in 1..Len(toTaker') :
             i + 1 \in 1..Len(toTaker) /\ toTaker'[i] = toTaker[i + 1]
    BY <1>1, TailOf
  <1>3. ASSUME NEW i \in 1..Len(toTaker'), NEW o \in Orders, toTaker'[i] = Accepted(o)
        PROVE  /\ Msg0(o) \in sent["maker"] =>
                    IF i = Len(toTaker') THEN ~linked ELSE toTaker'[i + 1] = Msg0(o)
               /\ tasks["maker"][o].step = "params" => i = Len(toTaker')
    <2>1. i + 1 \in 1..Len(toTaker) /\ toTaker[i + 1] = Accepted(o)
      BY <1>2, <1>3
    <2>7. i \in Nat /\ i >= 1 /\ i <= Len(toTaker') /\ Len(toTaker') \in Nat
      BY <1>2
    <2>2. /\ Msg0(o) \in sent["maker"] =>
               IF i + 1 = Len(toTaker) THEN ~linked ELSE toTaker[(i + 1) + 1] = Msg0(o)
          /\ tasks["maker"][o].step = "params" => i + 1 = Len(toTaker)
      BY <1>1, <2>1 DEF NextIsMsg0
    <2>3. i # Len(toTaker') => i + 1 \in 1..Len(toTaker')
      BY <2>7
    <2>4. i # Len(toTaker') => toTaker'[i + 1] = toTaker[(i + 1) + 1]
      BY <1>2, <2>3
    <2>5. i = Len(toTaker') <=> i + 1 = Len(toTaker)
      BY <1>2, <2>7
    <2>6. Msg0(o) \in sent["maker"] =>
            IF i = Len(toTaker') THEN ~linked ELSE toTaker'[i + 1] = Msg0(o)
      BY <2>2, <2>4, <2>5
    <2> QED BY <2>2, <2>5, <2>6
  <1> QED BY <1>3 DEF NextIsMsg0, Msg0, Accepted

LEMMA StreamStarts ==
    ASSUME IInv, HandleOrderAccepted
    PROVE  FirstIsMsg0' /\ NextIsMsg0'
  <1>1. PICK r \in Orders :
           /\ toTaker # <<>> /\ Head(toTaker) = Accepted(r) /\ toTaker' = Tail(toTaker)
           /\ UNCHANGED <<terms, linked, sent>>
           /\ \/ /\ setup["taker"] = None
                 /\ Only("taker", r, [step |-> "params", other |-> None, inbox |-> <<>>])
              \/ setup["taker"] # None /\ UNCHANGED tasks
    BY OrderAcceptedEffect DEF Shape
  <1>2. /\ toTaker \in Seq(ToTaker) /\ FirstIsMsg0 /\ NextIsMsg0
        /\ "maker" \in Parties /\ "taker" \in Parties
        /\ \A o \in Orders : Msg0(o)' = Msg0(o)
    BY <1>1 DEF IInv, TypeOK, Parties, Msg0
  <1>3. \A o \in Orders : tasks'["maker"][o].step = tasks["maker"][o].step
    BY <1>1, <1>2 DEF Only
  <1>4. NextIsMsg0'
    BY <1>1, <1>3, NextOfTail
  <1>5. /\ Len(toTaker) \in Nat /\ Len(toTaker') = Len(toTaker) - 1
        /\ toTaker' \in Seq(ToTaker) /\ toTaker[1] = Accepted(r) /\ 1 \in 1..Len(toTaker)
        /\ toTaker' # <<>> => Head(toTaker') = toTaker[2] /\ Len(toTaker') # 0
        /\ toTaker' = <<>> => Len(toTaker') = 0
    <2>1. \A i \in 1..Len(toTaker') : toTaker'[i] = toTaker[i + 1]
      BY <1>1, <1>2, TailOf
    <2>2. toTaker' \in Seq(ToTaker)
      BY <1>1, <1>2, TailOf
    <2>3. toTaker' # <<>> => Head(toTaker') = toTaker'[1] /\ 1 \in 1..Len(toTaker') /\ Len(toTaker') # 0
      BY <2>2, TailOf
    <2>4. /\ Len(toTaker) \in Nat /\ Len(toTaker') = Len(toTaker) - 1
          /\ toTaker[1] = Accepted(r) /\ 1 \in 1..Len(toTaker)
      BY <1>1, <1>2, TailOf
    <2>5. toTaker' # <<>> => Head(toTaker') = toTaker[2]
      BY <2>1, <2>3
    <2>6. toTaker' = <<>> => Len(toTaker') = 0
      OBVIOUS
    <2> QED BY <2>2, <2>3, <2>4, <2>5, <2>6
  <1>6. CASE /\ setup["taker"] = None
             /\ Only("taker", r, [step |-> "params", other |-> None, inbox |-> <<>>])
    <2>1. \A o \in Orders : Unheard(o)' => o = r
      <3>1. \A o \in Orders : tasks["taker"][o].step \in {"none", "done"}
        BY <1>2, <1>6, OneActive DEF IInv
      <3> QED BY <1>2, <1>6, <3>1 DEF Only, Unheard
    <2>2. tasks'["taker"][r].inbox = <<>>
      BY <1>6 DEF Only
    <2>3. /\ Msg0(r) \in sent["maker"] =>
               IF 1 = Len(toTaker) THEN ~linked ELSE toTaker[1 + 1] = Msg0(r)
          /\ tasks["maker"][r].step = "params" => 1 = Len(toTaker)
      BY <1>2, <1>5 DEF NextIsMsg0
    <2>4. (Silent(r)' <=> toTaker' = <<>>) /\ FirstFor(r)' = Head(toTaker')
      BY <2>2 DEF Silent, FirstFor
    <2>5. FirstIsMsg0'
      BY <1>1, <1>2, <1>3, <1>5, <2>1, <2>3, <2>4 DEF FirstIsMsg0
    <2> QED BY <1>4, <2>5
  <1>7. CASE UNCHANGED tasks
    <2>1. ASSUME NEW o \in Orders, Unheard(o)'
          PROVE  /\ Msg0(o) \in sent["maker"] => ~Silent(o)' /\ FirstFor(o)' = Msg0(o)
                 /\ tasks["maker"][o].step # "params"
      <3>1. Unheard(o) /\ ~Silent(o)
        BY <1>1, <1>7, <2>1 DEF Unheard, Silent
      <3>2. /\ Msg0(o) \in sent["maker"] => FirstFor(o) = Msg0(o)
            /\ tasks["maker"][o].step # "params"
        BY <1>2, <3>1 DEF FirstIsMsg0
      <3>3. Accepted(r) # Msg0(o)
        BY Distinct
      <3>4. Msg0(o) \in sent["maker"] => tasks["taker"][o].inbox # <<>>
        BY <1>1, <3>2, <3>3 DEF FirstFor
      <3> QED BY <1>7, <3>2, <3>4 DEF Silent, FirstFor
    <2>2. FirstIsMsg0'
      BY <1>1, <1>2, <1>3, <2>1 DEF FirstIsMsg0
    <2> QED BY <1>4, <2>2
  <1> QED BY <1>1, <1>6, <1>7

LEMMA StreamReads ==
    ASSUME IInv, TakerHandlesProtocolMsg
    PROVE  FirstIsMsg0' /\ NextIsMsg0'
  <1> DEFINE m == Head(toTaker)
  <1>1. /\ "maker" \in Parties /\ "taker" \in Parties /\ "taker" # "maker"
        /\ TypeOK /\ FirstIsMsg0 /\ NextIsMsg0
    BY DEF Parties, IInv
  <1>2. /\ Shape /\ m \in SetupMsgs /\ UNCHANGED <<linked, sent>>
        /\ toTaker # <<>> /\ toTaker' = Tail(toTaker) /\ RoutesTo("taker", m)
    BY <1>1, HandlesEffect
  <1>3. /\ UNCHANGED terms /\ \A o \in Orders : Msg0(o)' = Msg0(o)
        /\ \A o \in Orders : tasks'["maker"][o].step = tasks["maker"][o].step
    BY <1>1, <1>2 DEF Shape, RoutesTo, Msg0
  <1>4. NextIsMsg0'
    BY <1>2, <1>3, NextOfTail
  <1>5. ASSUME NEW o \in Orders, Unheard(o)'
        PROVE  /\ Msg0(o) \in sent["maker"] => ~Silent(o)' /\ FirstFor(o)' = Msg0(o)
               /\ tasks["maker"][o].step # "params"
    <2>1. Unheard(o) /\ ~Silent(o) /\ Running("taker", o)
      BY <1>1, <1>2, <1>5 DEF Unheard, Silent, RoutesTo, Running
    <2>2. setup["taker"] = o
      BY <1>1, <2>1, OneActive DEF Unheard
    <2>3. tasks["taker"][o].inbox \in Seq(SetupMsgs)
      BY <1>1, TaskTypes DEF TypeOK
    <2>4. tasks'["taker"][o].inbox = Append(tasks["taker"][o].inbox, m)
      BY <1>1, <1>2, <2>1, <2>2 DEF RoutesTo
    <2> HIDE DEF m
    <2>5. /\ tasks'["taker"][o].inbox # <<>>
          /\ Head(tasks'["taker"][o].inbox) =
               IF tasks["taker"][o].inbox = <<>> THEN m ELSE Head(tasks["taker"][o].inbox)
      BY <1>2, <2>3, <2>4, HeadOfAppend
    <2>6. FirstFor(o)' = FirstFor(o) /\ ~Silent(o)'
      BY <2>5 DEF FirstFor, Silent, m
    <2> QED BY <1>1, <2>1, <2>6 DEF FirstIsMsg0
  <1>6. FirstIsMsg0'
    BY <1>2, <1>3, <1>5 DEF FirstIsMsg0
  <1> QED BY <1>4, <1>6

LEMMA StreamCloses ==
    ASSUME IInv, ConnectionCloses
    PROVE  FirstIsMsg0' /\ NextIsMsg0'
  <1>1. /\ UNCHANGED <<terms, tasks, sent>> /\ linked' = FALSE
        /\ FirstIsMsg0 /\ NextIsMsg0 /\ toTaker \in Seq(ToTaker)
        /\ \A o \in Orders : Msg0(o)' = Msg0(o)
    BY ClosesEffect DEF Shape, IInv, TypeOK, Msg0
  <1>2. PICK n \in 0..Len(toTaker) : toTaker' = Truncated(toTaker, n)
    BY ClosesEffect
  <1>3. /\ Len(toTaker) \in Nat /\ toTaker' \in Seq(ToTaker) /\ Len(toTaker') = n
        /\ \A i \in 1..n : toTaker'[i] = toTaker[i]
    BY <1>1, <1>2, TruncatedOf
  <1>4. toTaker' # <<>> => toTaker # <<>> /\ Head(toTaker') = Head(toTaker)
    BY <1>1, <1>3
  <1>5. ASSUME NEW o \in Orders, Unheard(o)'
        PROVE  /\ Msg0(o) \in sent["maker"] /\ ~Silent(o)' => FirstFor(o)' = Msg0(o)
               /\ tasks["maker"][o].step = "params" => Silent(o)'
    <2>1. Unheard(o) /\ (~Silent(o)' => ~Silent(o) /\ FirstFor(o)' = FirstFor(o))
      BY <1>1, <1>4, <1>5 DEF Unheard, Silent, FirstFor
    <2> QED BY <1>1, <2>1 DEF FirstIsMsg0
  <1>6. FirstIsMsg0'
    BY <1>1, <1>5 DEF FirstIsMsg0
  <1>7. ASSUME NEW i \in 1..Len(toTaker'), NEW o \in Orders, toTaker'[i] = Accepted(o)
        PROVE  /\ Msg0(o) \in sent["maker"] /\ i # Len(toTaker') => toTaker'[i + 1] = Msg0(o)
               /\ tasks["maker"][o].step = "params" => i = Len(toTaker')
    <2>1. i \in 1..Len(toTaker) /\ toTaker[i] = Accepted(o)
      BY <1>3, <1>7
    <2>2. /\ Msg0(o) \in sent["maker"] /\ i # Len(toTaker) => toTaker[i + 1] = Msg0(o)
          /\ tasks["maker"][o].step = "params" => i = Len(toTaker)
      BY <1>1, <2>1 DEF NextIsMsg0
    <2> QED BY <1>3, <2>1, <2>2
  <1>8. NextIsMsg0'
    BY <1>1, <1>7 DEF NextIsMsg0, Accepted
  <1> QED BY <1>6, <1>8

LEMMA StreamRestarts ==
    ASSUME IInv, NEW p \in Parties, Restart(p)
    PROVE  FirstIsMsg0' /\ NextIsMsg0'
  <1>1. PICK o \in Orders :
          /\ setup[p] = o /\ Shape /\ UNCHANGED sent /\ linked' = FALSE
          /\ toTaker' = (IF p = "taker" THEN <<>> ELSE toTaker)
          /\ Only(p, o, [step |-> "done", other |-> tasks[p][o].other, inbox |-> <<>>])
    BY RestartEffect
  <1>2. /\ TypeOK /\ "maker" \in Parties /\ "taker" \in Parties
        /\ \A q \in Orders : Msg0(q)' = Msg0(q)
    BY <1>1 DEF IInv, Shape, Msg0, Parties
  <1>3. CASE p = "maker"
    BY <1>1, <1>2, <1>3, StreamQuiet DEF Only
  <1>4. CASE p = "taker"
    <2>1. \A q \in Orders : ~Unheard(q)'
      <3>1. \A q \in Orders : q # o => tasks["taker"][q].step \in {"none", "done"}
        BY <1>1, <1>2, <1>4, OneActive
      <3> QED BY <1>1, <1>2, <1>4, <3>1 DEF Only, Unheard
    <2>2. toTaker' = <<>>
      BY <1>1, <1>4
    <2> QED BY <2>1, <2>2 DEF FirstIsMsg0, NextIsMsg0
  <1> QED BY <1>3, <1>4 DEF Parties

LEMMA StreamsKept ==
    ASSUME IInv, Next
    PROVE  FirstIsMsg0' /\ NextIsMsg0'
  <1> DEFINE G == FirstIsMsg0' /\ NextIsMsg0'
  <1>1. /\ TypeOK /\ Shape /\ "maker" \in Parties /\ "taker" \in Parties
        /\ terms \in [Orders -> Terms]
    BY StepShape DEF IInv, TypeOK, Parties
  <1> HIDE DEF G
  <1>2. ASSUME NEW p \in Parties, NEW o \in Orders, NEW t, Only(p, o, t), NEW m \in SetupMsgs,
               Carried(p, m), Said(p, m), UNCHANGED linked,
               tasks[p][o].step \in {"params", "msg0", "msg1"}, t.step # "params",
               p = "taker" /\ t.step = "msg0" =>
                 tasks[p][o].step = "params" /\ t.inbox = tasks[p][o].inbox,
               m = Msg0(o) => tasks[p][o].step = "params",
               \A q \in Orders : q # o => m # Msg0(q)
        PROVE  G
    <2>1. CASE p = "maker"
      <3>1. \A q \in Orders : Msg0(q) \in sent'["maker"] =>
               \/ Msg0(q) \in sent["maker"]
               \/ m = Msg0(q) /\ q = o /\ tasks["maker"][o].step = "params"
        BY <1>1, <1>2, <2>1 DEF Said
      <3> QED BY <1>1, <1>2, <2>1, <3>1, StreamSays DEF G
    <2>2. CASE p = "taker"
      <3>1. UNCHANGED toTaker /\ sent'["maker"] = sent["maker"]
        BY <1>1, <1>2, <2>2 DEF Said, Carried
      <3>2. \A q \in Orders :
              /\ tasks'["taker"][q].step \in {"params", "msg0"} =>
                   /\ tasks["taker"][q].step \in {"params", "msg0"}
                   /\ tasks'["taker"][q].inbox = tasks["taker"][q].inbox
              /\ tasks'["maker"][q].step = "params" => tasks["maker"][q].step = "params"
        BY <1>1, <1>2, <2>2 DEF Only
      <3> QED BY <1>1, <1>2, <3>1, <3>2, StreamQuiet DEF G
    <2> QED BY <2>1, <2>2 DEF Parties
  <1>3. ASSUME NEW p \in Parties, NEW o \in Orders, BuildPartyParams(p, o)
        PROVE  G
    <2>1. /\ Only(p, o, [step |-> "msg0", other |-> tasks[p][o].other,
                         inbox |-> tasks[p][o].inbox])
          /\ Said(p, Msg0(o)) /\ Carried(p, Msg0(o)) /\ Msg0(o) \in SetupMsgs
          /\ UNCHANGED linked /\ tasks[p][o].step = "params"
      BY <1>1, <1>3, BuildEffect, Msg0Type DEF BuildPartyParams, taskUnchanged
    <2>2. \A q \in Orders : q # o => Msg0(o) # Msg0(q)
      BY Distinct
    <2> QED BY <1>2, <2>1, <2>2
  <1>4. ASSUME NEW p \in Parties, NEW o \in Orders, ReadMsg0(p, o)
        PROVE  G
    <2> DEFINE k == Unread(p, o).key
    <2>1. /\ Only(p, o, [step |-> "msg1", other |-> k, inbox |-> Tail(tasks[p][o].inbox)])
          /\ k \in Orders /\ Said(p, Msg1(Built(p, o, k))) /\ Carried(p, Msg1(Built(p, o, k)))
          /\ UNCHANGED linked /\ tasks[p][o].step = "msg0"
      BY <1>4, ReadMsg0Effect DEF ReadMsg0, Reads, taskUnchanged
    <2> HIDE DEF k
    <2>2. Built(p, o, k) \in Contracts /\ Msg1(Built(p, o, k)) \in SetupMsgs
      BY <1>1, <2>1, BuiltType, MessageTypes
    <2>3. \A q \in Orders : Msg1(Built(p, o, k)) # Msg0(q)
      BY <2>2, Distinct
    <2> QED BY <1>2, <2>1, <2>2, <2>3
  <1>5. ASSUME NEW p \in Parties, NEW o \in Orders, ReadMsg1(p, o)
        PROVE  G
    <2>1. /\ Only(p, o, [step |-> "msg2", other |-> tasks[p][o].other,
                         inbox |-> Tail(tasks[p][o].inbox)])
          /\ Said(p, Msg2(Own(p, o))) /\ Carried(p, Msg2(Own(p, o)))
          /\ UNCHANGED linked /\ tasks[p][o].step = "msg1"
      BY <1>5, ReadMsg1Effect DEF ReadMsg1, Reads, taskUnchanged
    <2>2. Own(p, o) \in Contracts /\ Msg2(Own(p, o)) \in SetupMsgs
      BY <2>1, OwnTypes
    <2>3. \A q \in Orders : Msg2(Own(p, o)) # Msg0(q)
      BY <2>2, Distinct
    <2> QED BY <1>2, <2>1, <2>2, <2>3
  <1>6. ASSUME NEW p \in Parties, NEW o \in Orders, NEW s \in {"ok", "failed", "done"},
               NEW k, NEW b, Only(p, o, [step |-> s, other |-> k, inbox |-> b]),
               UNCHANGED <<wireVars, sent>>
        PROVE  G
    <2>1. \A q \in Orders :
            /\ tasks'["taker"][q].step \in {"params", "msg0"} =>
                 /\ tasks["taker"][q].step \in {"params", "msg0"}
                 /\ tasks'["taker"][q].inbox = tasks["taker"][q].inbox
            /\ tasks'["maker"][q].step = "params" => tasks["maker"][q].step = "params"
      BY <1>1, <1>6 DEF Only
    <2> QED BY <1>1, <1>6, <2>1, StreamQuiet DEF wireVars, G
  <1>7. ASSUME NEW p \in Parties, NEW o \in Orders, ReadMsg2(p, o)
        PROVE  G
    <2>1. /\ UNCHANGED <<wireVars, sent>>
          /\ Only(p, o, [step |-> "ok", other |-> tasks[p][o].other,
                         inbox |-> Tail(tasks[p][o].inbox)])
      BY <1>7, ReadMsg2Effect
    <2> QED BY <1>6, <2>1
  <1>8. ASSUME NEW p \in Parties, NEW o \in Orders, SetupCompleted(p, o)
        PROVE  G
    <2>1. /\ UNCHANGED <<wireVars, sent>>
          /\ Only(p, o, [step |-> "done", other |-> tasks[p][o].other,
                         inbox |-> tasks[p][o].inbox])
      BY <1>8, CompletedEffect
    <2> QED BY <1>6, <2>1
  <1>9. ASSUME NEW p \in Parties, NEW o \in Orders,
               ReadWrong(p, o) \/ GivesUp(p, o) \/ WalletFails(p, o)
        PROVE  G
    <2>1. /\ UNCHANGED <<wireVars, sent>>
          /\ Only(p, o, [step |-> "failed", other |-> tasks[p][o].other, inbox |-> <<>>])
      BY <1>9, FailingEffect
    <2> QED BY <1>6, <2>1
  <1>10. ASSUME MakerHandlesProtocolMsg
         PROVE  G
    <2>1. /\ UNCHANGED <<linked, sent, toTaker>>
          /\ RoutesTo("maker", Head(toMaker))
      BY <1>1, <1>10, HandlesEffect
    <2>2. \A q \in Orders :
            /\ tasks'["taker"][q].step = tasks["taker"][q].step
            /\ tasks'["taker"][q].inbox = tasks["taker"][q].inbox
            /\ tasks'["maker"][q].step = tasks["maker"][q].step
      BY <1>1, <2>1 DEF RoutesTo
    <2> QED BY <1>1, <2>1, <2>2, StreamQuiet DEF G
  <1>11. ASSUME NEW p \in Parties,
               IF p = "maker" THEN MakerHandlesProtocolMsg ELSE TakerHandlesProtocolMsg
         PROVE  G
    BY <1>10, <1>11, StreamReads DEF G
  <1>12. G
    <2>1. HandleOrderAccepted => G
      BY StreamStarts DEF G
    <2>2. ConnectionCloses => G
      BY StreamCloses DEF G
    <2>3. \A p \in Parties : Restart(p) => G
      BY StreamRestarts DEF G
    <2>4. \A o \in Orders : AcceptOrder(o) => G
      BY StreamAccepts DEF G
    <2> QED BY <1>3, <1>4, <1>5, <1>7, <1>8, <1>9, <1>11, <2>1, <2>2, <2>3, <2>4, NextCases
  <1> QED BY <1>12 DEF G

-----------------------------------------------------------------------------
(* The theorems.                                                           *)

LEMMA InitIInv ==
    ASSUME Init
    PROVE  IInv
  <1>1. NoTask \in Tasks
    BY DEF NoTask, Tasks
  <1>2. /\ terms \in [Orders -> Terms] /\ linked = TRUE
        /\ cfd = [p \in Parties |-> [o \in Orders |-> "requested"]]
        /\ dlc = [p \in Parties |-> [o \in Orders |-> None]]
        /\ setup = [p \in Parties |-> None]
        /\ tasks = [p \in Parties |-> [o \in Orders |-> NoTask]]
        /\ sent = [p \in Parties |-> {}]
        /\ toMaker = <<>> /\ toTaker = <<>> /\ failures = 0 /\ disturbed = FALSE
    BY DEF Init
  <1>3. \A p \in Parties :
          /\ sent[p] = {} /\ setup[p] = None
          /\ \A o \in Orders : /\ tasks[p][o].step = "none" /\ tasks[p][o].inbox = <<>>
                               /\ dlc[p][o] = None
    BY <1>2 DEF NoTask
  <1>4. TypeOK
    <2>1. /\ toMaker \in Seq(SetupMsgs) /\ toTaker \in Seq(ToTaker)
          /\ failures \in 0..MaxFailures
      BY <1>2, BoundsAssumption
    <2>2. \A p \in Parties, o \in Orders :
             setup[p] = o <=> tasks[p][o].step \notin {"none", "done"}
      BY <1>3, NoneAssumption
    <2>3. /\ cfd \in [Parties -> [Orders -> {"requested", "setup", "open", "failed"}]]
          /\ dlc \in [Parties -> [Orders -> Contracts \cup {None}]]
          /\ setup \in [Parties -> Orders \cup {None}]
          /\ tasks \in [Parties -> [Orders -> Tasks]]
          /\ sent \in [Parties -> SUBSET SetupMsgs]
      BY <1>1, <1>2
    <2> QED BY <1>2, <2>1, <2>2, <2>3 DEF TypeOK
  <1>5. Delivered /\ Progress
    BY <1>2, <1>3 DEF Delivered, Progress, ProgressOf
  <1>6. Honest /\ Kept
    BY <1>3 DEF Honest, Kept
  <1>7. MakerBegins /\ OneKey
    BY <1>2, <1>3 DEF MakerBegins, OneKey, Parties
  <1>8. FirstIsMsg0 /\ NextIsMsg0 /\ Crossed
    BY <1>2, <1>3 DEF FirstIsMsg0, NextIsMsg0, Crossed, Unheard, Parties
  <1> QED BY <1>4, <1>5, <1>6, <1>7, <1>8 DEF IInv

LEMMA StutterIInv ==
    ASSUME IInv, UNCHANGED vars
    PROVE  IInv'
  <1> USE DEF vars, dbVars, wireVars
  <1>1. TypeOK'
    BY DEF IInv, TypeOK
  <1>2. Delivered' /\ Kept' /\ Honest'
    BY DEF IInv, Delivered, Kept, Honest, Msg1, Msg2
  <1>3. Progress'
    BY DEF IInv, Progress, ProgressOf, Msg0, Msg1, Msg2, Own, Built
  <1>4. MakerBegins' /\ OneKey' /\ Crossed'
    BY DEF IInv, MakerBegins, OneKey, Crossed, Msg0, Msg1, Accepted
  <1>5. FirstIsMsg0' /\ NextIsMsg0'
    BY DEF IInv, FirstIsMsg0, NextIsMsg0, Unheard, Silent, FirstFor, Msg0, Accepted
  <1> QED BY <1>1, <1>2, <1>3, <1>4, <1>5 DEF IInv

(* The inductive invariant holds in every state of every behaviour.        *)
THEOREM InvariantHolds == Spec => []IInv
  <1>1. IInv /\ [Next]_vars => IInv'
    <2>1. ASSUME IInv, Next
          PROVE  IInv'
      BY <2>1, StepShape, DeliveredKept, ProgressKept, HonestKept, KeptKept, MakerBeginsKept,
         OneKeyKept, StreamsKept, CrossedKept DEF IInv, Shape
    <2> QED BY <2>1, StutterIInv
  <1> QED BY InitIInv, <1>1, PTL DEF Spec

(* TypeOK: all variables keep their types, and the set-up that the actor   *)
(* stores as active is the only one not completed (setup_state).           *)
THEOREM TypeCorrect == Spec => []TypeOK
  <1>1. IInv => TypeOK
    BY DEF IInv
  <1> QED BY InvariantHolds, <1>1, PTL

LEMMA IInvBacksLocks ==
    ASSUME IInv
    PROVE  LockIsBacked
  <1> SUFFICES ASSUME NEW p \in Parties, NEW o \in Orders
               PROVE  /\ Msg2(Own(p, o)) \in sent[p] /\ tasks[p][o].other # None
                            => Msg1(Own(p, o)) \in sent[Other(p)]
                      /\ dlc[p][o] # None => Msg2(dlc[p][o]) \in sent[Other(p)]
    BY DEF LockIsBacked
  <1>1. dlc[p][o] # None => Msg2(dlc[p][o]) \in sent[Other(p)]
    BY DEF IInv, Kept
  <1>2. ASSUME Msg2(Own(p, o)) \in sent[p], tasks[p][o].other # None
        PROVE  Msg1(Own(p, o)) \in sent[Other(p)]
    <2>1. tasks[p][o].other \in Orders /\ terms \in [Orders -> Terms]
      BY <1>2, TaskTypes DEF IInv, TypeOK
    <2>2. /\ Own(p, o) \in Contracts /\ KeyOf(p, Own(p, o).lock) = o
          /\ Own(p, o).event = terms[o].event
      BY <2>1, BuiltType DEF Own
    <2> QED BY <1>2, <2>2 DEF IInv, Honest
  <1> QED BY <1>1, <1>2

(* LockIsBacked: whoever has signed a lock transaction has the other's     *)
(* signatures on commit transaction, CETs and refund of the same contract, *)
(* and whoever holds a contract the other's signature on its lock.         *)
THEOREM LocksBacked == Spec => []LockIsBacked
  <1> QED BY InvariantHolds, IInvBacksLocks, PTL

LEMMA IInvMatches ==
    ASSUME IInv
    PROVE  ContractsMatch
  <1>1. /\ Honest /\ Kept /\ OneKey /\ Crossed
        /\ dlc \in [Parties -> [Orders -> Contracts \cup {None}]]
        /\ "maker" \in Parties /\ "taker" \in Parties
        /\ Other("maker") = "taker" /\ Other("taker") = "maker"
    BY DEF IInv, TypeOK, Parties, Other
  <1>2. ASSUME NEW o \in Orders, NEW q \in Orders,
               dlc["maker"][o] # None, dlc["taker"][q] # None,
               o = q \/ dlc["maker"][o].lock = dlc["taker"][q].lock
        PROVE  dlc["maker"][o] = dlc["taker"][q]
    <2> DEFINE m == dlc["maker"][o]
               t == dlc["taker"][q]
    <2>1. /\ m \in Contracts /\ m.lock.maker = o
          /\ Msg1(m) \in sent["maker"] /\ Msg1(m) \in sent["taker"]
      BY <1>1, <1>2 DEF Kept, KeyOf
    <2>2. /\ t \in Contracts /\ t.lock.taker = q
          /\ Msg1(t) \in sent["maker"] /\ Msg1(t) \in sent["taker"]
      BY <1>1, <1>2 DEF Kept, KeyOf
    <2> HIDE DEF m, t
    <2>3. /\ m.event = terms[o].event /\ m.lock.margin = terms[o].margin
          /\ m.event = terms[m.lock.taker].event
      BY <1>1, <2>1 DEF Honest, KeyOf
    <2>4. /\ t.event = terms[q].event /\ t.lock.margin = terms[q].margin
          /\ t.event = terms[t.lock.maker].event
      BY <1>1, <2>2 DEF Honest, KeyOf
    <2>5. m.lock \in Locks /\ t.lock \in Locks
      BY <2>1, <2>2 DEF Contracts
    <2>6. CASE m.lock = t.lock
      <3>1. m.event = t.event
        BY <2>2, <2>3, <2>4, <2>6
      <3> QED BY <2>1, <2>2, <2>6, <3>1 DEF Contracts, m, t
    <2>7. CASE o = q
      <3>1. Msg0(o) \in sent["maker"]
        BY <1>1, <2>1 DEF OneKey
      <3>2. t.lock.maker = o
        BY <1>1, <2>2, <2>7, <3>1 DEF Crossed
      <3>3. m.lock.taker = t.lock.taker
        BY <1>1, <2>1, <2>2, <3>2 DEF OneKey
      <3>4. m.lock = t.lock
        BY <2>1, <2>3, <2>4, <2>5, <2>7, <3>2, <3>3 DEF Locks
      <3> QED BY <2>6, <3>4
    <2> QED BY <1>2, <2>6, <2>7 DEF m, t
  <1>3. ASSUME NEW p \in Parties, NEW o \in Orders, dlc[p][o] # None,
               dlc[p][o].lock.maker # dlc[p][o].lock.taker
        PROVE  Msg0(dlc[p][o].lock.taker) \notin sent["maker"]
    <2>1. dlc[p][o] \in Contracts /\ Msg1(dlc[p][o]) \in sent["taker"]
      BY <1>1, <1>3 DEF Kept, Parties
    <2> QED BY <1>1, <1>3, <2>1 DEF Crossed
  <1> QED BY <1>2, <1>3 DEF ContractsMatch

(* ContractsMatch: the contracts of the two databases on one lock, or for  *)
(* one order, are the same contract; a contract of two orders means that   *)
(* the maker never said a word for the taker's.                            *)
THEOREM ContractsAgree == Spec => []ContractsMatch
  <1> QED BY InvariantHolds, IInvMatches, PTL

=============================================================================
