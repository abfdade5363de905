--------------------------- MODULE RollOverProofs ---------------------------
(***************************************************************************)
(* Proofs about RollOver, for any number of attempts, restarts and waits   *)
(* given up: TypeOK, RevocationsHeld, SameHistory, CommitIsOfItsHistory    *)
(* and RollOverAgreed.                                                     *)
(***************************************************************************)

EXTENDS RollOver, SequenceTheorems, TLAPS

(***************************************************************************)
(* The inductive invariant                                                 *)
(***************************************************************************)

(* A queue has a message, and has b after a.                               *)
Has(q, m)       == \E i \in 1..Len(q) : q[i] = m
Before(q, a, b) == \E i, j \in 1..Len(q) : i < j /\ q[i] = a /\ q[j] = b

(* Messages on their way to p on connection s, or in the inbox of its      *)
(* attempt k; what the attempt may hear, and hear after another message.   *)
Incoming(p, s)   == IF p = "maker" THEN toMaker[s] ELSE toTaker
InQueue(p, s, m) == Has(Incoming(p, s), m)
InInbox(p, k, m) == Has(tasks[p][k].inbox, m)
Hears(p, k, m)   == InInbox(p, k, m) \/ InQueue(p, tasks[p][k].sess, m)
Follows(p, k, a, b) ==
    \/ Before(tasks[p][k].inbox, a, b)
    \/ InInbox(p, k, a) /\ InQueue(p, tasks[p][k].sess, b)

Begun(p, k) == tasks[p][k].step # "none"
Runs(p, k)  == Waiting(p, k) \/ tasks[p][k].step = "ok"
Revokes(p, k, q) == Last(tasks[p][k].from)[q]   \* q's key of what it replaces

(* Attempts begin in their order and know nothing before they read.        *)
Counted ==
    /\ sess = restarts["taker"] + 1
    /\ \A p \in Parties : Len(dlcs[p]) >= 1
    /\ \A p \in Parties, k \in Attempts :
         /\ Len(tasks[p][k].from) >= 1
         /\ tasks[p][k].step \in {"none", "msg0"} => tasks[p][k].other = 0
         /\ ~Begun(p, k) => tasks[p][k].inbox = <<>>
         /\ \A i \in Attempts : i < k /\ Begun(p, k) => Begun(p, i)

(* What a secret is good for: the contracts of a history but its last.     *)
Held(p, history) == \A i \in 1..(Len(history) - 1) :
    history[i][Other(p)] \in revealed[Other(p)]

Secrets ==
    /\ \A p \in Parties, s \in Sessions, x \in Keys :
         InQueue(p, s, Msg2(x)) => x \in revealed[Other(p)]
    /\ \A p \in Parties, k \in Attempts, x \in Keys :
         InInbox(p, k, Msg2(x)) => x \in revealed[Other(p)]
    /\ \A p \in Parties, k \in Attempts :
         /\ tasks[p][k].step = "ok" => Revokes(p, k, Other(p)) \in revealed[Other(p)]
         /\ Held(p, tasks[p][k].from)
    /\ \A p \in Parties : Held(p, dlcs[p])

(* The key of an attempt that began; a contract an attempt signed.         *)
KeyKnown(p, x)  == x \in Attempts /\ Begun(p, x)
DlcSigned(p, d) ==
    /\ d[p] \in Attempts /\ d[Other(p)] \in Attempts
    /\ tasks[p][d[p]].other = d[Other(p)]

(* Keys and signatures in messages are the sender's; an attempt that has   *)
(* read a signature has the key of an attempt that has its own.            *)
Signatures ==
    /\ \A p \in Parties, s \in Sessions :
         /\ \A x \in Keys : InQueue(p, s, Msg0(x)) => KeyKnown(Other(p), x)
         /\ \A d \in Dlcs : InQueue(p, s, Msg1(d)) => DlcSigned(Other(p), d)
    /\ \A p \in Parties, k \in Attempts :
         /\ \A x \in Keys : InInbox(p, k, Msg0(x)) => KeyKnown(Other(p), x)
         /\ \A d \in Dlcs : InInbox(p, k, Msg1(d)) => DlcSigned(Other(p), d)
         /\ tasks[p][k].other # 0 => KeyKnown(Other(p), tasks[p][k].other)
         /\ tasks[p][k].step \in {"msg1", "msg2", "ok", "done"} => tasks[p][k].other # 0
         /\ tasks[p][k].step \in {"msg2", "ok", "done"} =>
              DlcSigned(Other(p), Built(p, k))

(* One attempt of a party runs at a time, its latest, and replaces the     *)
(* party's contract.                                                       *)
Alone == \A p \in Parties, k \in Attempts : Runs(p, k) =>
    /\ \A i \in Attempts : i > k => ~Begun(p, i)
    /\ tasks[p][k].from = dlcs[p]
    /\ p = "taker" /\ alive[p] => rolling[p] = k

(* A history is what the attempts built, in their order; an attempt began  *)
(* from all that was built before it, and what was revealed is in it.      *)
Histories ==
    /\ \A p \in Parties :
         /\ dlcs[p][1] = Signed
         /\ \A i \in 2..Len(dlcs[p]) :
              /\ dlcs[p][i][p] \in Attempts
              /\ tasks[p][dlcs[p][i][p]].step = "done"
              /\ dlcs[p][i] = Built(p, dlcs[p][i][p])
         /\ \A i, j \in 1..Len(dlcs[p]) : i < j => dlcs[p][i][p] < dlcs[p][j][p]
         /\ \A x \in revealed[p] : \E i \in 1..Len(dlcs[p]) : dlcs[p][i][p] = x
    /\ \A p \in Parties, k \in Attempts : Begun(p, k) =>
         /\ Len(tasks[p][k].from) <= Len(dlcs[p])
         /\ \A i \in 1..Len(tasks[p][k].from) : tasks[p][k].from[i] = dlcs[p][i]
         /\ \A i \in 1..Len(dlcs[p]) :
              dlcs[p][i][p] < k <=> i <= Len(tasks[p][k].from)

(* The maker's keys reach the taker in the order they were made, and its   *)
(* attempts take them in that order.                                       *)
KeysInOrder ==
    /\ \A x, y \in Keys : Before(toTaker, Msg0(x), Msg0(y)) => x < y
    /\ \A x \in Keys : Has(toTaker, Msg0(x)) =>
         \A j \in Attempts :
           /\ tasks["taker"][j].other < x
           /\ \A y \in Keys : InInbox("taker", j, Msg0(y)) => y < x
    /\ \A i, j \in Attempts : i < j =>
         /\ \A x \in Keys : InInbox("taker", j, Msg0(x)) => tasks["taker"][i].other < x
         /\ tasks["taker"][j].other # 0 => tasks["taker"][i].other < tasks["taker"][j].other

(* A secret that comes after a signature is not of an older contract than  *)
(* the one the signing attempt replaces.                                   *)
SecretsInOrder ==
    /\ \A p \in Parties, s \in Sessions, d \in Dlcs, x \in Keys :
         Before(Incoming(p, s), Msg1(d), Msg2(x)) => Revokes(Other(p), d[Other(p)], Other(p)) <= x
    /\ \A p \in Parties, k \in Attempts, d \in Dlcs, x \in Keys :
         Follows(p, k, Msg1(d), Msg2(x)) => Revokes(Other(p), d[Other(p)], Other(p)) <= x
    /\ \A p \in Parties, k \in Attempts, x \in Keys :
         tasks[p][k].step = "msg2" /\ Hears(p, k, Msg2(x)) =>
           Revokes(Other(p), tasks[p][k].other, Other(p)) <= x
    /\ \A p \in Parties, k \in Attempts : tasks[p][k].step = "ok" =>
         Revokes(Other(p), tasks[p][k].other, Other(p)) <= Revokes(p, k, Other(p))

(* What the monitor awaits and what the state calls final is of the        *)
(* party's history.                                                        *)
Watched == \A p \in Parties :
    /\ watch[p] \subseteq Range(dlcs[p])
    /\ state[p] = "Committed" => onChain \in Range(dlcs[p])

OneHistory ==
    /\ Len(dlcs["maker"]) <= Len(dlcs["taker"]) + 1
    /\ Len(dlcs["taker"]) <= Len(dlcs["maker"]) + 1
    /\ \A i \in 1..Len(dlcs["maker"]) :
         i <= Len(dlcs["taker"]) => dlcs["maker"][i] = dlcs["taker"][i]

IInv ==
    /\ TypeOK /\ Counted /\ Secrets /\ Signatures
    /\ overlapped \/ (/\ Alone /\ Histories /\ KeysInOrder
                      /\ SecretsInOrder /\ Watched /\ OneHistory)

-----------------------------------------------------------------------------
(* Messages and queues.                                                    *)

AnyMsg == ToMaker \cup ToTaker

(* Kinds tell messages apart, and messages of a kind their contents.       *)
LEMMA Messages ==
    /\ \A x \in Keys : Msg0(x) \in RollOverMsgs /\ Msg2(x) \in RollOverMsgs
    /\ \A d \in Dlcs : Msg1(d) \in RollOverMsgs
    /\ \A m \in RollOverMsgs : m \in ToMaker /\ m \in ToTaker /\ m \in AnyMsg
    /\ \A m \in RollOverMsgs : m.kind \in {"msg0", "msg1", "msg2"}
    /\ \A m \in RollOverMsgs : m.kind = "msg0" => m.key \in Keys /\ m = Msg0(m.key)
    /\ \A m \in RollOverMsgs : m.kind = "msg1" => m.dlc \in Dlcs /\ m = Msg1(m.dlc)
    /\ \A m \in RollOverMsgs : m.kind = "msg2" => m.key \in Keys /\ m = Msg2(m.key)
    /\ Notice("propose") \in ToMaker /\ Notice("propose") \notin RollOverMsgs
    /\ Notice("confirm") \in ToTaker /\ Notice("confirm") \notin RollOverMsgs
    /\ Notice("reject") \in ToTaker /\ Notice("reject") \notin RollOverMsgs
  BY DEF RollOverMsgs, ToMaker, ToTaker, AnyMsg, Msg0, Msg1, Msg2, Notice

LEMMA Distinct ==
    /\ \A x, y : Msg0(x) = Msg0(y) => x = y
    /\ \A x, y : Msg1(x) = Msg1(y) => x = y
    /\ \A x, y : Msg2(x) = Msg2(y) => x = y
    /\ \A x, y : Msg0(x) # Msg1(y) /\ Msg0(x) # Msg2(y) /\ Msg1(x) # Msg2(y)
  BY DEF Msg0, Msg1, Msg2

LEMMA EmptyHas ==
    \A a, b : ~Has(<<>>, a) /\ ~Before(<<>>, a, b)
  BY DEF Has, Before

LEMMA HasBefore ==
    ASSUME NEW q, NEW a, NEW b, Before(q, a, b)
    PROVE  Has(q, a) /\ Has(q, b)
  BY DEF Has, Before

LEMMA HasAppend ==
    ASSUME NEW S, NEW q \in Seq(S), NEW m \in S
    PROVE  /\ \A a : Has(Append(q, m), a) => Has(q, a) \/ a = m
           /\ \A a, b : Before(Append(q, m), a, b) => Before(q, a, b) \/ (Has(q, a) /\ b = m)
  <1> DEFINE r == Append(q, m)
  <1>1. /\ Len(q) \in Nat /\ Len(r) = Len(q) + 1 /\ r[Len(q) + 1] = m
        /\ \A i \in 1..Len(q) : r[i] = q[i]
    OBVIOUS
  <1> HIDE DEF r
  <1>2. ASSUME NEW a, Has(r, a)
        PROVE  Has(q, a) \/ a = m
    <2>1. PICK i \in 1..Len(r) : r[i] = a
      BY <1>2 DEF Has
    <2>2. i \in 1..Len(q) \/ i = Len(q) + 1
      BY <1>1
    <2> QED BY <1>1, <2>1, <2>2 DEF Has
  <1>3. ASSUME NEW a, NEW b, Before(r, a, b)
        PROVE  Before(q, a, b) \/ (Has(q, a) /\ b = m)
    <2>1. PICK i, j \in 1..Len(r) : i < j /\ r[i] = a /\ r[j] = b
      BY <1>3 DEF Before
    <2>2. i \in 1..Len(q) /\ (j \in 1..Len(q) \/ j = Len(q) + 1)
      BY <1>1, <2>1
    <2>3. CASE j \in 1..Len(q)
      BY <1>1, <2>1, <2>2, <2>3 DEF Before
    <2>4. CASE j = Len(q) + 1
      BY <1>1, <2>1, <2>2, <2>4 DEF Has
    <2> QED BY <2>2, <2>3, <2>4
  <1> QED BY <1>2, <1>3 DEF r

LEMMA HasTail ==
    ASSUME NEW S, NEW q \in Seq(S), q # <<>>
    PROVE  /\ \A a : Has(Tail(q), a) => Has(q, a) /\ Before(q, Head(q), a)
           /\ \A a, b : Before(Tail(q), a, b) => Before(q, a, b)
           /\ Has(q, Head(q)) /\ Head(q) \in S /\ Tail(q) \in Seq(S)
  <1> DEFINE r == Tail(q)
  <1>1. /\ Len(q) \in Nat /\ Len(q) >= 1 /\ Len(r) = Len(q) - 1 /\ q[1] = Head(q)
        /\ \A i \in 1..Len(r) : i + 1 \in 1..Len(q) /\ r[i] = q[i + 1]
        /\ Head(q) \in S /\ Tail(q) \in Seq(S)
    OBVIOUS
  <1> HIDE DEF r
  <1>2. ASSUME NEW a, Has(r, a)
        PROVE  Has(q, a) /\ Before(q, Head(q), a)
    <2>1. PICK i \in 1..Len(r) : r[i] = a
      BY <1>2 DEF Has
    <2>2. i + 1 \in 1..Len(q) /\ q[i + 1] = a /\ 1 \in 1..Len(q) /\ 1 < i + 1
      BY <1>1, <2>1
    <2> QED BY <1>1, <2>2 DEF Has, Before
  <1>3. ASSUME NEW a, NEW b, Before(r, a, b)
        PROVE  Before(q, a, b)
    <2>1. PICK i, j \in 1..Len(r) : i < j /\ r[i] = a /\ r[j] = b
      BY <1>3 DEF Before
    <2>2. /\ i + 1 \in 1..Len(q) /\ j + 1 \in 1..Len(q) /\ i + 1 < j + 1
          /\ q[i + 1] = a /\ q[j + 1] = b
      BY <1>1, <2>1
    <2> QED BY <2>2 DEF Before
  <1>4. Has(q, Head(q))
    <2>1. 1 \in 1..Len(q)
      BY <1>1
    <2> QED BY <1>1, <2>1 DEF Has
  <1> QED BY <1>1, <1>2, <1>3, <1>4 DEF r

-----------------------------------------------------------------------------
(* What a step says and what it does to queues and inboxes.                *)

Says(p, m) == \E k \in Attempts :
    \/ /\ m = Msg0(k) /\ tasks[p][k].step = "none" /\ tasks'[p][k].step = "msg0"
    \/ /\ m = Msg1(DlcOf(p, k, tasks'[p][k].other))
       /\ tasks[p][k].step = "msg0" /\ tasks'[p][k].step = "msg1"
    \/ /\ m = Msg2(Revokes(p, k, p))
       /\ tasks[p][k].step = "msg1" /\ tasks'[p][k].step = "msg2"

(* A queue stays, is emptied, loses its head, or gets what the other party *)
(* says, perhaps after a notice.                                           *)
QueueMay(p, s) ==
    LET q == Incoming(p, s)
        r == Incoming(p, s)' IN
    \/ r \in {q, <<>>}
    \/ q # <<>> /\ r = Tail(q)
    \/ \E m \in AnyMsg : /\ m \notin RollOverMsgs \/ Says(Other(p), m)
                         /\ r = Append(q, m)
    \/ \E n, m \in AnyMsg : /\ n \notin RollOverMsgs /\ Says(Other(p), m)
                            /\ r = Append(Append(q, n), m)

(* An inbox stays, is emptied, loses its head, or gets the head of the     *)
(* queue of its connection.                                                *)
InboxMay(p, k) ==
    LET q == tasks[p][k].inbox
        r == tasks'[p][k].inbox
        s == tasks[p][k].sess IN
    /\ Begun(p, k) => tasks'[p][k].sess = s
    /\ ~Begun(p, k) => r = <<>>
    /\ \/ r \in {q, <<>>}
       \/ q # <<>> /\ r = Tail(q)
       \/ /\ Incoming(p, s) # <<>> /\ r = Append(q, Head(Incoming(p, s)))
          /\ Incoming(p, tasks[p][k].sess)' = Tail(Incoming(p, s))

(* What is heard, and in what order, was to be heard before in that order, *)
(* or is said now.                                                         *)
QueueStep == \A p \in Parties, s \in Sessions, a, b \in RollOverMsgs :
    /\ InQueue(p, s, a)' => InQueue(p, s, a) \/ Says(Other(p), a)
    /\ Before(Incoming(p, s), a, b)' =>
         Before(Incoming(p, s), a, b) \/ (InQueue(p, s, a) /\ Says(Other(p), b))

InboxStep == \A p \in Parties, k \in Attempts, a, b \in RollOverMsgs :
    /\ InInbox(p, k, a)' => Begun(p, k) /\ Hears(p, k, a)
    /\ Follows(p, k, a, b)' =>
         \/ Follows(p, k, a, b)
         \/ Before(Incoming(p, tasks[p][k].sess), a, b)
         \/ Hears(p, k, a) /\ Says(Other(p), b)

LEMMA QueueStepFrom ==
    ASSUME TypeOK, \A p \in Parties, s \in Sessions : QueueMay(p, s)
    PROVE  QueueStep
  <1>1. SUFFICES ASSUME NEW p \in Parties, NEW s \in Sessions,
                        NEW a \in RollOverMsgs, NEW b \in RollOverMsgs
                 PROVE  /\ Has(Incoming(p, s)', a) => Has(Incoming(p, s), a) \/ Says(Other(p), a)
                        /\ Before(Incoming(p, s)', a, b) =>
                             \/ Before(Incoming(p, s), a, b)
                             \/ Has(Incoming(p, s), a) /\ Says(Other(p), b)
    BY DEF QueueStep, InQueue, Has, Before, Incoming
  <1> DEFINE q == Incoming(p, s)
             r == Incoming(p, s)'
  <1>2. q \in Seq(AnyMsg) /\ QueueMay(p, s)
    BY DEF Incoming, TypeOK, AnyMsg, Parties
  <1>3. CASE r \in {q, <<>>}
    BY <1>3, EmptyHas, Zenon
  <1>4. CASE q # <<>> /\ r = Tail(q)
    BY <1>2, <1>4, HasTail
  <1>5. ASSUME NEW m \in AnyMsg, m \notin RollOverMsgs \/ Says(Other(p), m), r = Append(q, m)
        PROVE  /\ Has(r, a) => Has(q, a) \/ Says(Other(p), a)
               /\ Before(r, a, b) => Before(q, a, b) \/ (Has(q, a) /\ Says(Other(p), b))
    <2>1. Has(r, a) => Has(q, a) \/ a = m
      BY <1>2, <1>5, HasAppend
    <2>2. Before(r, a, b) => Before(q, a, b) \/ (Has(q, a) /\ b = m)
      BY <1>2, <1>5, HasAppend
    <2> QED BY <1>5, <2>1, <2>2
  <1>6. ASSUME NEW n \in AnyMsg, NEW m \in AnyMsg, n \notin RollOverMsgs, Says(Other(p), m),
               r = Append(Append(q, n), m)
        PROVE  /\ Has(r, a) => Has(q, a) \/ Says(Other(p), a)
               /\ Before(r, a, b) => Before(q, a, b) \/ (Has(q, a) /\ Says(Other(p), b))
    <2> DEFINE u == Append(q, n)
    <2>1. u \in Seq(AnyMsg) /\ r = Append(u, m)
      BY <1>2, <1>6
    <2>2. /\ Has(u, a) => Has(q, a) \/ a = n
          /\ Before(u, a, b) => Before(q, a, b) \/ (Has(q, a) /\ b = n)
      BY <1>2, HasAppend
    <2> HIDE DEF u
    <2>3. Has(r, a) => Has(u, a) \/ a = m
      BY <2>1, HasAppend
    <2>4. Before(r, a, b) => Before(u, a, b) \/ (Has(u, a) /\ b = m)
      BY <2>1, HasAppend
    <2> QED BY <1>6, <2>2, <2>3, <2>4
  <1> QED BY <1>2, <1>3, <1>4, <1>5, <1>6 DEF QueueMay

LEMMA InboxStepFrom ==
    ASSUME TypeOK, Counted, QueueStep, \A p \in Parties, k \in Attempts : InboxMay(p, k)
    PROVE  InboxStep
  <1>1. SUFFICES ASSUME NEW p \in Parties, NEW k \in Attempts,
                        NEW a \in RollOverMsgs, NEW b \in RollOverMsgs
                 PROVE  /\ InInbox(p, k, a)' => Begun(p, k) /\ Hears(p, k, a)
                        /\ Follows(p, k, a, b)' =>
                             \/ Follows(p, k, a, b)
                             \/ Before(Incoming(p, tasks[p][k].sess), a, b)
                             \/ Hears(p, k, a) /\ Says(Other(p), b)
    BY DEF InboxStep
  <1> DEFINE q == tasks[p][k].inbox
             r == tasks'[p][k].inbox
             c == Incoming(p, tasks[p][k].sess)
             d == Incoming(p, tasks[p][k].sess)'
  <1>2. /\ q \in Seq(AnyMsg) /\ tasks[p][k].sess \in Sessions /\ InboxMay(p, k) /\ c \in Seq(AnyMsg)
        /\ a \in AnyMsg /\ b \in AnyMsg
    <2>1. tasks[p][k] \in Tasks
      BY DEF TypeOK
    <2>2. q \in Seq(RollOverMsgs) /\ tasks[p][k].sess \in Sessions
      BY <2>1 DEF Tasks
    <2>3. /\ RollOverMsgs \subseteq AnyMsg /\ ToMaker \subseteq AnyMsg /\ ToTaker \subseteq AnyMsg
      BY DEF AnyMsg, ToMaker
    <2>4. q \in Seq(AnyMsg)
      BY <2>2, <2>3
    <2>5. \A s \in Sessions : toMaker[s] \in Seq(ToMaker) /\ toTaker \in Seq(ToTaker)
      BY DEF TypeOK
    <2>6. \A s \in Sessions : Incoming(p, s) \in Seq(ToMaker) \cup Seq(ToTaker)
      BY <2>5 DEF Incoming
    <2>7. c \in Seq(AnyMsg)
      <3>1. c \in Seq(ToMaker) \cup Seq(ToTaker)
        BY <2>2, <2>6
      <3> QED BY <2>3, <3>1
    <2> QED BY <2>2, <2>3, <2>4, <2>7
  <1>3. CASE ~Begun(p, k)
    <2>1. r = <<>>
      BY <1>2, <1>3 DEF InboxMay
    <2> QED BY <2>1 DEF InInbox, Follows, Has, Before
  <1>4. CASE Begun(p, k)
    <2>1. tasks'[p][k].sess = tasks[p][k].sess
      BY <1>2, <1>4 DEF InboxMay
    <2>2. Has(d, b) => Has(c, b) \/ Says(Other(p), b)
      <3>1. PICK s \in Sessions : s = tasks[p][k].sess
        BY <1>2
      <3>2. Has(Incoming(p, s)', b) => Has(Incoming(p, s), b) \/ Says(Other(p), b)
        BY DEF QueueStep, InQueue, Has, Incoming
      <3> QED BY <2>1, <3>1, <3>2 DEF Incoming
    <2>3. /\ InInbox(p, k, a)' = Has(r, a)
          /\ InInbox(p, k, a) = Has(q, a)
          /\ Hears(p, k, a) = (Has(q, a) \/ Has(c, a))
          /\ Follows(p, k, a, b) = (Before(q, a, b) \/ (Has(q, a) /\ Has(c, b)))
          /\ Follows(p, k, a, b)' = (Before(r, a, b) \/ (Has(r, a) /\ Has(d, b)))
      BY <2>1 DEF InInbox, Hears, Follows, InQueue, Has, Before, Incoming
    <2> DEFINE G == /\ Has(r, a) => Has(q, a) \/ Has(c, a)
                    /\ Before(r, a, b) \/ (Has(r, a) /\ Has(d, b)) =>
                         \/ Before(q, a, b) \/ (Has(q, a) /\ Has(c, b))
                         \/ Before(c, a, b)
                         \/ (Has(q, a) \/ Has(c, a)) /\ Says(Other(p), b)
    <2>4. CASE r \in {q, <<>>}
      <3>1. G
        BY <2>2, <2>4, EmptyHas, Zenon
      <3> QED BY <1>4, <2>3, <3>1
    <2>5. CASE q # <<>> /\ r = Tail(q)
      <3>1. (Has(r, a) => Has(q, a)) /\ (Before(r, a, b) => Before(q, a, b))
        BY <1>2, <2>5, HasTail
      <3>2. G
        BY <2>2, <3>1, Zenon
      <3> QED BY <1>4, <2>3, <3>2
    <2>6. CASE c # <<>> /\ r = Append(q, Head(c)) /\ d = Tail(c)
      <3>1. /\ Head(c) \in AnyMsg /\ Has(c, Head(c))
            /\ Has(d, b) => Has(c, b) /\ Before(c, Head(c), b)
        BY <1>2, <2>6, HasTail
      <3>2. /\ Has(r, a) => Has(q, a) \/ a = Head(c)
            /\ Before(r, a, b) => Before(q, a, b) \/ (Has(q, a) /\ b = Head(c))
        <4>1. PICK m \in AnyMsg : m = Head(c)
          BY <3>1
        <4>2. q \in Seq(AnyMsg) /\ r = Append(q, m)
          BY <1>2, <2>6, <4>1
        <4>3. /\ Has(r, a) => Has(q, a) \/ a = m
              /\ Before(r, a, b) => Before(q, a, b) \/ (Has(q, a) /\ b = m)
          BY <4>2, HasAppend
        <4> QED BY <4>1, <4>3
      <3>3. G
        BY <3>1, <3>2, Zenon
      <3> QED BY <1>4, <2>3, <3>3
    <2> QED BY <1>2, <2>4, <2>5, <2>6 DEF InboxMay
  <1> QED BY <1>3, <1>4

-----------------------------------------------------------------------------
(* The shapes of steps, by what becomes of the attempts.                   *)

Steps == {"none", "msg0", "msg1", "msg2", "ok", "done", "failed"}

Same(p, k) ==
    /\ tasks'[p][k].step = tasks[p][k].step /\ tasks'[p][k].from = tasks[p][k].from
    /\ tasks'[p][k].sess = tasks[p][k].sess /\ tasks'[p][k].other = tasks[p][k].other

(* p's attempt k gets on, and no other does.                               *)
Moves(p, k, step, other) ==
    /\ tasks'[p][k].step = step /\ tasks'[p][k].from = tasks[p][k].from
    /\ tasks'[p][k].sess = tasks[p][k].sess /\ tasks'[p][k].other = other
    /\ \A q \in Parties, i \in Attempts : q # p \/ i # k => Same(q, i)

KeepsRolling == alive'["taker"] =>
    alive["taker"] /\ rolling'["taker"] = rolling["taker"]

KeepsWatch ==
    /\ onChain # None => onChain' = onChain
    /\ \A p \in Parties :
         /\ watch'[p] \subseteq watch[p] \cup {Dlc(p)}
         /\ state'[p] = "Committed" => state[p] = "Committed" \/ onChain \in watch[p]

Quiet ==
    /\ \A q \in Parties, i \in Attempts : Same(q, i)
    /\ UNCHANGED <<dlcs, revealed, overlapped>> /\ KeepsRolling /\ KeepsWatch

Begins(p, k) ==
    /\ NextAttempt(p, k)
    /\ tasks'[p][k].step = "msg0" /\ tasks'[p][k].from = dlcs[p] /\ tasks'[p][k].other = 0
    /\ \A q \in Parties, i \in Attempts : q # p \/ i # k => Same(q, i)
    /\ UNCHANGED <<dlcs, revealed>> /\ (overlapped => overlapped') /\ KeepsWatch
    /\ p = "maker" => KeepsRolling /\ (~overlapped' => ~Unfinished("maker"))
    /\ p = "taker" => alive["taker"] /\ rolling["taker"] = None /\ rolling'["taker"] = k

TakesKey(p, k, x) ==
    /\ tasks[p][k].step = "msg0" /\ InInbox(p, k, Msg0(x))
    /\ Moves(p, k, "msg1", x)
    /\ UNCHANGED <<dlcs, revealed, overlapped>> /\ KeepsRolling /\ KeepsWatch

TakesSignature(p, k) ==
    /\ tasks[p][k].step = "msg1" /\ InInbox(p, k, Msg1(Built(p, k)))
    /\ \A m \in RollOverMsgs : Hears(p, k, m)' =>
         Follows(p, k, Msg1(Built(p, k)), m)
    /\ Moves(p, k, "msg2", tasks[p][k].other)
    /\ revealed' = [revealed EXCEPT ![p] = @ \cup {Revokes(p, k, p)}]
    /\ UNCHANGED <<dlcs, overlapped>> /\ KeepsRolling /\ KeepsWatch

TakesSecret(p, k) ==
    /\ tasks[p][k].step = "msg2" /\ InInbox(p, k, Msg2(Revokes(p, k, Other(p))))
    /\ Moves(p, k, "ok", tasks[p][k].other)
    /\ UNCHANGED <<dlcs, revealed, overlapped>> /\ KeepsRolling /\ KeepsWatch

FailsAt(p, k) ==
    /\ Runs(p, k) /\ Moves(p, k, "failed", tasks[p][k].other)
    /\ UNCHANGED <<dlcs, revealed, overlapped>> /\ KeepsRolling /\ KeepsWatch

Completes(p, k) ==
    /\ tasks[p][k].step = "ok" /\ Moves(p, k, "done", tasks[p][k].other)
    /\ dlcs' = [dlcs EXCEPT ![p] = Append(tasks[p][k].from, Built(p, k))]
    /\ watch' = [watch EXCEPT ![p] = @ \cup {Built(p, k)}]
    /\ state' = [state EXCEPT ![p] = "Open"]
    /\ UNCHANGED <<revealed, overlapped, onChain>> /\ (p = "maker" => KeepsRolling)

StopsAll(p) ==
    /\ \A q \in Parties, i \in Attempts :
         IF q = p /\ Runs(p, i)
         THEN /\ tasks'[q][i].step = "failed" /\ tasks'[q][i].from = tasks[q][i].from
              /\ tasks'[q][i].sess = tasks[q][i].sess /\ tasks'[q][i].other = tasks[q][i].other
         ELSE Same(q, i)
    /\ UNCHANGED <<dlcs, revealed, overlapped>> /\ (p = "maker" => KeepsRolling) /\ KeepsWatch

Shape ==
    \/ Quiet
    \/ \E p \in Parties, k \in Attempts :
         \/ Begins(p, k) \/ \E x \in Keys : TakesKey(p, k, x)
         \/ TakesSignature(p, k) \/ TakesSecret(p, k) \/ FailsAt(p, k) \/ Completes(p, k)
    \/ \E p \in Parties : StopsAll(p)

(* What holds of every step beside its shape.                              *)
Effect == /\ TypeOK' /\ sess' = restarts'["taker"] + 1
          /\ \A p \in Parties, s \in Sessions : QueueMay(p, s)
          /\ \A p \in Parties, k \in Attempts : InboxMay(p, k)

-----------------------------------------------------------------------------
(* Types.                                                                  *)

LEMMA TypesOf ==
    ASSUME TypeOK
    PROVE  /\ \A p \in Parties : dlcs[p] \in Seq(Dlcs)
           /\ \A p \in Parties, k \in Attempts :
                /\ tasks[p][k] \in Tasks /\ tasks[p][k].step \in Steps
                /\ tasks[p][k].from \in Seq(Dlcs) /\ tasks[p][k].sess \in Sessions
                /\ tasks[p][k].other \in Keys /\ tasks[p][k].inbox \in Seq(RollOverMsgs)
           /\ "maker" \in Parties /\ "taker" \in Parties
           /\ sess \in Sessions /\ toTaker \in Seq(ToTaker)
           /\ \A s \in Sessions : toMaker[s] \in Seq(ToMaker)
           /\ Attempts \subseteq Keys /\ Attempts \subseteq Nat
           /\ \A p \in Parties : Other(p) \in Parties /\ Other(p) # p /\ Other(Other(p)) = p
  <1>1. Attempts \subseteq Keys /\ Attempts \subseteq Nat
    BY BoundsAssumption DEF Attempts, Keys
  <1>2. \A p \in Parties, k \in Attempts : tasks[p][k] \in Tasks
    BY DEF TypeOK
  <1>3. \A t \in Tasks : /\ t.step \in Steps /\ t.from \in Seq(Dlcs) /\ t.sess \in Sessions
                         /\ t.other \in Keys /\ t.inbox \in Seq(RollOverMsgs)
    BY DEF Tasks, Steps
  <1>4. \A p \in Parties : Other(p) \in Parties /\ Other(p) # p /\ Other(Other(p)) = p
    BY DEF Parties, Other
  <1>5. /\ \A p \in Parties : dlcs[p] \in Seq(Dlcs)
        /\ "maker" \in Parties /\ "taker" \in Parties
        /\ sess \in Sessions /\ toTaker \in Seq(ToTaker)
        /\ \A s \in Sessions : toMaker[s] \in Seq(ToMaker)
    BY DEF TypeOK, Parties
  <1> QED BY <1>1, <1>2, <1>3, <1>4, <1>5

LEMMA DlcTypes ==
    ASSUME TypeOK, NEW p \in Parties, NEW k \in Attempts, NEW x \in Keys
    PROVE  /\ DlcOf(p, k, x) \in Dlcs /\ Built(p, k) \in Dlcs
           /\ DlcOf(p, k, x)[p] = k /\ DlcOf(p, k, x)[Other(p)] = x
           /\ Built(p, k)[p] = k /\ Built(p, k)[Other(p)] = tasks[p][k].other
  <1>1. k \in Keys /\ tasks[p][k].other \in Keys /\ Other(p) \in Parties /\ Other(p) # p
    BY TypesOf
  <1>2. \A y \in Keys : /\ DlcOf(p, k, y) \in Dlcs /\ DlcOf(p, k, y)[p] = k
                        /\ DlcOf(p, k, y)[Other(p)] = y
    BY <1>1 DEF DlcOf, Dlcs
  <1> QED BY <1>1, <1>2 DEF Built

LEMMA RevokesType ==
    ASSUME TypeOK, Counted, NEW p \in Parties, NEW k \in Attempts, NEW q \in Parties
    PROVE  Revokes(p, k, q) \in Keys
  <1>1. tasks[p][k].from \in Seq(Dlcs) /\ Len(tasks[p][k].from) >= 1
    BY TypesOf DEF Counted
  <1>2. Len(tasks[p][k].from) \in 1..Len(tasks[p][k].from)
    BY <1>1
  <1>3. Last(tasks[p][k].from) \in Dlcs
    BY <1>1, <1>2 DEF Last
  <1> QED BY <1>3 DEF Revokes, Dlcs

LEMMA PutOne ==
    ASSUME TypeOK, NEW p \in Parties, NEW k \in Attempts, NEW t \in Tasks,
           tasks' = [tasks EXCEPT ![p][k] = t]
    PROVE  /\ tasks' \in [Parties -> [Attempts -> Tasks]] /\ tasks'[p][k] = t
           /\ \A q \in Parties, i \in Attempts : q # p \/ i # k => tasks'[q][i] = tasks[q][i]
  BY DEF TypeOK

LEMMA AtMoves ==
    ASSUME TypeOK, NEW p \in Parties, NEW k \in Attempts, NEW step \in Steps,
           NEW other \in Keys, NEW inbox \in Seq(RollOverMsgs),
           tasks' = At(p, k, step, other, inbox)
    PROVE  /\ tasks' \in [Parties -> [Attempts -> Tasks]]
           /\ Moves(p, k, step, other) /\ tasks'[p][k].inbox = inbox
           /\ \A q \in Parties, i \in Attempts : q # p \/ i # k => tasks'[q][i] = tasks[q][i]
  <1> DEFINE t == Moved(p, k, step, other, inbox)
  <1>1. t \in Tasks
    BY TypesOf DEF Moved, Tasks, Steps
  <1>2. /\ t.step = step /\ t.from = tasks[p][k].from /\ t.sess = tasks[p][k].sess
        /\ t.other = other /\ t.inbox = inbox
    BY DEF Moved
  <1>3. tasks' = [tasks EXCEPT ![p][k] = t]
    BY DEF At
  <1> HIDE DEF t
  <1>4. /\ tasks' \in [Parties -> [Attempts -> Tasks]] /\ tasks'[p][k] = t
        /\ \A q \in Parties, i \in Attempts : q # p \/ i # k => tasks'[q][i] = tasks[q][i]
    BY <1>1, <1>3 DEF TypeOK
  <1> QED BY <1>2, <1>4 DEF Moves, Same

LEMMA TypesNext ==
    ASSUME dlcs' \in [Parties -> Seq(Dlcs)],
           state' \in [Parties -> {"Open", "PendingCommit", "Committed"}],
           alive' \in [Parties -> BOOLEAN], proposed' \in BOOLEAN,
           offered' \in Sessions \cup {None}, rolling' \in [Parties -> Attempts \cup {None}],
           \A p \in Parties, k \in Attempts : rolling'[p] = k => tasks'[p][k].step # "none",
           tasks' \in [Parties -> [Attempts -> Tasks]],
           watch' \in [Parties -> SUBSET Dlcs], spy' \in [Parties -> SUBSET Dlcs],
           sess' \in Sessions, linked' \in BOOLEAN,
           toMaker' \in [Sessions -> Seq(ToMaker)], toTaker' \in Seq(ToTaker),
           onChain' \in Dlcs \cup {None},
           revealed' \in [Parties -> SUBSET Keys], overlapped' \in BOOLEAN,
           restarts' \in [Parties -> 0..MaxRestarts], timeouts' \in 0..MaxTimeouts
    PROVE  TypeOK'
  BY DEF TypeOK, Parties, Dlcs, Keys, Sessions, Attempts, Tasks, RollOverMsgs, ToMaker, ToTaker

-----------------------------------------------------------------------------
(* Queues.                                                                 *)

LEMMA NothingSent ==
    ASSUME UNCHANGED <<toMaker, toTaker>>
    PROVE  \A p \in Parties, s \in Sessions : QueueMay(p, s)
  BY DEF QueueMay, Incoming

LEMMA Carries ==
    ASSUME NEW S, NEW q \in Seq(S), NEW m \in S, NEW s
    PROVE  /\ q \o Carried(s, <<m>>) \in {q, Append(q, m)}
           /\ q \o Carried(s, <<m>>) \in Seq(S)
  <1>1. q \o <<>> = q /\ q \o <<m>> = Append(q, m) /\ Append(q, m) \in Seq(S)
    OBVIOUS
  <1> QED BY <1>1 DEF Carried

LEMMA SendOne ==
    ASSUME TypeOK, NEW p \in Parties, NEW s \in Sessions, NEW m \in AnyMsg,
           IF p = "maker" THEN m \in ToTaker ELSE m \in ToMaker,
           m \notin RollOverMsgs \/ Says(p, m), Send(p, s, <<m>>)
    PROVE  /\ toMaker' \in [Sessions -> Seq(ToMaker)] /\ toTaker' \in Seq(ToTaker)
           /\ \A q \in Parties, r \in Sessions : QueueMay(q, r)
  <1>1. toTaker \in Seq(ToTaker) /\ toMaker \in [Sessions -> Seq(ToMaker)]
    BY DEF TypeOK
  <1>2. CASE p = "maker"
    <2>1. /\ UNCHANGED toMaker /\ toTaker' \in {toTaker, Append(toTaker, m)}
          /\ toTaker' \in Seq(ToTaker)
      <3>1. m \in ToTaker
        BY <1>2
      <3>2. /\ toTaker \o Carried(s, <<m>>) \in {toTaker, Append(toTaker, m)}
            /\ toTaker \o Carried(s, <<m>>) \in Seq(ToTaker)
        BY <1>1, <3>1, Carries
      <3>3. toTaker' = toTaker \o Carried(s, <<m>>) /\ UNCHANGED toMaker
        BY <1>2 DEF Send
      <3> QED BY <3>2, <3>3
    <2>2. ASSUME NEW q \in Parties, NEW r \in Sessions
          PROVE  QueueMay(q, r)
      <3>1. CASE q = "taker"
        <4>1. Other(q) = p /\ Incoming(q, r) = toTaker /\ Incoming(q, r)' = toTaker'
          BY <1>2, <3>1 DEF Other, Incoming
        <4> QED BY <2>1, <4>1 DEF QueueMay
      <3>2. CASE q = "maker"
        BY <2>1, <3>2 DEF QueueMay, Incoming
      <3> QED BY <3>1, <3>2 DEF Parties
    <2> QED BY <1>1, <2>1, <2>2
  <1>3. CASE p = "taker"
    <2>1. /\ UNCHANGED toTaker
          /\ \A r \in Sessions : toMaker'[r] \in {toMaker[r], Append(toMaker[r], m)}
          /\ toMaker' \in [Sessions -> Seq(ToMaker)]
      <3>1. m \in ToMaker /\ toMaker[s] \in Seq(ToMaker)
        BY <1>1, <1>3
      <3>2. /\ toMaker[s] \o Carried(s, <<m>>) \in {toMaker[s], Append(toMaker[s], m)}
            /\ toMaker[s] \o Carried(s, <<m>>) \in Seq(ToMaker)
        BY <3>1, Carries
      <3> QED BY <1>1, <1>3, <3>2 DEF Send
    <2>2. ASSUME NEW q \in Parties, NEW r \in Sessions
          PROVE  QueueMay(q, r)
      <3>1. CASE q = "maker"
        <4>1. Other(q) = p /\ Incoming(q, r) = toMaker[r] /\ Incoming(q, r)' = toMaker'[r]
          BY <1>3, <3>1 DEF Other, Incoming
        <4>2. toMaker'[r] \in {toMaker[r], Append(toMaker[r], m)}
          BY <2>1
        <4> QED BY <4>1, <4>2 DEF QueueMay
      <3>2. CASE q = "taker"
        BY <2>1, <3>2 DEF QueueMay, Incoming
      <3> QED BY <3>1, <3>2 DEF Parties
    <2> QED BY <1>1, <2>1, <2>2
  <1> QED BY <1>2, <1>3 DEF Parties

LEMMA SendTwo ==
    ASSUME TypeOK, NEW s \in Sessions, NEW n \in ToTaker, NEW m \in ToTaker,
           n \notin RollOverMsgs, Says("maker", m), Send("maker", s, Append(<<n>>, m))
    PROVE  /\ toMaker' \in [Sessions -> Seq(ToMaker)] /\ toTaker' \in Seq(ToTaker)
           /\ \A q \in Parties, r \in Sessions : QueueMay(q, r)
  <1>1. toTaker \in Seq(ToTaker) /\ toMaker \in [Sessions -> Seq(ToMaker)]
    BY DEF TypeOK
  <1> DEFINE g == Append(<<n>>, m)
  <1>2. /\ toTaker \o <<>> = toTaker /\ toTaker \o g = Append(Append(toTaker, n), m)
        /\ Append(Append(toTaker, n), m) \in Seq(ToTaker)
    BY <1>1
  <1>3. UNCHANGED toMaker /\ toTaker' = toTaker \o Carried(s, g)
    BY DEF Send
  <1> HIDE DEF g
  <1>4. /\ UNCHANGED toMaker /\ toTaker' \in {toTaker, Append(Append(toTaker, n), m)}
        /\ toTaker' \in Seq(ToTaker)
    BY <1>1, <1>2, <1>3 DEF Carried
  <1>5. \A q \in Parties, r \in Sessions :
          \/ Incoming(q, r)' = Incoming(q, r)
          \/ q = "taker" /\ Incoming(q, r)' = Append(Append(Incoming(q, r), n), m)
    BY <1>4 DEF Incoming, Parties
  <1>6. /\ \A q \in Parties : q = "taker" => Other(q) = "maker"
        /\ n \in AnyMsg /\ m \in AnyMsg
    BY DEF Other, AnyMsg
  <1>7. \A q \in Parties, r \in Sessions : QueueMay(q, r)
    BY <1>5, <1>6 DEF QueueMay
  <1> QED BY <1>1, <1>4, <1>7

LEMMA MakerPops ==
    ASSUME TypeOK, NEW s \in Sessions, MakerReceives(s)
    PROVE  /\ toMaker' \in [Sessions -> Seq(ToMaker)] /\ toTaker' \in Seq(ToTaker)
           /\ \A q \in Parties, r \in Sessions : QueueMay(q, r)
           /\ Incoming("maker", s) # <<>> /\ toMaker[s] = Incoming("maker", s)
           /\ Incoming("maker", s)' = Tail(Incoming("maker", s))
  <1>1. toTaker \in Seq(ToTaker) /\ toMaker \in [Sessions -> Seq(ToMaker)]
    BY DEF TypeOK
  <1>2. /\ toMaker[s] # <<>> /\ toMaker' = [toMaker EXCEPT ![s] = Tail(toMaker[s])]
        /\ UNCHANGED toTaker
    BY DEF MakerReceives
  <1>3. Tail(toMaker[s]) \in Seq(ToMaker)
    BY <1>1, <1>2
  <1>4. /\ toMaker' \in [Sessions -> Seq(ToMaker)] /\ toMaker'[s] = Tail(toMaker[s])
        /\ \A r \in Sessions : r # s => toMaker'[r] = toMaker[r]
    BY <1>1, <1>2, <1>3
  <1> QED BY <1>1, <1>2, <1>4 DEF QueueMay, Incoming, Parties

LEMMA TakerPops ==
    ASSUME TypeOK, TakerReceives
    PROVE  /\ toMaker' \in [Sessions -> Seq(ToMaker)] /\ toTaker' \in Seq(ToTaker)
           /\ \A q \in Parties, r \in Sessions : QueueMay(q, r)
           /\ \A r \in Sessions : /\ Incoming("taker", r) # <<>>
                                  /\ toTaker = Incoming("taker", r)
                                  /\ Incoming("taker", r)' = Tail(Incoming("taker", r))
  <1>1. toTaker \in Seq(ToTaker) /\ toMaker \in [Sessions -> Seq(ToMaker)]
    BY DEF TypeOK
  <1>2. toTaker # <<>> /\ toTaker' = Tail(toTaker) /\ UNCHANGED toMaker
    BY DEF TakerReceives
  <1> QED BY <1>1, <1>2 DEF QueueMay, Incoming, Parties

(* The inbox of one attempt changes, and no other.                         *)
LEMMA OneInbox ==
    ASSUME Counted, NEW p \in Parties, NEW k \in Attempts, Begun(p, k),
           tasks'[p][k].sess = tasks[p][k].sess,
           \/ tasks'[p][k].inbox \in {tasks[p][k].inbox, <<>>}
           \/ tasks[p][k].inbox # <<>> /\ tasks'[p][k].inbox = Tail(tasks[p][k].inbox),
           \A q \in Parties, i \in Attempts : q # p \/ i # k => tasks'[q][i] = tasks[q][i]
    PROVE  \A q \in Parties, i \in Attempts : InboxMay(q, i)
  <1>1. ASSUME NEW q \in Parties, NEW i \in Attempts
        PROVE  InboxMay(q, i)
    <2>1. CASE q # p \/ i # k
      <3>1. tasks'[q][i] = tasks[q][i] /\ (~Begun(q, i) => tasks[q][i].inbox = <<>>)
        BY <2>1 DEF Counted
      <3> QED BY <3>1 DEF InboxMay
    <2>2. CASE q = p /\ i = k
      BY <2>2 DEF InboxMay
    <2> QED BY <2>1, <2>2
  <1> QED BY <1>1

LEMMA NoInbox ==
    ASSUME Counted, UNCHANGED tasks
    PROVE  \A q \in Parties, i \in Attempts : InboxMay(q, i)
  BY DEF InboxMay, Counted
-----------------------------------------------------------------------------
(* The effect of each action.                                              *)

(* An action that only says or hears a notice.                             *)
LEMMA OnlyNotices ==
    ASSUME TypeOK, Counted,
           UNCHANGED <<dbVars, alive, rolling, tasks, monVars, sess, linked, onChain, histVars>>,
           proposed' \in BOOLEAN, offered' \in Sessions \cup {None},
           toMaker' \in [Sessions -> Seq(ToMaker)], toTaker' \in Seq(ToTaker),
           \A p \in Parties, s \in Sessions : QueueMay(p, s)
    PROVE  Effect /\ Quiet
  <1>1. UNCHANGED <<dlcs, state, alive, rolling, tasks, watch, spy, sess, linked, onChain,
                    revealed, overlapped, restarts, timeouts>>
    BY DEF dbVars, monVars, histVars
  <1>2. TypeOK'
    BY <1>1 DEF TypeOK, Parties, Dlcs, Keys, Sessions, Attempts, Tasks, RollOverMsgs,
                ToMaker, ToTaker
  <1>3. \A p \in Parties, k \in Attempts : InboxMay(p, k)
    BY <1>1, NoInbox
  <1>4. Quiet
    BY <1>1 DEF Quiet, Same, KeepsRolling, KeepsWatch
  <1> QED BY <1>1, <1>2, <1>3, <1>4 DEF Effect, Counted

LEMMA ProposeEffect ==
    ASSUME TypeOK, Counted, ProposeRollOver
    PROVE  Effect /\ Quiet
  <1>1. /\ proposed' \in BOOLEAN /\ Send("taker", sess, <<Notice("propose")>>)
        /\ UNCHANGED <<dbVars, alive, rolling, tasks, monVars, sess, linked, onChain, histVars>>
        /\ offered' = offered
    BY DEF ProposeRollOver
  <1>2. /\ "taker" \in Parties /\ sess \in Sessions /\ Notice("propose") \in AnyMsg
        /\ Notice("propose") \in ToMaker /\ Notice("propose") \notin RollOverMsgs
    BY TypesOf, Messages DEF AnyMsg
  <1>3. /\ toMaker' \in [Sessions -> Seq(ToMaker)] /\ toTaker' \in Seq(ToTaker)
        /\ \A q \in Parties, r \in Sessions : QueueMay(q, r)
    BY <1>1, <1>2, SendOne
  <1>4. offered' \in Sessions \cup {None}
    BY <1>1 DEF TypeOK
  <1> QED BY <1>1, <1>3, <1>4, OnlyNotices

LEMMA HandleProposeEffect ==
    ASSUME TypeOK, Counted, NEW s \in Sessions, HandleProposeRollOver(s)
    PROVE  Effect /\ Quiet
  <1>1. /\ MakerReceives(s) /\ proposed' = proposed
        /\ UNCHANGED <<dbVars, alive, rolling, tasks, monVars, sess, linked, onChain, histVars>>
        /\ offered' = offered \/ offered' = s
    BY DEF HandleProposeRollOver
  <1>2. /\ toMaker' \in [Sessions -> Seq(ToMaker)] /\ toTaker' \in Seq(ToTaker)
        /\ \A q \in Parties, r \in Sessions : QueueMay(q, r)
    BY <1>1, MakerPops
  <1>3. offered' \in Sessions \cup {None} /\ proposed' \in BOOLEAN
    BY <1>1 DEF TypeOK
  <1> QED BY <1>1, <1>2, <1>3, OnlyNotices

LEMMA RejectEffect ==
    ASSUME TypeOK, Counted, RejectRollOver
    PROVE  Effect /\ Quiet
  <1>1. /\ offered # None /\ Send("maker", offered, <<Notice("reject")>>)
        /\ UNCHANGED <<dbVars, alive, rolling, tasks, monVars, sess, linked, onChain, histVars>>
        /\ offered' = None /\ proposed' = proposed
    BY DEF RejectRollOver
  <1>2. /\ "maker" \in Parties /\ Notice("reject") \in AnyMsg
        /\ Notice("reject") \in ToTaker /\ Notice("reject") \notin RollOverMsgs
    BY TypesOf, Messages DEF AnyMsg
  <1>3. offered \in Sessions /\ proposed' \in BOOLEAN
    BY <1>1 DEF TypeOK
  <1>4. /\ toMaker' \in [Sessions -> Seq(ToMaker)] /\ toTaker' \in Seq(ToTaker)
        /\ \A q \in Parties, r \in Sessions : QueueMay(q, r)
    BY <1>1, <1>2, <1>3, SendOne
  <1> QED BY <1>1, <1>3, <1>4, OnlyNotices

LEMMA HandleRejectedEffect ==
    ASSUME TypeOK, Counted, HandleRollOverRejected
    PROVE  Effect /\ Quiet
  <1>1. /\ TakerReceives /\ proposed' \in BOOLEAN /\ offered' = offered
        /\ UNCHANGED <<dbVars, alive, rolling, tasks, monVars, sess, linked, onChain, histVars>>
    BY DEF HandleRollOverRejected
  <1>2. /\ toMaker' \in [Sessions -> Seq(ToMaker)] /\ toTaker' \in Seq(ToTaker)
        /\ \A q \in Parties, r \in Sessions : QueueMay(q, r)
    BY <1>1, TakerPops
  <1>3. offered' \in Sessions \cup {None}
    BY <1>1 DEF TypeOK
  <1> QED BY <1>1, <1>2, <1>3, OnlyNotices

LEMMA RefuseEffect ==
    ASSUME TypeOK, Counted, NEW announced \in BOOLEAN, RefuseRollOver(announced)
    PROVE  Effect /\ Quiet
  <1>1. /\ TakerReceives /\ proposed' = proposed /\ offered' = offered
        /\ UNCHANGED <<dbVars, alive, rolling, tasks, monVars, sess, linked, onChain, histVars>>
    BY DEF RefuseRollOver, actorVars
  <1>2. /\ toMaker' \in [Sessions -> Seq(ToMaker)] /\ toTaker' \in Seq(ToTaker)
        /\ \A q \in Parties, r \in Sessions : QueueMay(q, r)
    BY <1>1, TakerPops
  <1>3. offered' \in Sessions \cup {None} /\ proposed' \in BOOLEAN
    BY <1>1 DEF TypeOK
  <1> QED BY <1>1, <1>2, <1>3, OnlyNotices

(* An attempt begins.                                                      *)
LEMMA Beginning ==
    ASSUME TypeOK, Counted, NEW p \in Parties, NEW k \in Attempts, NEW s \in Sessions,
           NextAttempt(p, k),
           tasks' = [tasks EXCEPT ![p][k] = Task("msg0", dlcs[p], s)],
           rolling' = [rolling EXCEPT ![p] = k],
           proposed' \in BOOLEAN, offered' \in Sessions \cup {None}, overlapped' \in BOOLEAN,
           UNCHANGED <<dbVars, alive, monVars, sess, linked, onChain, revealed, restarts, timeouts>>,
           overlapped => overlapped',
           p = "maker" => (~overlapped' => ~Unfinished("maker")),
           p = "taker" => alive["taker"] /\ rolling["taker"] = None
    PROVE  /\ Begins(p, k) /\ tasks[p][k].step = "none"
           /\ \A q \in Parties, i \in Attempts : InboxMay(q, i)
           /\ (toMaker' \in [Sessions -> Seq(ToMaker)] /\ toTaker' \in Seq(ToTaker)) => TypeOK'
           /\ sess' = restarts'["taker"] + 1
  <1> DEFINE t == Task("msg0", dlcs[p], s)
  <1>1. /\ t \in Tasks /\ t.step = "msg0" /\ t.from = dlcs[p] /\ t.other = 0 /\ t.inbox = <<>>
    <2>1. dlcs[p] \in Seq(Dlcs) /\ 0 \in Keys /\ <<>> \in Seq(RollOverMsgs)
      BY BoundsAssumption DEF TypeOK, Keys
    <2> QED BY <2>1 DEF Task, Tasks
  <1> HIDE DEF t
  <1>2. /\ tasks' \in [Parties -> [Attempts -> Tasks]] /\ tasks'[p][k] = t
        /\ \A q \in Parties, i \in Attempts : q # p \/ i # k => tasks'[q][i] = tasks[q][i]
    BY <1>1 DEF TypeOK, t
  <1>3. UNCHANGED <<dlcs, state, alive, watch, spy, sess, linked, onChain,
                    revealed, restarts, timeouts>>
    BY DEF dbVars, monVars
  <1>4. tasks[p][k].step = "none"
    BY DEF NextAttempt
  <1>5. Begins(p, k)
    <2>1. KeepsWatch
      BY <1>3 DEF KeepsWatch
    <2>2. p = "maker" => KeepsRolling
      BY <1>3 DEF KeepsRolling, TypeOK, Parties
    <2>3. rolling'[p] = k
      BY DEF TypeOK
    <2> QED BY <1>1, <1>2, <1>3, <2>1, <2>2, <2>3 DEF Begins, Same
  <1>6. ASSUME NEW q \in Parties, NEW i \in Attempts
        PROVE  InboxMay(q, i)
    <2>1. CASE q # p \/ i # k
      <3>1. tasks'[q][i] = tasks[q][i] /\ (~Begun(q, i) => tasks[q][i].inbox = <<>>)
        BY <1>2, <2>1 DEF Counted
      <3> QED BY <3>1 DEF InboxMay
    <2>2. CASE q = p /\ i = k
      BY <1>1, <1>2, <1>4, <2>2 DEF InboxMay, Begun
    <2> QED BY <2>1, <2>2
  <1>7. ASSUME toMaker' \in [Sessions -> Seq(ToMaker)], toTaker' \in Seq(ToTaker)
        PROVE  TypeOK'
    <2>1. /\ rolling' \in [Parties -> Attempts \cup {None}]
          /\ rolling'[p] = k /\ \A q \in Parties : q # p => rolling'[q] = rolling[q]
      BY DEF TypeOK
    <2>2. ASSUME NEW q \in Parties, NEW i \in Attempts, rolling'[q] = i
          PROVE  tasks'[q][i].step # "none"
      <3>1. CASE q = p
        BY <1>1, <1>2, <2>1, <2>2, <3>1
      <3>2. CASE q # p
        BY <1>2, <2>1, <2>2, <3>2 DEF TypeOK
      <3> QED BY <3>1, <3>2
    <2>3. /\ dlcs' \in [Parties -> Seq(Dlcs)]
          /\ state' \in [Parties -> {"Open", "PendingCommit", "Committed"}]
          /\ alive' \in [Parties -> BOOLEAN]
          /\ watch' \in [Parties -> SUBSET Dlcs] /\ spy' \in [Parties -> SUBSET Dlcs]
          /\ sess' \in Sessions /\ linked' \in BOOLEAN /\ onChain' \in Dlcs \cup {None}
          /\ revealed' \in [Parties -> SUBSET Keys]
          /\ restarts' \in [Parties -> 0..MaxRestarts] /\ timeouts' \in 0..MaxTimeouts
      BY <1>3 DEF TypeOK
    <2> QED BY <1>2, <1>7, <2>1, <2>2, <2>3, TypesNext
  <1> QED BY <1>3, <1>4, <1>5, <1>6, <1>7 DEF Counted
LEMMA AcceptEffect ==
    ASSUME TypeOK, Counted, AcceptRollOver
    PROVE  Effect /\ \E k \in Attempts : Begins("maker", k)
  <1>1. PICK k \in Attempts :
          /\ offered # None /\ Begin("maker", offered, <<Notice("confirm")>>, k)
          /\ offered' = None
          /\ UNCHANGED <<dbVars, alive, proposed, monVars, sess, linked, onChain,
                         revealed, restarts, timeouts>>
    BY DEF AcceptRollOver
  <1>2. /\ NextAttempt("maker", k)
        /\ tasks' = [tasks EXCEPT !["maker"][k] = Task("msg0", dlcs["maker"], offered)]
        /\ rolling' = [rolling EXCEPT !["maker"] = k]
        /\ overlapped' = (overlapped \/ Unfinished("maker"))
        /\ Send("maker", offered, Append(<<Notice("confirm")>>, Msg0(k)))
    BY <1>1 DEF Begin
  <1>3. /\ "maker" \in Parties /\ offered \in Sessions /\ proposed' \in BOOLEAN
        /\ offered' \in Sessions \cup {None} /\ overlapped \in BOOLEAN
    BY <1>1 DEF TypeOK, Parties
  <1>4. Unfinished("maker") \in BOOLEAN
    BY DEF Unfinished
  <1>5. overlapped' \in BOOLEAN /\ (overlapped => overlapped')
        /\ (~overlapped' => ~Unfinished("maker"))
    BY <1>2, <1>3, <1>4
  <1>6. UNCHANGED <<dbVars, alive, monVars, sess, linked, onChain, revealed, restarts, timeouts>>
    BY <1>1
  <1>7. /\ Begins("maker", k) /\ tasks["maker"][k].step = "none"
        /\ \A q \in Parties, i \in Attempts : InboxMay(q, i)
        /\ (toMaker' \in [Sessions -> Seq(ToMaker)] /\ toTaker' \in Seq(ToTaker)) => TypeOK'
        /\ sess' = restarts'["taker"] + 1
    <2>1. "maker" # "taker"
      OBVIOUS
    <2> QED BY <1>2, <1>3, <1>5, <1>6, <2>1, Beginning
  <1>8. /\ Notice("confirm") \in ToTaker /\ Notice("confirm") \notin RollOverMsgs
        /\ Msg0(k) \in ToTaker
    BY TypesOf, Messages
  <1>9. Says("maker", Msg0(k))
    BY <1>7 DEF Says, Begins
  <1>10. /\ toMaker' \in [Sessions -> Seq(ToMaker)] /\ toTaker' \in Seq(ToTaker)
         /\ \A q \in Parties, r \in Sessions : QueueMay(q, r)
    BY <1>2, <1>3, <1>8, <1>9, SendTwo
  <1> QED BY <1>7, <1>10 DEF Effect

LEMMA HandleAcceptedEffect ==
    ASSUME TypeOK, Counted, HandleRollOverAccepted
    PROVE  Effect /\ \E k \in Attempts : Begins("taker", k)
  <1>1. PICK k \in Attempts :
          /\ alive["taker"] /\ toTaker # <<>>
          /\ MayRollOver /\ NextAttempt("taker", k)
          /\ tasks' = [tasks EXCEPT !["taker"][k] = Task("msg0", dlcs["taker"], sess)]
          /\ rolling' = [rolling EXCEPT !["taker"] = k]
          /\ proposed' = FALSE
          /\ toTaker' = Tail(toTaker)
          /\ toMaker' = [toMaker EXCEPT ![sess] = toMaker[sess] \o Carried(sess, <<Msg0(k)>>)]
          /\ UNCHANGED <<dbVars, alive, offered, monVars, sess, linked, onChain,
                         revealed, overlapped, restarts, timeouts>>
    BY DEF HandleRollOverAccepted
  <1>2. /\ "taker" \in Parties /\ sess \in Sessions /\ proposed' \in BOOLEAN
        /\ offered' \in Sessions \cup {None} /\ overlapped' \in BOOLEAN
        /\ rolling["taker"] = None /\ overlapped' = overlapped
    BY <1>1 DEF TypeOK, Parties, MayRollOver
  <1>3. UNCHANGED <<dbVars, alive, monVars, sess, linked, onChain, revealed, restarts, timeouts>>
    BY <1>1
  <1>4. /\ Begins("taker", k) /\ tasks["taker"][k].step = "none"
        /\ \A q \in Parties, i \in Attempts : InboxMay(q, i)
        /\ (toMaker' \in [Sessions -> Seq(ToMaker)] /\ toTaker' \in Seq(ToTaker)) => TypeOK'
        /\ sess' = restarts'["taker"] + 1
    <2>1. "maker" # "taker" /\ (overlapped => overlapped')
      BY <1>2
    <2> QED BY <1>1, <1>2, <1>3, <2>1, Beginning
  <1>5. Says("taker", Msg0(k))
    BY <1>4 DEF Says, Begins
  <1>6. toTaker \in Seq(ToTaker) /\ toMaker \in [Sessions -> Seq(ToMaker)] /\ Msg0(k) \in ToMaker
        /\ Msg0(k) \in AnyMsg
    BY TypesOf, Messages DEF TypeOK
  <1>7. toTaker' \in Seq(ToTaker)
    BY <1>1, <1>6
  <1>8. /\ toMaker' \in [Sessions -> Seq(ToMaker)]
        /\ \A r \in Sessions : toMaker'[r] \in {toMaker[r], Append(toMaker[r], Msg0(k))}
    <2>1. /\ toMaker[sess] \o Carried(sess, <<Msg0(k)>>) \in {toMaker[sess], Append(toMaker[sess], Msg0(k))}
          /\ toMaker[sess] \o Carried(sess, <<Msg0(k)>>) \in Seq(ToMaker)
      <3>1. toMaker[sess] \in Seq(ToMaker)
        BY <1>2, <1>6
      <3> QED BY <1>6, <3>1, Carries
    <2> QED BY <1>1, <1>2, <1>6, <2>1
  <1>9. ASSUME NEW q \in Parties, NEW r \in Sessions
        PROVE  QueueMay(q, r)
    <2>1. CASE q = "maker"
      <3>1. Other(q) = "taker" /\ Incoming(q, r) = toMaker[r] /\ Incoming(q, r)' = toMaker'[r]
        BY <2>1 DEF Other, Incoming
      <3>2. toMaker'[r] \in {toMaker[r], Append(toMaker[r], Msg0(k))}
        BY <1>8
      <3> QED BY <1>5, <1>6, <3>1, <3>2 DEF QueueMay
    <2>2. CASE q = "taker"
      <3>1. Incoming(q, r) = toTaker /\ Incoming(q, r)' = toTaker'
        BY <2>2 DEF Incoming
      <3> QED BY <1>1, <3>1 DEF QueueMay
    <2> QED BY <2>1, <2>2 DEF Parties
  <1> QED BY <1>4, <1>7, <1>8, <1>9 DEF Effect

(* An attempt gets on.                                                     *)
LEMMA GettingOn ==
    ASSUME TypeOK, Counted, NEW p \in Parties, NEW k \in Attempts, NEW step \in Steps,
           NEW other \in Keys, NEW inbox \in Seq(RollOverMsgs),
           Begun(p, k), step # "none", tasks' = At(p, k, step, other, inbox),
           UNCHANGED <<dbVars, actorVars, monVars, sess, linked, onChain, overlapped, restarts>>,
           revealed' \in [Parties -> SUBSET Keys], timeouts' \in 0..MaxTimeouts,
           toMaker' \in [Sessions -> Seq(ToMaker)], toTaker' \in Seq(ToTaker)
    PROVE  /\ TypeOK' /\ sess' = restarts'["taker"] + 1
           /\ Moves(p, k, step, other) /\ tasks'[p][k].inbox = inbox
           /\ \A q \in Parties, i \in Attempts : q # p \/ i # k => tasks'[q][i] = tasks[q][i]
           /\ UNCHANGED <<dlcs, overlapped>> /\ KeepsRolling /\ KeepsWatch
  <1>1. /\ tasks' \in [Parties -> [Attempts -> Tasks]]
        /\ Moves(p, k, step, other) /\ tasks'[p][k].inbox = inbox
        /\ \A q \in Parties, i \in Attempts : q # p \/ i # k => tasks'[q][i] = tasks[q][i]
    BY AtMoves
  <1>2. UNCHANGED <<dlcs, state, alive, proposed, offered, rolling, watch, spy, sess, linked,
                    onChain, overlapped, restarts>>
    BY DEF dbVars, actorVars, monVars
  <1>3. ASSUME NEW q \in Parties, NEW i \in Attempts, rolling'[q] = i
        PROVE  tasks'[q][i].step # "none"
    <2>1. CASE q = p /\ i = k
      BY <1>1, <2>1 DEF Moves
    <2>2. CASE q # p \/ i # k
      <3>1. tasks'[q][i] = tasks[q][i] /\ rolling[q] = i
        BY <1>1, <1>2, <1>3, <2>2
      <3> QED BY <3>1 DEF TypeOK
    <2> QED BY <2>1, <2>2
  <1>4. /\ dlcs' \in [Parties -> Seq(Dlcs)]
        /\ state' \in [Parties -> {"Open", "PendingCommit", "Committed"}]
        /\ alive' \in [Parties -> BOOLEAN] /\ proposed' \in BOOLEAN
        /\ offered' \in Sessions \cup {None} /\ rolling' \in [Parties -> Attempts \cup {None}]
        /\ watch' \in [Parties -> SUBSET Dlcs] /\ spy' \in [Parties -> SUBSET Dlcs]
        /\ sess' \in Sessions /\ linked' \in BOOLEAN /\ onChain' \in Dlcs \cup {None}
        /\ overlapped' \in BOOLEAN /\ restarts' \in [Parties -> 0..MaxRestarts]
    BY <1>2 DEF TypeOK
  <1>5. TypeOK'
    BY <1>1, <1>3, <1>4, TypesNext
  <1>6. KeepsRolling /\ KeepsWatch
    BY <1>2 DEF KeepsRolling, KeepsWatch
  <1> QED BY <1>1, <1>2, <1>5, <1>6 DEF Counted

LEMMA RoutedEffect ==
    ASSUME TypeOK, Counted, NEW p \in Parties, NEW s \in Sessions, NEW msg \in RollOverMsgs,
           Routed(p, s, msg) \/ Dropped(p, s),
           UNCHANGED <<dbVars, actorVars, monVars, sess, linked, onChain, histVars>>,
           toMaker' \in [Sessions -> Seq(ToMaker)], toTaker' \in Seq(ToTaker),
           \A q \in Parties, r \in Sessions : QueueMay(q, r),
           \A r \in Sessions : (p = "maker" => r = s) =>
             /\ Incoming(p, r) # <<>> /\ msg = Head(Incoming(p, r))
             /\ Incoming(p, r)' = Tail(Incoming(p, r))
    PROVE  Effect /\ Quiet
  <1>1. /\ UNCHANGED <<dbVars, actorVars, monVars, sess, linked, onChain, overlapped, restarts>>
        /\ revealed' = revealed /\ timeouts' = timeouts
        /\ revealed' \in [Parties -> SUBSET Keys] /\ timeouts' \in 0..MaxTimeouts
    BY DEF histVars, TypeOK
  <1>2. CASE Routed(p, s, msg)
    <2>1. PICK k \in Attempts :
            /\ Waiting(p, k) /\ (p = "maker" => tasks[p][k].sess = s)
            /\ tasks' = At(p, k, tasks[p][k].step, tasks[p][k].other, Append(tasks[p][k].inbox, msg))
      BY <1>2 DEF Routed
    <2>2. /\ tasks[p][k].step \in Steps /\ tasks[p][k].other \in Keys
          /\ Append(tasks[p][k].inbox, msg) \in Seq(RollOverMsgs) /\ Begun(p, k)
          /\ tasks[p][k].step # "none" /\ tasks[p][k].sess \in Sessions
      BY <2>1, TypesOf DEF Waiting, Begun
    <2>3. /\ TypeOK' /\ sess' = restarts'["taker"] + 1
          /\ Moves(p, k, tasks[p][k].step, tasks[p][k].other)
          /\ tasks'[p][k].inbox = Append(tasks[p][k].inbox, msg)
          /\ \A q \in Parties, i \in Attempts : q # p \/ i # k => tasks'[q][i] = tasks[q][i]
          /\ UNCHANGED <<dlcs, overlapped>> /\ KeepsRolling /\ KeepsWatch
      <3>1. PICK step \in Steps, other \in Keys, inbox \in Seq(RollOverMsgs) :
              /\ step = tasks[p][k].step /\ other = tasks[p][k].other
              /\ inbox = Append(tasks[p][k].inbox, msg)
        BY <2>2
      <3>2. tasks' = At(p, k, step, other, inbox) /\ step # "none"
        BY <2>1, <2>2, <3>1
      <3>3. /\ TypeOK' /\ sess' = restarts'["taker"] + 1
            /\ Moves(p, k, step, other) /\ tasks'[p][k].inbox = inbox
            /\ \A q \in Parties, i \in Attempts : q # p \/ i # k => tasks'[q][i] = tasks[q][i]
            /\ UNCHANGED <<dlcs, overlapped>> /\ KeepsRolling /\ KeepsWatch
        BY <1>1, <2>2, <3>2, GettingOn
      <3> QED BY <3>1, <3>3
    <2>4. PICK r \in Sessions : r = tasks[p][k].sess
      BY <2>2
    <2>5. /\ Incoming(p, r) # <<>> /\ msg = Head(Incoming(p, r))
          /\ Incoming(p, r)' = Tail(Incoming(p, r))
      BY <2>1, <2>4
    <2>6. ASSUME NEW q \in Parties, NEW i \in Attempts
          PROVE  InboxMay(q, i)
      <3>1. CASE q # p \/ i # k
        <4>1. tasks'[q][i] = tasks[q][i] /\ (~Begun(q, i) => tasks[q][i].inbox = <<>>)
          BY <2>3, <3>1 DEF Counted
        <4> QED BY <4>1 DEF InboxMay
      <3>2. CASE q = p /\ i = k
        <4>1. tasks'[p][k].sess = r
          BY <2>3, <2>4 DEF Moves
        <4>2. Incoming(p, tasks[p][k].sess)' = Tail(Incoming(p, r))
          BY <2>5, <4>1 DEF Incoming
        <4> QED BY <2>2, <2>3, <2>4, <2>5, <3>2, <4>1, <4>2 DEF InboxMay
      <3> QED BY <3>1, <3>2
    <2>7. Quiet
      BY <1>1, <2>3 DEF Quiet, Moves, Same
    <2> QED BY <2>3, <2>6, <2>7 DEF Effect
  <1>3. CASE Dropped(p, s)
    <2>1. UNCHANGED tasks
      BY <1>3 DEF Dropped
    <2>2. /\ UNCHANGED <<dlcs, state, alive, proposed, offered, rolling, tasks, watch, spy, sess,
                         linked, onChain, revealed, overlapped, restarts, timeouts>>
      BY <1>1, <2>1 DEF dbVars, actorVars, monVars
    <2>3. UNCHANGED <<dbVars, alive, rolling, tasks, monVars, sess, linked, onChain, histVars>>
          /\ proposed' \in BOOLEAN /\ offered' \in Sessions \cup {None}
      BY <2>2 DEF dbVars, monVars, histVars, TypeOK
    <2> QED BY <2>3, OnlyNotices
  <1> QED BY <1>2, <1>3

LEMMA MakerHandlesEffect ==
    ASSUME TypeOK, Counted, NEW s \in Sessions, MakerHandlesProtocolMsg(s)
    PROVE  Effect /\ Quiet
  <1>1. /\ MakerReceives(s) /\ Head(toMaker[s]) \in RollOverMsgs
        /\ Routed("maker", s, Head(toMaker[s])) \/ Dropped("maker", s)
        /\ UNCHANGED <<dbVars, actorVars, monVars, sess, linked, onChain, histVars>>
    BY DEF MakerHandlesProtocolMsg
  <1>2. /\ toMaker' \in [Sessions -> Seq(ToMaker)] /\ toTaker' \in Seq(ToTaker)
        /\ \A q \in Parties, r \in Sessions : QueueMay(q, r)
        /\ Incoming("maker", s) # <<>> /\ toMaker[s] = Incoming("maker", s)
        /\ Incoming("maker", s)' = Tail(Incoming("maker", s))
    BY <1>1, MakerPops
  <1>3. "maker" \in Parties
    BY DEF Parties
  <1> QED BY <1>1, <1>2, <1>3, RoutedEffect

LEMMA TakerHandlesEffect ==
    ASSUME TypeOK, Counted, TakerHandlesProtocolMsg
    PROVE  Effect /\ Quiet
  <1>1. /\ TakerReceives /\ Head(toTaker) \in RollOverMsgs
        /\ Routed("taker", sess, Head(toTaker)) \/ Dropped("taker", sess)
        /\ UNCHANGED <<dbVars, actorVars, monVars, sess, linked, onChain, histVars>>
    BY DEF TakerHandlesProtocolMsg
  <1>2. /\ toMaker' \in [Sessions -> Seq(ToMaker)] /\ toTaker' \in Seq(ToTaker)
        /\ \A q \in Parties, r \in Sessions : QueueMay(q, r)
        /\ \A r \in Sessions : /\ Incoming("taker", r) # <<>>
                               /\ toTaker = Incoming("taker", r)
                               /\ Incoming("taker", r)' = Tail(Incoming("taker", r))
    BY <1>1, TakerPops
  <1>3. "taker" \in Parties /\ sess \in Sessions
    BY TypesOf
  <1>4. PICK r \in Sessions : r = sess
    BY <1>3
  <1>5. PICK m \in RollOverMsgs : m = Head(toTaker)
    BY <1>1
  <1>6. Routed("taker", r, m) \/ Dropped("taker", r)
    BY <1>1, <1>4, <1>5
  <1>7. \A u \in Sessions :
             /\ Incoming("taker", u) # <<>> /\ m = Head(Incoming("taker", u))
             /\ Incoming("taker", u)' = Tail(Incoming("taker", u))
    BY <1>2, <1>5
  <1> QED BY <1>1, <1>2, <1>3, <1>6, <1>7, RoutedEffect
LEMMA ReceiveMsg0Effect ==
    ASSUME TypeOK, Counted, NEW p \in Parties, NEW k \in Attempts, ReceiveMsg0(p, k)
    PROVE  Effect /\ \E x \in Keys : TakesKey(p, k, x)
  <1> DEFINE q == tasks[p][k].inbox
             x == Head(q).key
  <1>1. /\ tasks[p][k].step = "msg0" /\ q # <<>> /\ Head(q).kind = "msg0"
        /\ tasks' = At(p, k, "msg1", x, Tail(q))
        /\ Send(p, tasks[p][k].sess, <<Msg1(DlcOf(p, k, x))>>)
        /\ UNCHANGED <<dbVars, actorVars, monVars, sess, linked, onChain, overlapped, restarts>>
        /\ revealed' = revealed /\ timeouts' = timeouts
    BY DEF ReceiveMsg0, Reads, taskUnchanged
  <1>2. q \in Seq(RollOverMsgs) /\ tasks[p][k].sess \in Sessions
    BY TypesOf
  <1>3. Has(q, Head(q)) /\ Head(q) \in RollOverMsgs /\ Tail(q) \in Seq(RollOverMsgs)
    BY <1>1, <1>2, HasTail
  <1>4. x \in Keys /\ Head(q) = Msg0(x)
    BY <1>1, <1>3, Messages
  <1>5. /\ "msg1" \in Steps /\ "msg1" # "none" /\ Begun(p, k)
        /\ revealed' \in [Parties -> SUBSET Keys] /\ timeouts' \in 0..MaxTimeouts
    BY <1>1 DEF Steps, Begun, TypeOK
  <1>6. DlcOf(p, k, x) \in Dlcs
    BY <1>4, DlcTypes
  <1>7. /\ tasks' \in [Parties -> [Attempts -> Tasks]] /\ Moves(p, k, "msg1", x)
        /\ tasks'[p][k].inbox = Tail(q)
    <2>1. PICK y \in Keys, rest \in Seq(RollOverMsgs) : y = x /\ rest = Tail(q)
      BY <1>3, <1>4
    <2>2. tasks' = At(p, k, "msg1", y, rest) /\ "msg1" \in Steps
      BY <1>1, <1>5, <2>1
    <2>3. /\ tasks' \in [Parties -> [Attempts -> Tasks]] /\ Moves(p, k, "msg1", y)
          /\ tasks'[p][k].inbox = rest
      BY <2>2, AtMoves
    <2> QED BY <2>1, <2>3
  <1>8. Says(p, Msg1(DlcOf(p, k, x)))
    BY <1>1, <1>7 DEF Says, Moves
  <1>9. /\ Msg1(DlcOf(p, k, x)) \in AnyMsg /\ Msg1(DlcOf(p, k, x)) \in ToMaker
        /\ Msg1(DlcOf(p, k, x)) \in ToTaker
    BY <1>6, Messages
  <1>10. /\ toMaker' \in [Sessions -> Seq(ToMaker)] /\ toTaker' \in Seq(ToTaker)
         /\ \A r \in Parties, s \in Sessions : QueueMay(r, s)
    BY <1>1, <1>2, <1>8, <1>9, SendOne
  <1>11. /\ TypeOK' /\ sess' = restarts'["taker"] + 1
         /\ \A r \in Parties, i \in Attempts : r # p \/ i # k => tasks'[r][i] = tasks[r][i]
         /\ UNCHANGED <<dlcs, overlapped>> /\ KeepsRolling /\ KeepsWatch
    BY <1>1, <1>3, <1>4, <1>5, <1>10, GettingOn
  <1>12. \A r \in Parties, i \in Attempts : InboxMay(r, i)
    BY <1>1, <1>5, <1>7, <1>11, OneInbox DEF Moves
  <1>13. TakesKey(p, k, x)
    BY <1>1, <1>3, <1>4, <1>7, <1>11 DEF TakesKey, InInbox
  <1> QED BY <1>4, <1>10, <1>11, <1>12, <1>13 DEF Effect

LEMMA ReceiveMsg1Effect ==
    ASSUME TypeOK, Counted, NEW p \in Parties, NEW k \in Attempts, ReceiveMsg1(p, k)
    PROVE  Effect /\ TakesSignature(p, k)
  <1> DEFINE q == tasks[p][k].inbox
             o == tasks[p][k].other
             x == Revokes(p, k, p)
             d == Built(p, k)
  <1>1. /\ tasks[p][k].step = "msg1" /\ q # <<>> /\ Head(q).kind = "msg1" /\ Head(q).dlc = d
        /\ tasks' = At(p, k, "msg2", o, Tail(q))
        /\ revealed' = [revealed EXCEPT ![p] = revealed[p] \cup {x}]
        /\ Send(p, tasks[p][k].sess, <<Msg2(x)>>)
        /\ UNCHANGED <<dbVars, actorVars, monVars, sess, linked, onChain, overlapped, restarts>>
        /\ timeouts' = timeouts
    BY DEF ReceiveMsg1, Reads, Goes, Revokes, taskUnchanged
  <1>2. /\ q \in Seq(RollOverMsgs) /\ tasks[p][k].sess \in Sessions /\ o \in Keys
        /\ x \in Keys /\ d \in Dlcs
    BY TypesOf, RevokesType, DlcTypes
  <1>3. /\ Has(q, Head(q)) /\ Head(q) \in RollOverMsgs /\ Tail(q) \in Seq(RollOverMsgs)
        /\ \A a : Has(Tail(q), a) => Before(q, Head(q), a)
    BY <1>1, <1>2, HasTail
  <1>4. Head(q) = Msg1(d)
    BY <1>1, <1>3, Messages
  <1>5. /\ "msg2" \in Steps /\ "msg2" # "none" /\ Begun(p, k)
        /\ revealed' \in [Parties -> SUBSET Keys] /\ timeouts' \in 0..MaxTimeouts
    <2>1. revealed \in [Parties -> SUBSET Keys] /\ timeouts \in 0..MaxTimeouts
      BY DEF TypeOK
    <2>2. revealed' \in [Parties -> SUBSET Keys]
      BY <1>1, <1>2, <2>1
    <2> QED BY <1>1, <2>1, <2>2 DEF Steps, Begun
  <1>6. /\ tasks' \in [Parties -> [Attempts -> Tasks]] /\ Moves(p, k, "msg2", o)
        /\ tasks'[p][k].inbox = Tail(q)
    <2>1. tasks' = At(p, k, "msg2", o, Tail(q))
      BY <1>1
    <2>2. o \in Keys /\ Tail(q) \in Seq(RollOverMsgs) /\ "msg2" \in Steps
      BY <1>2, <1>3, <1>5
    <2>3. PICK o1 \in Keys, rest \in Seq(RollOverMsgs) : o1 = o /\ rest = Tail(q)
      BY <2>2
    <2>4. tasks' = At(p, k, "msg2", o1, rest)
      BY <2>1, <2>3
    <2>5. /\ tasks' \in [Parties -> [Attempts -> Tasks]] /\ Moves(p, k, "msg2", o1)
          /\ tasks'[p][k].inbox = rest
      BY <2>2, <2>4, AtMoves
    <2> QED BY <2>3, <2>5
  <1>7. Says(p, Msg2(x))
    BY <1>1, <1>6 DEF Says, Moves
  <1>8. Msg2(x) \in AnyMsg /\ Msg2(x) \in ToMaker /\ Msg2(x) \in ToTaker
    BY <1>2, Messages
  <1>9. /\ toMaker' \in [Sessions -> Seq(ToMaker)] /\ toTaker' \in Seq(ToTaker)
         /\ \A r \in Parties, s \in Sessions : QueueMay(r, s)
    BY <1>1, <1>2, <1>7, <1>8, SendOne
  <1>10. /\ TypeOK' /\ sess' = restarts'["taker"] + 1
         /\ \A r \in Parties, i \in Attempts : r # p \/ i # k => tasks'[r][i] = tasks[r][i]
         /\ UNCHANGED <<dlcs, overlapped>> /\ KeepsRolling /\ KeepsWatch
    BY <1>1, <1>2, <1>3, <1>5, <1>9, GettingOn
  <1>11. \A r \in Parties, i \in Attempts : InboxMay(r, i)
    BY <1>1, <1>5, <1>6, <1>10, OneInbox DEF Moves
  <1>12. InInbox(p, k, Msg1(d))
    BY <1>3, <1>4 DEF InInbox
  <1>13. ASSUME NEW m \in RollOverMsgs, Hears(p, k, m)'
         PROVE  Follows(p, k, Msg1(d), m)
    <2>1. CASE InInbox(p, k, m)'
      BY <1>3, <1>4, <1>6, <2>1 DEF InInbox, Follows
    <2>2. CASE InQueue(p, tasks[p][k].sess, m)'
      <3>1. PICK r \in Sessions : r = tasks[p][k].sess
        BY <1>2
      <3>2. tasks'[p][k].sess = r
        BY <1>6, <3>1 DEF Moves
      <3>3. Has(Incoming(p, r)', m)
        BY <2>2, <3>2 DEF InQueue, Has, Incoming
      <3>4. Incoming(p, r)' = Incoming(p, r)
        BY <1>1 DEF Incoming, Send, Parties
      <3>5. Has(Incoming(p, tasks[p][k].sess), m)
        BY <3>1, <3>3, <3>4
      <3> QED BY <1>12, <3>5 DEF Follows, InQueue
    <2> QED BY <1>13, <2>1, <2>2 DEF Hears
  <1>14. TakesSignature(p, k)
    BY <1>1, <1>6, <1>10, <1>12, <1>13 DEF TakesSignature
  <1> QED BY <1>9, <1>10, <1>11, <1>14 DEF Effect
(* An attempt gets on, or ends, without a word.                            *)
LEMMA Silently ==
    ASSUME TypeOK, Counted, NEW p \in Parties, NEW k \in Attempts, NEW step \in Steps,
           NEW inbox \in Seq(RollOverMsgs), Begun(p, k), step # "none",
           \/ inbox = tasks[p][k].inbox
           \/ tasks[p][k].inbox # <<>> /\ inbox = Tail(tasks[p][k].inbox),
           tasks' = At(p, k, step, tasks[p][k].other, inbox),
           UNCHANGED <<dbVars, actorVars, monVars, wireVars, onChain, revealed, overlapped,
                       restarts>>,
           timeouts' \in 0..MaxTimeouts
    PROVE  /\ Effect /\ Moves(p, k, step, tasks[p][k].other)
           /\ UNCHANGED <<dlcs, revealed, overlapped>> /\ KeepsRolling /\ KeepsWatch
  <1>1. UNCHANGED <<sess, linked, toMaker, toTaker>> /\ revealed' = revealed
    BY DEF wireVars
  <1>2. /\ revealed' \in [Parties -> SUBSET Keys]
        /\ toMaker' \in [Sessions -> Seq(ToMaker)] /\ toTaker' \in Seq(ToTaker)
    BY <1>1 DEF TypeOK
  <1>3. PICK o \in Keys : o = tasks[p][k].other
    BY TypesOf
  <1>4. tasks' = At(p, k, step, o, inbox)
    BY <1>3
  <1>5. UNCHANGED <<dbVars, actorVars, monVars, sess, linked, onChain, overlapped, restarts>>
    BY <1>1
  <1>6. /\ TypeOK' /\ sess' = restarts'["taker"] + 1
        /\ Moves(p, k, step, o) /\ tasks'[p][k].inbox = inbox
        /\ \A q \in Parties, i \in Attempts : q # p \/ i # k => tasks'[q][i] = tasks[q][i]
        /\ UNCHANGED <<dlcs, overlapped>> /\ KeepsRolling /\ KeepsWatch
    BY <1>2, <1>4, <1>5, GettingOn
  <1>7. \A q \in Parties, s \in Sessions : QueueMay(q, s)
    BY <1>1, NothingSent
  <1>8. tasks'[p][k].sess = tasks[p][k].sess
    BY <1>6 DEF Moves
  <1>9. \A q \in Parties, i \in Attempts : InboxMay(q, i)
    <2>1. \/ tasks'[p][k].inbox \in {tasks[p][k].inbox, <<>>}
          \/ tasks[p][k].inbox # <<>> /\ tasks'[p][k].inbox = Tail(tasks[p][k].inbox)
      BY <1>6
    <2>2. \A q \in Parties, i \in Attempts : q # p \/ i # k => tasks'[q][i] = tasks[q][i]
      BY <1>6
    <2> QED BY <1>8, <2>1, <2>2, OneInbox
  <1> QED BY <1>1, <1>3, <1>6, <1>7, <1>9 DEF Effect

LEMMA ReceiveMsg2Effect ==
    ASSUME TypeOK, Counted, NEW p \in Parties, NEW k \in Attempts, ReceiveMsg2(p, k)
    PROVE  Effect /\ TakesSecret(p, k)
  <1> DEFINE q == tasks[p][k].inbox
             x == Revokes(p, k, Other(p))
  <1>1. /\ tasks[p][k].step = "msg2" /\ q # <<>> /\ Head(q).kind = "msg2" /\ Head(q).key = x
        /\ tasks' = At(p, k, "ok", tasks[p][k].other, Tail(q))
        /\ UNCHANGED <<dbVars, actorVars, monVars, wireVars, onChain, revealed, overlapped,
                       restarts>>
        /\ timeouts' = timeouts
    BY DEF ReceiveMsg2, Reads, Goes, Revokes, taskUnchanged, wireVars
  <1>2. q \in Seq(RollOverMsgs) /\ timeouts \in 0..MaxTimeouts
    BY TypesOf DEF TypeOK
  <1>3. Has(q, Head(q)) /\ Head(q) \in RollOverMsgs /\ Tail(q) \in Seq(RollOverMsgs)
    BY <1>1, <1>2, HasTail
  <1>4. Head(q) = Msg2(x)
    BY <1>1, <1>3, Messages
  <1>5. "ok" \in Steps /\ "ok" # "none" /\ Begun(p, k) /\ timeouts' \in 0..MaxTimeouts
    BY <1>1, <1>2 DEF Steps, Begun
  <1>6. PICK rest \in Seq(RollOverMsgs) : rest = Tail(q)
    BY <1>3
  <1>7. tasks' = At(p, k, "ok", tasks[p][k].other, rest)
    BY <1>1, <1>6
  <1>8. /\ Effect /\ Moves(p, k, "ok", tasks[p][k].other)
        /\ UNCHANGED <<dlcs, revealed, overlapped>> /\ KeepsRolling /\ KeepsWatch
    BY <1>1, <1>5, <1>6, <1>7, Silently
  <1> QED BY <1>1, <1>3, <1>4, <1>8 DEF TakesSecret, InInbox

LEMMA FailEffect ==
    ASSUME TypeOK, Counted, NEW p \in Parties, NEW k \in Attempts,
           ReceiveWrong(p, k) \/ LosesSender(p, k) \/ TimesOut(p, k)
    PROVE  Effect /\ FailsAt(p, k)
  <1> DEFINE q == tasks[p][k].inbox
  <1>1. q \in Seq(RollOverMsgs) /\ timeouts \in 0..MaxTimeouts /\ MaxTimeouts \in Nat
    BY TypesOf, BoundsAssumption DEF TypeOK
  <1>2. /\ Waiting(p, k)
        /\ UNCHANGED <<dbVars, actorVars, monVars, wireVars, onChain, revealed, overlapped,
                       restarts>>
        /\ timeouts' \in 0..MaxTimeouts
        /\ \/ q # <<>> /\ tasks' = At(p, k, "failed", tasks[p][k].other, Tail(q))
           \/ tasks' = At(p, k, "failed", tasks[p][k].other, q)
    <2>1. CASE ReceiveWrong(p, k)
      BY <1>1, <2>1 DEF ReceiveWrong, Goes, taskUnchanged, wireVars
    <2>2. CASE LosesSender(p, k)
      BY <1>1, <2>2 DEF LosesSender, Ends, taskUnchanged, wireVars
    <2>3. CASE TimesOut(p, k)
      BY <1>1, <2>3 DEF TimesOut, Ends
    <2> QED BY <2>1, <2>2, <2>3
  <1>3. PICK inbox \in Seq(RollOverMsgs) :
          /\ inbox = q \/ (q # <<>> /\ inbox = Tail(q))
          /\ tasks' = At(p, k, "failed", tasks[p][k].other, inbox)
    <2>1. CASE q # <<>> /\ tasks' = At(p, k, "failed", tasks[p][k].other, Tail(q))
      <3>1. Tail(q) \in Seq(RollOverMsgs)
        BY <1>1, <2>1, HasTail
      <3> QED BY <2>1, <3>1
    <2>2. CASE tasks' = At(p, k, "failed", tasks[p][k].other, q)
      BY <1>1, <2>2
    <2> QED BY <1>2, <2>1, <2>2
  <1>4. "failed" \in Steps /\ "failed" # "none" /\ Begun(p, k) /\ Runs(p, k)
    BY <1>2 DEF Steps, Begun, Waiting, Runs
  <1>5. /\ Effect /\ Moves(p, k, "failed", tasks[p][k].other)
        /\ UNCHANGED <<dlcs, revealed, overlapped>> /\ KeepsRolling /\ KeepsWatch
    BY <1>2, <1>3, <1>4, Silently
  <1> QED BY <1>4, <1>5 DEF FailsAt

LEMMA CompletedEffect ==
    ASSUME TypeOK, Counted, NEW p \in Parties, NEW k \in Attempts, RollOverCompleted(p, k)
    PROVE  Effect /\ Completes(p, k)
  <1> DEFINE d == Built(p, k)
             new == Append(tasks[p][k].from, d)
  <1>1. /\ tasks[p][k].step = "ok"
        /\ tasks' = At(p, k, "done", tasks[p][k].other, tasks[p][k].inbox)
        /\ rolling' = [rolling EXCEPT ![p] = None]
        /\ dlcs' = [dlcs EXCEPT ![p] = new]
        /\ state' = [state EXCEPT ![p] = "Open"]
        /\ watch' = [watch EXCEPT ![p] = watch[p] \cup {d}]
        /\ spy' = [spy EXCEPT ![p] = spy[p] \cup Range(tasks[p][k].from)]
        /\ UNCHANGED <<alive, proposed, offered, sess, linked, toMaker, toTaker, onChain,
                       revealed, overlapped, restarts, timeouts>>
    BY DEF RollOverCompleted, Ends, wireVars, histVars
  <1>2. /\ tasks[p][k].from \in Seq(Dlcs) /\ d \in Dlcs /\ tasks[p][k].other \in Keys
        /\ tasks[p][k].inbox \in Seq(RollOverMsgs)
    BY TypesOf, DlcTypes, BoundsAssumption DEF Keys
  <1>3. new \in Seq(Dlcs) /\ Range(tasks[p][k].from) \subseteq Dlcs
    <2>1. new \in Seq(Dlcs)
      BY <1>2
    <2>2. Range(tasks[p][k].from) \subseteq Dlcs
      BY <1>2 DEF Range
    <2> QED BY <2>1, <2>2
  <1>4. "done" \in Steps /\ "done" # "none"
    BY DEF Steps
  <1>5. PICK o \in Keys, inbox \in Seq(RollOverMsgs) :
          o = tasks[p][k].other /\ inbox = tasks[p][k].inbox
    BY <1>2
  <1>6. tasks' = At(p, k, "done", o, inbox)
    BY <1>1, <1>5
  <1>7. /\ tasks' \in [Parties -> [Attempts -> Tasks]]
        /\ Moves(p, k, "done", o) /\ tasks'[p][k].inbox = inbox
        /\ \A q \in Parties, i \in Attempts : q # p \/ i # k => tasks'[q][i] = tasks[q][i]
    BY <1>4, <1>6, AtMoves
  <1> HIDE DEF d, new
  <1>8. TypeOK'
    <2>1. /\ dlcs' \in [Parties -> Seq(Dlcs)]
          /\ state' \in [Parties -> {"Open", "PendingCommit", "Committed"}]
          /\ alive' \in [Parties -> BOOLEAN] /\ proposed' \in BOOLEAN
          /\ offered' \in Sessions \cup {None} /\ rolling' \in [Parties -> Attempts \cup {None}]
      BY <1>1, <1>3 DEF TypeOK
    <2>2. watch' \in [Parties -> SUBSET Dlcs] /\ spy' \in [Parties -> SUBSET Dlcs]
      BY <1>1, <1>2, <1>3 DEF TypeOK
    <2>3. /\ sess' \in Sessions /\ linked' \in BOOLEAN /\ onChain' \in Dlcs \cup {None}
          /\ revealed' \in [Parties -> SUBSET Keys]
          /\ toMaker' \in [Sessions -> Seq(ToMaker)] /\ toTaker' \in Seq(ToTaker)
          /\ overlapped' \in BOOLEAN /\ restarts' \in [Parties -> 0..MaxRestarts]
          /\ timeouts' \in 0..MaxTimeouts
      BY <1>1 DEF TypeOK
    <2>4. ASSUME NEW q \in Parties, NEW i \in Attempts, rolling'[q] = i
          PROVE  tasks'[q][i].step # "none"
      <3>1. CASE q = p
        <4>1. rolling'[p] = None
          BY <1>1 DEF TypeOK
        <4> QED BY <2>4, <3>1, <4>1, NoneAssumption
      <3>2. CASE q # p
        <4>1. rolling[q] = i /\ tasks'[q][i] = tasks[q][i]
          BY <1>1, <1>7, <2>4, <3>2 DEF TypeOK
        <4> QED BY <4>1 DEF TypeOK
      <3> QED BY <3>1, <3>2
    <2> QED BY <1>7, <2>1, <2>2, <2>3, <2>4, TypesNext
  <1>9. \A q \in Parties, s \in Sessions : QueueMay(q, s)
    BY <1>1, NothingSent
  <1>10. tasks'[p][k].sess = tasks[p][k].sess /\ Begun(p, k)
    BY <1>1, <1>7 DEF Moves, Begun
  <1>11. \A q \in Parties, i \in Attempts : InboxMay(q, i)
    BY <1>5, <1>7, <1>10, OneInbox
  <1>12. p = "maker" => KeepsRolling
    BY <1>1 DEF KeepsRolling, TypeOK, Parties
  <1>13. Completes(p, k)
    BY <1>1, <1>5, <1>7, <1>12 DEF Completes, d, new
  <1> QED BY <1>1, <1>8, <1>9, <1>11, <1>13 DEF Effect, Counted
LEMMA PartyEffect ==
    ASSUME TypeOK, Counted, NEW p \in Parties, Commit(p) \/ CommitSeen(p) \/ RevokedFound(p)
    PROVE  Effect /\ Quiet
  <1>1. UNCHANGED <<dlcs, proposed, offered, tasks, watch, spy, sess, linked, toMaker, toTaker,
                    revealed, overlapped, restarts, timeouts>>
    BY DEF Commit, CommitSeen, RevokedFound, dbVars, actorVars, monVars, wireVars, histVars
  <1>2. /\ state' \in [Parties -> {"Open", "PendingCommit", "Committed"}]
        /\ alive' \in [Parties -> BOOLEAN] /\ onChain' \in Dlcs \cup {None}
        /\ onChain # None => onChain' = onChain
        /\ \A q \in Parties :
             /\ state'[q] = "Committed" => state[q] = "Committed" \/ onChain \in watch[q]
             /\ alive'[q] => alive[q] /\ rolling'[q] = rolling[q]
             /\ rolling'[q] \in {rolling[q], None}
        /\ rolling' \in [Parties -> Attempts \cup {None}]
    <2>1. CASE Commit(p)
      <3>1. Dlc(p) \in Dlcs
        <4>1. dlcs[p] \in Seq(Dlcs) /\ Len(dlcs[p]) >= 1
          BY TypesOf DEF Counted
        <4>2. Len(dlcs[p]) \in 1..Len(dlcs[p])
          BY <4>1
        <4> QED BY <4>1, <4>2 DEF Dlc, Last
      <3>2. /\ onChain \in {None, Dlc(p)} /\ onChain' = Dlc(p)
            /\ state' = [state EXCEPT ![p] = "PendingCommit"] /\ UNCHANGED <<alive, rolling>>
        BY <2>1 DEF Commit, actorVars
      <3> HIDE DEF Dlc
      <3> QED BY <3>1, <3>2 DEF TypeOK
    <2>2. CASE CommitSeen(p)
      <3>1. /\ onChain \in watch[p] /\ onChain' = onChain
            /\ state' = [state EXCEPT ![p] = "Committed"] /\ UNCHANGED <<alive, rolling>>
        BY <2>2 DEF CommitSeen, actorVars
      <3> QED BY <3>1 DEF TypeOK
    <2>3. CASE RevokedFound(p)
      <3>1. /\ alive' = [alive EXCEPT ![p] = FALSE] /\ rolling' = [rolling EXCEPT ![p] = None]
            /\ UNCHANGED <<state, onChain>>
        BY <2>3 DEF RevokedFound, dbVars
      <3> QED BY <3>1 DEF TypeOK
    <2> QED BY <2>1, <2>2, <2>3
  <1>3. TypeOK'
    <2>1. /\ dlcs' \in [Parties -> Seq(Dlcs)] /\ proposed' \in BOOLEAN
          /\ offered' \in Sessions \cup {None}
          /\ tasks' \in [Parties -> [Attempts -> Tasks]]
          /\ watch' \in [Parties -> SUBSET Dlcs] /\ spy' \in [Parties -> SUBSET Dlcs]
          /\ sess' \in Sessions /\ linked' \in BOOLEAN
          /\ revealed' \in [Parties -> SUBSET Keys]
          /\ toMaker' \in [Sessions -> Seq(ToMaker)] /\ toTaker' \in Seq(ToTaker)
          /\ overlapped' \in BOOLEAN /\ restarts' \in [Parties -> 0..MaxRestarts]
          /\ timeouts' \in 0..MaxTimeouts
      BY <1>1 DEF TypeOK
    <2>2. ASSUME NEW q \in Parties, NEW i \in Attempts, rolling'[q] = i
          PROVE  tasks'[q][i].step # "none"
      <3>1. rolling[q] = i
        BY <1>2, <2>2, NoneAssumption
      <3> QED BY <1>1, <3>1 DEF TypeOK
    <2> QED BY <1>2, <2>1, <2>2, TypesNext
  <1>4. \A q \in Parties, s \in Sessions : QueueMay(q, s)
    BY <1>1, NothingSent
  <1>5. \A q \in Parties, i \in Attempts : InboxMay(q, i)
    BY <1>1, NoInbox
  <1>6. Quiet
    BY <1>1, <1>2, TypesOf DEF Quiet, Same, KeepsRolling, KeepsWatch
  <1> QED BY <1>1, <1>3, <1>4, <1>5, <1>6 DEF Effect, Counted

LEMMA RestartEffect ==
    ASSUME TypeOK, Counted, NEW p \in Parties,
           (p = "maker" /\ MakerRestarts) \/ (p = "taker" /\ TakerRestarts)
    PROVE  Effect /\ StopsAll(p)
  <1>1. Restarts(p) /\ UNCHANGED <<dlcs, state, onChain, revealed, overlapped, timeouts>>
    BY DEF MakerRestarts, TakerRestarts, dbVars
  <1>2. /\ restarts[p] < MaxRestarts
        /\ restarts' = [restarts EXCEPT ![p] = restarts[p] + 1]
        /\ alive' = [alive EXCEPT ![p] = TRUE]
        /\ rolling' = [rolling EXCEPT ![p] = None]
        /\ watch' = [watch EXCEPT ![p] = IF state[p] = "Committed" THEN {} ELSE {Dlc(p)}]
        /\ spy' = [spy EXCEPT ![p] = {}]
        /\ tasks' = [tasks EXCEPT ![p] = [k \in Attempts |->
             IF Waiting(p, k) \/ tasks[p][k].step = "ok"
             THEN Moved(p, k, "failed", tasks[p][k].other, <<>>) ELSE tasks[p][k]]]
    BY <1>1 DEF Restarts
  <1>3. /\ proposed' \in BOOLEAN /\ offered' \in Sessions \cup {None}
        /\ linked' \in BOOLEAN /\ sess' \in Sessions /\ sess' = restarts'["taker"] + 1
        /\ toMaker' \in [Sessions -> Seq(ToMaker)] /\ toTaker' \in Seq(ToTaker)
        /\ restarts' \in [Parties -> 0..MaxRestarts]
        /\ \A q \in Parties, s \in Sessions : Incoming(q, s)' \in {Incoming(q, s), <<>>}
    <2>1. restarts \in [Parties -> 0..MaxRestarts] /\ MaxRestarts \in Nat
      BY BoundsAssumption DEF TypeOK
    <2>2. /\ restarts' \in [Parties -> 0..MaxRestarts] /\ restarts'[p] = restarts[p] + 1
          /\ \A q \in Parties : q # p => restarts'[q] = restarts[q]
      BY <1>2, <2>1
    <2>3. CASE p = "maker" /\ MakerRestarts
      <3>1. /\ offered' = None /\ linked' = FALSE /\ toMaker' = [s \in Sessions |-> <<>>]
            /\ UNCHANGED <<proposed, sess, toTaker>>
        BY <2>3 DEF MakerRestarts
      <3>2. restarts'["taker"] = restarts["taker"]
        BY <2>2, <2>3 DEF Parties
      <3>3. toMaker' \in [Sessions -> Seq(ToMaker)]
        BY <3>1
      <3> QED BY <2>2, <3>1, <3>2, <3>3 DEF TypeOK, Counted, Incoming
    <2>4. CASE p = "taker" /\ TakerRestarts
      <3>1. /\ proposed' = FALSE /\ linked' = TRUE /\ toTaker' = <<>> /\ sess' = sess + 1
            /\ UNCHANGED <<offered, toMaker>>
        BY <2>4 DEF TakerRestarts
      <3>2. sess' = restarts'["taker"] + 1 /\ sess' \in Sessions
        <4>1. sess = restarts["taker"] + 1 /\ restarts["taker"] \in 0..MaxRestarts
          BY <2>1, <2>4 DEF Counted
        <4> QED BY <1>2, <2>1, <2>2, <2>4, <3>1, <4>1 DEF Sessions
      <3>3. toTaker' \in Seq(ToTaker)
        BY <3>1
      <3> QED BY <2>2, <3>1, <3>2, <3>3 DEF TypeOK, Incoming
    <2> QED BY <2>3, <2>4
  <1>4. /\ tasks' \in [Parties -> [Attempts -> Tasks]]
        /\ \A q \in Parties, i \in Attempts :
             IF q = p /\ Runs(p, i)
             THEN /\ tasks'[q][i].step = "failed" /\ tasks'[q][i].from = tasks[q][i].from
                  /\ tasks'[q][i].sess = tasks[q][i].sess /\ tasks'[q][i].other = tasks[q][i].other
                  /\ tasks'[q][i].inbox = <<>>
             ELSE tasks'[q][i] = tasks[q][i]
    <2> DEFINE f == [k \in Attempts |->
                  IF Runs(p, k)
                  THEN Moved(p, k, "failed", tasks[p][k].other, <<>>) ELSE tasks[p][k]]
    <2>1. f \in [Attempts -> Tasks]
      <3>1. ASSUME NEW k \in Attempts
            PROVE  Moved(p, k, "failed", tasks[p][k].other, <<>>) \in Tasks /\ tasks[p][k] \in Tasks
        <4>1. <<>> \in Seq(RollOverMsgs)
          OBVIOUS
        <4> QED BY <4>1, TypesOf DEF Moved, Tasks
      <3> QED BY <3>1
    <2>2. \A k \in Attempts :
            IF Runs(p, k)
            THEN /\ f[k].step = "failed" /\ f[k].from = tasks[p][k].from
                 /\ f[k].sess = tasks[p][k].sess /\ f[k].other = tasks[p][k].other
                 /\ f[k].inbox = <<>>
            ELSE f[k] = tasks[p][k]
      BY DEF Moved
    <2>3. tasks' = [tasks EXCEPT ![p] = f]
      BY <1>2 DEF Runs
    <2> HIDE DEF f
    <2>4. /\ tasks' \in [Parties -> [Attempts -> Tasks]] /\ tasks'[p] = f
          /\ \A q \in Parties : q # p => tasks'[q] = tasks[q]
      BY <2>1, <2>3 DEF TypeOK
    <2> QED BY <2>2, <2>4
  <1>5. Dlc(p) \in Dlcs
    <2>1. dlcs[p] \in Seq(Dlcs) /\ Len(dlcs[p]) >= 1
      BY TypesOf DEF Counted
    <2>2. Len(dlcs[p]) \in 1..Len(dlcs[p])
      BY <2>1
    <2> QED BY <2>1, <2>2 DEF Dlc, Last
  <1>6. TypeOK'
    <2>1. /\ dlcs' \in [Parties -> Seq(Dlcs)]
          /\ state' \in [Parties -> {"Open", "PendingCommit", "Committed"}]
          /\ onChain' \in Dlcs \cup {None} /\ revealed' \in [Parties -> SUBSET Keys]
          /\ overlapped' \in BOOLEAN /\ timeouts' \in 0..MaxTimeouts
      BY <1>1 DEF TypeOK
    <2>2. /\ alive' \in [Parties -> BOOLEAN] /\ spy' \in [Parties -> SUBSET Dlcs]
          /\ rolling' \in [Parties -> Attempts \cup {None}]
      BY <1>2 DEF TypeOK
    <2>3. watch' \in [Parties -> SUBSET Dlcs]
      BY <1>2, <1>5 DEF TypeOK
    <2>4. ASSUME NEW q \in Parties, NEW i \in Attempts, rolling'[q] = i
          PROVE  tasks'[q][i].step # "none"
      <3>1. q # p /\ rolling[q] = i
        <4>1. rolling'[p] = None /\ \A r \in Parties : r # p => rolling'[r] = rolling[r]
          BY <1>2 DEF TypeOK
        <4> QED BY <2>4, <4>1, NoneAssumption
      <3>2. tasks'[q][i] = tasks[q][i]
        BY <1>4, <3>1
      <3> QED BY <3>1, <3>2 DEF TypeOK
    <2> QED BY <1>3, <1>4, <2>1, <2>2, <2>3, <2>4, TypesNext
  <1>7. \A q \in Parties, s \in Sessions : QueueMay(q, s)
    BY <1>3 DEF QueueMay
  <1>8. ASSUME NEW q \in Parties, NEW i \in Attempts
        PROVE  InboxMay(q, i)
    <2>1. /\ Begun(q, i) => tasks'[q][i].sess = tasks[q][i].sess
          /\ tasks'[q][i].inbox \in {tasks[q][i].inbox, <<>>}
      BY <1>4
    <2>2. ~Begun(q, i) => tasks[q][i].inbox = <<>>
      BY DEF Counted
    <2> QED BY <2>1, <2>2 DEF InboxMay
  <1>9. StopsAll(p)
    <2>1. p = "maker" => KeepsRolling
      BY <1>2 DEF KeepsRolling, TypeOK, Parties
    <2>2. KeepsWatch
      <3>1. \A q \in Parties : watch'[q] \in {watch[q], {}, {Dlc(q)}}
        BY <1>2 DEF TypeOK
      <3> QED BY <1>1, <3>1 DEF KeepsWatch
    <2>3. \A q \in Parties, i \in Attempts :
         IF q = p /\ Runs(p, i)
         THEN /\ tasks'[q][i].step = "failed" /\ tasks'[q][i].from = tasks[q][i].from
              /\ tasks'[q][i].sess = tasks[q][i].sess /\ tasks'[q][i].other = tasks[q][i].other
         ELSE Same(q, i)
      BY <1>4 DEF Same
    <2> QED BY <1>1, <2>1, <2>2, <2>3 DEF StopsAll
  <1> QED BY <1>3, <1>6, <1>7, <1>8, <1>9 DEF Effect

(* Every step has one of the shapes.                                       *)
LEMMA StepShape ==
    ASSUME TypeOK, Counted, [Next]_vars
    PROVE  Effect /\ Shape
  <1>1. ASSUME ProposalStep
        PROVE  Effect /\ Shape
    <2>1. ProposeRollOver => Effect /\ Quiet
      BY ProposeEffect
    <2>2. AcceptRollOver => Effect /\ \E k \in Attempts : Begins("maker", k)
      BY AcceptEffect
    <2>3. RejectRollOver => Effect /\ Quiet
      BY RejectEffect
    <2>4. \A s \in Sessions : HandleProposeRollOver(s) => Effect /\ Quiet
      BY HandleProposeEffect
    <2>5. HandleRollOverAccepted => Effect /\ \E k \in Attempts : Begins("taker", k)
      BY HandleAcceptedEffect
    <2>6. HandleRollOverRejected => Effect /\ Quiet
      BY HandleRejectedEffect
    <2>7. \A announced \in BOOLEAN : RefuseRollOver(announced) => Effect /\ Quiet
      BY RefuseEffect
    <2>8. \A p \in Parties : (\E k \in Attempts : Begins(p, k)) => Shape
      BY DEF Shape
    <2>9. "maker" \in Parties /\ "taker" \in Parties /\ (Quiet => Shape)
      BY DEF Parties, Shape
    <2> HIDE DEF Shape, Effect
    <2> QED BY <1>1, <2>1, <2>2, <2>3, <2>4, <2>5, <2>6, <2>7, <2>8, <2>9 DEF ProposalStep
  <1>2. ASSUME NEW p \in Parties, NEW k \in Attempts, AttemptStep(p, k)
        PROVE  Effect /\ Shape
    <2>1. ReceiveMsg0(p, k) => Effect /\ \E x \in Keys : TakesKey(p, k, x)
      BY ReceiveMsg0Effect
    <2>2. ReceiveMsg1(p, k) => Effect /\ TakesSignature(p, k)
      BY ReceiveMsg1Effect
    <2>3. ReceiveMsg2(p, k) => Effect /\ TakesSecret(p, k)
      BY ReceiveMsg2Effect
    <2>4. ReceiveWrong(p, k) \/ LosesSender(p, k) \/ TimesOut(p, k) => Effect /\ FailsAt(p, k)
      BY FailEffect
    <2>5. RollOverCompleted(p, k) => Effect /\ Completes(p, k)
      BY CompletedEffect
    <2>6. \/ \E x \in Keys : TakesKey(p, k, x)
          \/ TakesSignature(p, k) \/ TakesSecret(p, k) \/ FailsAt(p, k) \/ Completes(p, k)
          => Shape
      BY DEF Shape
    <2> QED BY <1>2, <2>1, <2>2, <2>3, <2>4, <2>5, <2>6 DEF AttemptStep
  <1>3. ASSUME NEW p \in Parties, PartyStep(p)
        PROVE  Effect /\ Shape
    <2>1. Effect /\ Quiet
      BY <1>3, PartyEffect DEF PartyStep
    <2> QED BY <2>1 DEF Shape
  <1>4. ASSUME MakerRestarts \/ TakerRestarts
        PROVE  Effect /\ Shape
    <2>1. PICK p \in Parties : (p = "maker" /\ MakerRestarts) \/ (p = "taker" /\ TakerRestarts)
      BY <1>4 DEF Parties
    <2>2. Effect /\ StopsAll(p)
      BY <2>1, RestartEffect
    <2> QED BY <2>2 DEF Shape
  <1>5. ASSUME NEW s \in Sessions, MakerHandlesProtocolMsg(s)
        PROVE  Effect /\ Shape
    <2>1. Effect /\ Quiet
      BY <1>5, MakerHandlesEffect
    <2> QED BY <2>1 DEF Shape
  <1>6. ASSUME TakerHandlesProtocolMsg
        PROVE  Effect /\ Shape
    <2>1. Effect /\ Quiet
      BY <1>6, TakerHandlesEffect
    <2> QED BY <2>1 DEF Shape
  <1>7. ASSUME UNCHANGED vars
        PROVE  Effect /\ Shape
    <2>1. /\ UNCHANGED <<dbVars, alive, rolling, tasks, monVars, sess, linked, onChain, histVars>>
          /\ proposed' = proposed /\ offered' = offered /\ UNCHANGED <<toMaker, toTaker>>
      BY <1>7 DEF vars, actorVars, wireVars
    <2>2. /\ proposed' \in BOOLEAN /\ offered' \in Sessions \cup {None}
          /\ toMaker' \in [Sessions -> Seq(ToMaker)] /\ toTaker' \in Seq(ToTaker)
          /\ \A p \in Parties, s \in Sessions : QueueMay(p, s)
      BY <2>1, NothingSent DEF TypeOK
    <2>3. Effect /\ Quiet
      BY <2>1, <2>2, OnlyNotices
    <2> QED BY <2>3 DEF Shape
  <1> QED BY <1>1, <1>2, <1>3, <1>4, <1>5, <1>6, <1>7 DEF Next
-----------------------------------------------------------------------------
(* What one attempt may do, and what no step takes back.                   *)

Stopped(p, k) ==
    /\ StopsAll(p) /\ Runs(p, k)
    /\ tasks'[p][k].step = "failed" /\ tasks'[p][k].from = tasks[p][k].from
    /\ tasks'[p][k].sess = tasks[p][k].sess /\ tasks'[p][k].other = tasks[p][k].other

LEMMA OneMove ==
    ASSUME Shape, NEW p \in Parties, NEW k \in Attempts
    PROVE  \/ Same(p, k)
           \/ Begins(p, k)
           \/ \E x \in Keys : TakesKey(p, k, x)
           \/ TakesSignature(p, k) \/ TakesSecret(p, k)
           \/ FailsAt(p, k) \/ Completes(p, k) \/ Stopped(p, k)
  <1>1. CASE Quiet
    BY <1>1 DEF Quiet
  <1>2. ASSUME NEW q \in Parties, StopsAll(q)
        PROVE  Same(p, k) \/ Stopped(p, k)
    BY <1>2 DEF StopsAll, Stopped
  <1>3. ASSUME NEW q \in Parties, NEW i \in Attempts, p # q \/ k # i,
               \/ Begins(q, i) \/ \E x \in Keys : TakesKey(q, i, x)
               \/ TakesSignature(q, i) \/ TakesSecret(q, i) \/ FailsAt(q, i) \/ Completes(q, i)
        PROVE  Same(p, k)
    <2>1. CASE Begins(q, i)
      BY <1>3, <2>1 DEF Begins
    <2>2. CASE \E x \in Keys : TakesKey(q, i, x)
      BY <1>3, <2>2 DEF TakesKey, Moves
    <2>3. CASE TakesSignature(q, i)
      BY <1>3, <2>3 DEF TakesSignature, Moves
    <2>4. CASE TakesSecret(q, i)
      BY <1>3, <2>4 DEF TakesSecret, Moves
    <2>5. CASE FailsAt(q, i)
      BY <1>3, <2>5 DEF FailsAt, Moves
    <2>6. CASE Completes(q, i)
      BY <1>3, <2>6 DEF Completes, Moves
    <2> QED BY <1>3, <2>1, <2>2, <2>3, <2>4, <2>5, <2>6
  <1> QED BY <1>1, <1>2, <1>3 DEF Shape

(* How an attempt's step changes tells what it does.                       *)
LEMMA StepTells ==
    ASSUME TypeOK, Counted, Shape, NEW p \in Parties, NEW k \in Attempts
    PROVE  /\ tasks[p][k].step = "none" /\ tasks'[p][k].step = "msg0" => Begins(p, k)
           /\ tasks[p][k].step = "msg0" /\ tasks'[p][k].step = "msg1" =>
                \E x \in Keys : TakesKey(p, k, x) /\ tasks'[p][k].other = x
           /\ tasks[p][k].step = "msg1" /\ tasks'[p][k].step = "msg2" => TakesSignature(p, k)
           /\ tasks'[p][k].step = "msg2" => tasks[p][k].step = "msg2" \/ TakesSignature(p, k)
           /\ tasks'[p][k].step = "ok" => tasks[p][k].step = "ok" \/ TakesSecret(p, k)
           /\ tasks'[p][k].step = "done" => tasks[p][k].step = "done" \/ Completes(p, k)
           /\ Runs(p, k)' => Runs(p, k) \/ Begins(p, k)
           /\ tasks[p][k].step \in {"done", "failed"} => Same(p, k)
           /\ tasks'[p][k].step \in {"msg1", "msg2", "ok", "done"} =>
                \/ tasks[p][k].step \in {"msg1", "msg2", "ok", "done"}
                \/ \E x \in Keys : TakesKey(p, k, x) /\ tasks'[p][k].other = x
           /\ tasks'[p][k].step \in {"msg2", "ok", "done"} =>
                tasks[p][k].step \in {"msg2", "ok", "done"} \/ TakesSignature(p, k)
  <1>1. CASE Same(p, k)
    BY <1>1 DEF Same, Runs, Waiting
  <1>2. CASE Begins(p, k)
    BY <1>2 DEF Begins, NextAttempt
  <1>3. CASE \E x \in Keys : TakesKey(p, k, x)
    <2>1. PICK x \in Keys : TakesKey(p, k, x)
      BY <1>3
    <2>2. tasks[p][k].step = "msg0" /\ tasks'[p][k].step = "msg1" /\ tasks'[p][k].other = x
      BY <2>1 DEF TakesKey, Moves
    <2> QED BY <2>1, <2>2 DEF Runs, Waiting
  <1>4. CASE TakesSignature(p, k)
    <2>1. tasks[p][k].step = "msg1" /\ tasks'[p][k].step = "msg2"
      BY <1>4 DEF TakesSignature, Moves
    <2> QED BY <1>4, <2>1 DEF Runs, Waiting
  <1>5. CASE TakesSecret(p, k)
    <2>1. tasks[p][k].step = "msg2" /\ tasks'[p][k].step = "ok"
      BY <1>5 DEF TakesSecret, Moves
    <2> QED BY <1>5, <2>1 DEF Runs, Waiting
  <1>6. CASE FailsAt(p, k) \/ Stopped(p, k)
    <2>1. Runs(p, k) /\ tasks'[p][k].step = "failed"
      BY <1>6 DEF FailsAt, Moves, Stopped
    <2> QED BY <2>1 DEF Runs, Waiting
  <1>7. CASE Completes(p, k)
    <2>1. tasks[p][k].step = "ok" /\ tasks'[p][k].step = "done"
      BY <1>7 DEF Completes, Moves
    <2> QED BY <1>7, <2>1 DEF Runs, Waiting
  <1> QED BY <1>1, <1>2, <1>3, <1>4, <1>5, <1>6, <1>7, OneMove

(* What an attempt began from stays, and so does the key it took.          *)
LEMMA Stays ==
    ASSUME TypeOK, Counted, Shape, NEW p \in Parties, NEW k \in Attempts
    PROVE  /\ Begun(p, k) =>
                /\ Begun(p, k)' /\ tasks'[p][k].from = tasks[p][k].from
                /\ tasks'[p][k].sess = tasks[p][k].sess
           /\ Begun(p, k)' => Begun(p, k) \/ Begins(p, k)
           /\ ~Begun(p, k) => tasks[p][k].other = 0
           /\ tasks[p][k].other # 0 => tasks'[p][k].other = tasks[p][k].other
           /\ tasks'[p][k].other # tasks[p][k].other =>
                \E x \in Keys : TakesKey(p, k, x) /\ tasks'[p][k].other = x
  <1>1. /\ tasks[p][k].step \in {"none", "msg0"} => tasks[p][k].other = 0
    BY DEF Counted
  <1>2. CASE Same(p, k)
    BY <1>1, <1>2 DEF Same, Begun
  <1>3. CASE Begins(p, k)
    BY <1>1, <1>3 DEF Begins, NextAttempt, Begun
  <1>4. CASE \E x \in Keys : TakesKey(p, k, x)
    <2>1. PICK x \in Keys : TakesKey(p, k, x)
      BY <1>4
    <2>2. /\ tasks[p][k].step = "msg0" /\ tasks'[p][k].step = "msg1" /\ tasks'[p][k].other = x
          /\ tasks'[p][k].from = tasks[p][k].from /\ tasks'[p][k].sess = tasks[p][k].sess
      BY <2>1 DEF TakesKey, Moves
    <2> QED BY <1>1, <2>1, <2>2 DEF Begun
  <1>5. CASE \/ TakesSignature(p, k) \/ TakesSecret(p, k)
             \/ FailsAt(p, k) \/ Completes(p, k) \/ Stopped(p, k)
    <2>1. /\ tasks[p][k].step # "none" /\ tasks'[p][k].step # "none"
          /\ tasks'[p][k].other = tasks[p][k].other
          /\ tasks'[p][k].from = tasks[p][k].from /\ tasks'[p][k].sess = tasks[p][k].sess
      <3>1. CASE TakesSignature(p, k)
        BY <3>1 DEF TakesSignature, Moves
      <3>2. CASE TakesSecret(p, k)
        BY <3>2 DEF TakesSecret, Moves
      <3>3. CASE FailsAt(p, k)
        BY <3>3 DEF FailsAt, Moves, Runs, Waiting
      <3>4. CASE Completes(p, k)
        BY <3>4 DEF Completes, Moves
      <3>5. CASE Stopped(p, k)
        BY <3>5 DEF Stopped, Runs, Waiting
      <3> QED BY <1>5, <3>1, <3>2, <3>3, <3>4, <3>5
    <2> QED BY <1>1, <2>1 DEF Begun
  <1> QED BY <1>2, <1>3, <1>4, <1>5, OneMove

(* The contracts and the secrets given away.                               *)
LEMMA Grows ==
    ASSUME TypeOK, Shape
    PROVE  /\ \A p \in Parties : revealed[p] \subseteq revealed'[p]
           /\ overlapped => overlapped'
           /\ \A p \in Parties : revealed'[p] # revealed[p] =>
                \E k \in Attempts : /\ TakesSignature(p, k)
                                    /\ revealed'[p] = revealed[p] \cup {Revokes(p, k, p)}
           /\ \A p \in Parties : dlcs'[p] # dlcs[p] =>
                \E k \in Attempts : /\ Completes(p, k)
                                    /\ dlcs'[p] = Append(tasks[p][k].from, Built(p, k))
           /\ dlcs' = dlcs \/ \E p \in Parties, k \in Attempts : Completes(p, k)
  <1>1. CASE UNCHANGED <<dlcs, revealed>> /\ (overlapped => overlapped')
    BY <1>1
  <1>2. ASSUME NEW p \in Parties, NEW k \in Attempts, TakesSignature(p, k)
        PROVE  /\ dlcs' = dlcs /\ overlapped' = overlapped
               /\ revealed'[p] = revealed[p] \cup {Revokes(p, k, p)}
               /\ \A q \in Parties : q # p => revealed'[q] = revealed[q]
    BY <1>2 DEF TakesSignature, TypeOK
  <1>3. ASSUME NEW p \in Parties, NEW k \in Attempts, Completes(p, k)
        PROVE  /\ revealed' = revealed /\ overlapped' = overlapped
               /\ dlcs'[p] = Append(tasks[p][k].from, Built(p, k))
               /\ \A q \in Parties : q # p => dlcs'[q] = dlcs[q]
    BY <1>3 DEF Completes, TypeOK
  <1>4. \/ UNCHANGED <<dlcs, revealed>> /\ (overlapped => overlapped')
        \/ \E p \in Parties, k \in Attempts : TakesSignature(p, k) \/ Completes(p, k)
    <2>1. Quiet \/ (\E p \in Parties : StopsAll(p)) => UNCHANGED <<dlcs, revealed, overlapped>>
      BY DEF Quiet, StopsAll
    <2>2. \A p \in Parties, k \in Attempts :
            \/ Begins(p, k) \/ \E x \in Keys : TakesKey(p, k, x)
            \/ TakesSecret(p, k) \/ FailsAt(p, k)
            => UNCHANGED <<dlcs, revealed>> /\ (overlapped => overlapped')
      BY DEF Begins, TakesKey, TakesSecret, FailsAt
    <2> QED BY <2>1, <2>2 DEF Shape
  <1>5. CASE \E p \in Parties, k \in Attempts : TakesSignature(p, k)
    BY <1>2, <1>5
  <1>6. CASE \E p \in Parties, k \in Attempts : Completes(p, k)
    BY <1>3, <1>6
  <1> QED BY <1>1, <1>4, <1>5, <1>6

(* Who says what.                                                          *)
LEMMA Speakers ==
    ASSUME TypeOK, Counted, Shape, NEW p \in Parties
    PROVE  /\ \A x \in Keys : Says(p, Msg0(x)) => x \in Attempts /\ Begins(p, x)
           /\ \A d \in Dlcs : Says(p, Msg1(d)) =>
                \E k \in Attempts, x \in Keys :
                  TakesKey(p, k, x) /\ tasks'[p][k].other = x /\ d = DlcOf(p, k, x)
           /\ \A x \in Keys : Says(p, Msg2(x)) =>
                \E k \in Attempts : TakesSignature(p, k) /\ x = Revokes(p, k, p)
  <1>1. ASSUME NEW x \in Keys, Says(p, Msg0(x))
        PROVE  x \in Attempts /\ Begins(p, x)
    <2>1. PICK k \in Attempts :
            Msg0(x) = Msg0(k) /\ tasks[p][k].step = "none" /\ tasks'[p][k].step = "msg0"
      <3>1. PICK k \in Attempts :
              \/ /\ Msg0(x) = Msg0(k)
                 /\ tasks[p][k].step = "none" /\ tasks'[p][k].step = "msg0"
              \/ Msg0(x) = Msg1(DlcOf(p, k, tasks'[p][k].other))
              \/ Msg0(x) = Msg2(Revokes(p, k, p))
        BY <1>1 DEF Says
      <3> QED BY <3>1, Distinct
    <2>2. x = k
      BY <2>1, Distinct
    <2>3. Begins(p, k)
      BY <2>1, StepTells
    <2> QED BY <2>2, <2>3
  <1>2. ASSUME NEW d \in Dlcs, Says(p, Msg1(d))
        PROVE  \E k \in Attempts, x \in Keys :
                 TakesKey(p, k, x) /\ tasks'[p][k].other = x /\ d = DlcOf(p, k, x)
    <2>1. PICK k \in Attempts : /\ Msg1(d) = Msg1(DlcOf(p, k, tasks'[p][k].other))
                                /\ tasks[p][k].step = "msg0" /\ tasks'[p][k].step = "msg1"
      <3>1. PICK k \in Attempts :
              \/ Msg1(d) = Msg0(k)
              \/ /\ Msg1(d) = Msg1(DlcOf(p, k, tasks'[p][k].other))
                 /\ tasks[p][k].step = "msg0" /\ tasks'[p][k].step = "msg1"
              \/ Msg1(d) = Msg2(Revokes(p, k, p))
        BY <1>2 DEF Says
      <3> QED BY <3>1, Distinct
    <2>2. d = DlcOf(p, k, tasks'[p][k].other)
      BY <2>1, Distinct
    <2>3. PICK x \in Keys : TakesKey(p, k, x) /\ tasks'[p][k].other = x
      BY <2>1, StepTells
    <2> QED BY <2>2, <2>3
  <1>3. ASSUME NEW x \in Keys, Says(p, Msg2(x))
        PROVE  \E k \in Attempts : TakesSignature(p, k) /\ x = Revokes(p, k, p)
    <2>1. PICK k \in Attempts : /\ Msg2(x) = Msg2(Revokes(p, k, p))
                                /\ tasks[p][k].step = "msg1" /\ tasks'[p][k].step = "msg2"
      <3>1. PICK k \in Attempts :
              \/ Msg2(x) = Msg0(k)
              \/ Msg2(x) = Msg1(DlcOf(p, k, tasks'[p][k].other))
              \/ /\ Msg2(x) = Msg2(Revokes(p, k, p))
                 /\ tasks[p][k].step = "msg1" /\ tasks'[p][k].step = "msg2"
        BY <1>3 DEF Says
      <3> QED BY <3>1, Distinct
    <2>2. x = Revokes(p, k, p)
      BY <2>1, Distinct
    <2>3. TakesSignature(p, k)
      BY <2>1, StepTells
    <2> QED BY <2>2, <2>3
  <1> QED BY <1>1, <1>2, <1>3
-----------------------------------------------------------------------------
(* Every step keeps the invariant, one conjunct after the other.           *)

LEMMA CountedStep ==
    ASSUME TypeOK, Counted, Effect, Shape
    PROVE  Counted'
  <1>1. sess' = restarts'["taker"] + 1
    BY DEF Effect
  <1>2. ASSUME NEW p \in Parties
        PROVE  Len(dlcs'[p]) >= 1
    <2>1. CASE dlcs'[p] = dlcs[p]
      BY <2>1 DEF Counted
    <2>2. CASE dlcs'[p] # dlcs[p]
      <3>1. PICK k \in Attempts : dlcs'[p] = Append(tasks[p][k].from, Built(p, k))
        BY <2>2, Grows
      <3>2. tasks[p][k].from \in Seq(Dlcs)
        BY TypesOf
      <3>3. Len(Append(tasks[p][k].from, Built(p, k))) = Len(tasks[p][k].from) + 1
        BY <3>2
      <3> QED BY <3>1, <3>2, <3>3
    <2> QED BY <2>1, <2>2
  <1>3. ASSUME NEW p \in Parties, NEW k \in Attempts
        PROVE  /\ Len(tasks'[p][k].from) >= 1
               /\ tasks'[p][k].step \in {"none", "msg0"} => tasks'[p][k].other = 0
               /\ ~Begun(p, k)' => tasks'[p][k].inbox = <<>>
               /\ \A i \in Attempts : i < k /\ Begun(p, k)' => Begun(p, i)'
    <2>1. /\ Len(tasks[p][k].from) >= 1 /\ Len(dlcs[p]) >= 1
          /\ tasks[p][k].step \in {"none", "msg0"} => tasks[p][k].other = 0
          /\ ~Begun(p, k) => tasks[p][k].inbox = <<>>
          /\ \A i \in Attempts : i < k /\ Begun(p, k) => Begun(p, i)
      BY DEF Counted
    <2>2. Len(tasks'[p][k].from) >= 1
      <3>1. CASE Begun(p, k)
        BY <2>1, <3>1, Stays
      <3>2. CASE Same(p, k)
        BY <2>1, <3>2 DEF Same
      <3>3. CASE Begins(p, k)
        BY <2>1, <3>3 DEF Begins
      <3>4. ~Begun(p, k) => Same(p, k) \/ Begins(p, k)
        BY OneMove DEF Begun, TakesKey, TakesSignature, TakesSecret, FailsAt, Completes,
                       Stopped, Runs, Waiting
      <3> QED BY <3>1, <3>2, <3>3, <3>4
    <2>3. ASSUME tasks'[p][k].step \in {"none", "msg0"}
          PROVE  tasks'[p][k].other = 0
      <3>1. CASE Same(p, k)
        BY <2>1, <2>3, <3>1 DEF Same
      <3>2. CASE Begins(p, k)
        BY <3>2 DEF Begins
      <3>3. Same(p, k) \/ Begins(p, k)
        BY <2>3, OneMove DEF TakesKey, TakesSignature, TakesSecret, FailsAt, Completes,
                             Stopped, Moves
      <3> QED BY <3>1, <3>2, <3>3
    <2>4. ASSUME ~Begun(p, k)'
          PROVE  tasks'[p][k].inbox = <<>>
      <3>1. ~Begun(p, k)
        BY <2>4, Stays
      <3> QED BY <3>1 DEF Effect, InboxMay
    <2>5. ASSUME NEW i \in Attempts, i < k, Begun(p, k)'
          PROVE  Begun(p, i)'
      <3>1. CASE Begun(p, k)
        BY <2>1, <2>5, <3>1, Stays
      <3>2. CASE Begins(p, k)
        <4>1. i \in 1..(k - 1)
          BY <2>5 DEF Attempts
        <4>2. Begun(p, i)
          BY <3>2, <4>1 DEF Begins, NextAttempt, Begun
        <4> QED BY <4>2, Stays
      <3> QED BY <2>5, <3>1, <3>2, Stays
    <2> QED BY <2>2, <2>3, <2>4, <2>5
  <1> QED BY <1>1, <1>2, <1>3 DEF Counted, Begun

(* A history with one contract more is held if the one before was, and the *)
(* secret of what was its last.                                            *)
LEMMA HeldAppend ==
    ASSUME NEW p \in Parties, NEW h \in Seq(Dlcs), NEW c \in Dlcs, Len(h) >= 1,
           Held(p, h), Last(h)[Other(p)] \in revealed[Other(p)]
    PROVE  Held(p, Append(h, c))
  <1> DEFINE g == Append(h, c)
  <1>1. Len(g) = Len(h) + 1 /\ Len(h) \in Nat /\ \A i \in 1..Len(h) : g[i] = h[i]
    OBVIOUS
  <1> HIDE DEF g
  <1>2. ASSUME NEW i \in 1..(Len(g) - 1)
        PROVE  g[i][Other(p)] \in revealed[Other(p)]
    <2>1. i \in 1..Len(h) /\ (i \in 1..(Len(h) - 1) \/ i = Len(h))
      BY <1>1
    <2>2. CASE i \in 1..(Len(h) - 1)
      BY <1>1, <2>1, <2>2 DEF Held
    <2>3. CASE i = Len(h)
      BY <1>1, <2>1, <2>3 DEF Last
    <2> QED BY <2>1, <2>2, <2>3
  <1> QED BY <1>2 DEF Held, g

LEMMA SecretsStep ==
    ASSUME TypeOK, Counted, Secrets, Shape, QueueStep, InboxStep
    PROVE  Secrets'
  <1>1. \A p \in Parties : revealed[p] \subseteq revealed'[p] /\ Other(p) \in Parties
    BY Grows, TypesOf
  <1>2. ASSUME NEW p \in Parties, NEW h, Held(p, h)
        PROVE  Held(p, h)'
    BY <1>1, <1>2 DEF Held
  <1>3. ASSUME NEW p \in Parties, NEW s \in Sessions, NEW x \in Keys, InQueue(p, s, Msg2(x))'
        PROVE  x \in revealed'[Other(p)]
    <2>1. Msg2(x) \in RollOverMsgs
      BY Messages
    <2>2. InQueue(p, s, Msg2(x)) \/ Says(Other(p), Msg2(x))
      BY <1>3, <2>1 DEF QueueStep
    <2>3. CASE InQueue(p, s, Msg2(x))
      BY <1>1, <2>3 DEF Secrets
    <2>4. CASE Says(Other(p), Msg2(x))
      <3>1. PICK k \in Attempts : TakesSignature(Other(p), k) /\ x = Revokes(Other(p), k, Other(p))
        BY <1>1, <2>4, Speakers
      <3> QED BY <1>1, <3>1 DEF TakesSignature, TypeOK
    <2> QED BY <2>2, <2>3, <2>4
  <1>4. ASSUME NEW p \in Parties, NEW k \in Attempts, NEW x \in Keys, InInbox(p, k, Msg2(x))'
        PROVE  x \in revealed'[Other(p)]
    <2>1. Msg2(x) \in RollOverMsgs
      BY Messages
    <2>2. Hears(p, k, Msg2(x)) /\ tasks[p][k].sess \in Sessions
      BY <1>4, <2>1, TypesOf DEF InboxStep
    <2>3. x \in revealed[Other(p)]
      BY <2>2 DEF Hears, Secrets
    <2> QED BY <1>1, <2>3
  <1>5. ASSUME NEW p \in Parties, NEW k \in Attempts, tasks'[p][k].step = "ok"
        PROVE  Revokes(p, k, Other(p))' \in revealed'[Other(p)]
    <2>1. tasks[p][k].step = "ok" \/ TakesSecret(p, k)
      BY <1>5, StepTells
    <2>2. Begun(p, k)
      BY <2>1 DEF Begun, TakesSecret
    <2>3. Revokes(p, k, Other(p))' = Revokes(p, k, Other(p))
      BY <2>2, Stays DEF Revokes
    <2>4. Revokes(p, k, Other(p)) \in revealed[Other(p)]
      <3>1. CASE tasks[p][k].step = "ok"
        BY <3>1 DEF Secrets
      <3>2. CASE TakesSecret(p, k)
        <4>1. Revokes(p, k, Other(p)) \in Keys
          BY <1>1, RevokesType
        <4> QED BY <3>2, <4>1 DEF TakesSecret, Secrets
      <3> QED BY <2>1, <3>1, <3>2
    <2> QED BY <1>1, <2>3, <2>4
  <1>6. ASSUME NEW p \in Parties, NEW k \in Attempts
        PROVE  Held(p, tasks[p][k].from)'
    <2>1. CASE tasks'[p][k].from = tasks[p][k].from
      <3>1. Held(p, tasks[p][k].from)
        BY DEF Secrets
      <3> QED BY <1>1, <2>1, <3>1 DEF Held
    <2>2. CASE Begins(p, k)
      <3>1. Held(p, dlcs[p]) /\ tasks'[p][k].from = dlcs[p]
        BY <2>2 DEF Secrets, Begins
      <3> QED BY <1>1, <3>1 DEF Held
    <2>3. tasks'[p][k].from = tasks[p][k].from \/ Begins(p, k)
      BY OneMove DEF Same, TakesKey, TakesSignature, TakesSecret, FailsAt, Completes, Stopped, Moves
    <2> QED BY <2>1, <2>2, <2>3
  <1>7. ASSUME NEW p \in Parties
        PROVE  Held(p, dlcs[p])'
    <2>1. CASE dlcs'[p] = dlcs[p]
      <3>1. Held(p, dlcs[p])
        BY DEF Secrets
      <3> QED BY <1>1, <2>1, <3>1 DEF Held
    <2>2. CASE dlcs'[p] # dlcs[p]
      <3>1. PICK k \in Attempts : /\ Completes(p, k)
                                  /\ dlcs'[p] = Append(tasks[p][k].from, Built(p, k))
        BY <2>2, Grows
      <3>2. /\ Held(p, tasks[p][k].from) /\ Revokes(p, k, Other(p)) \in revealed[Other(p)]
        BY <3>1 DEF Secrets, Completes
      <3>3. tasks[p][k].from \in Seq(Dlcs) /\ Len(tasks[p][k].from) >= 1
        BY TypesOf DEF Counted
      <3>4. Built(p, k) \in Dlcs
        BY DlcTypes, BoundsAssumption DEF Keys
      <3>5. Held(p, Append(tasks[p][k].from, Built(p, k)))
        BY <3>2, <3>3, <3>4, HeldAppend DEF Revokes
      <3> QED BY <1>1, <3>1, <3>5 DEF Held
    <2> QED BY <2>1, <2>2
  <1> QED BY <1>3, <1>4, <1>5, <1>6, <1>7 DEF Secrets

(* What is known of a key or of a signed contract is not forgotten.        *)
LEMMA SignedStays ==
    ASSUME TypeOK, Counted, Shape, NEW p \in Parties
    PROVE  /\ \A x \in Keys : KeyKnown(p, x) => KeyKnown(p, x)'
           /\ \A d \in Dlcs : DlcSigned(p, d) =>
                DlcSigned(p, d)' /\ Begun(p, d[p]) /\ KeyKnown(p, d[p])
  <1>1. ASSUME NEW x \in Keys, KeyKnown(p, x)
        PROVE  KeyKnown(p, x)'
    BY <1>1, Stays DEF KeyKnown
  <1>2. ASSUME NEW d \in Dlcs, DlcSigned(p, d)
        PROVE  DlcSigned(p, d)' /\ Begun(p, d[p]) /\ KeyKnown(p, d[p])
    <2>1. /\ d[p] \in Attempts /\ d[Other(p)] \in Attempts /\ d[Other(p)] # 0
          /\ tasks[p][d[p]].other = d[Other(p)]
      BY <1>2 DEF DlcSigned, Attempts
    <2>2. PICK k \in Attempts : k = d[p]
      BY <2>1
    <2>3. tasks'[p][k].other = tasks[p][k].other /\ Begun(p, k)
      BY <2>1, <2>2, Stays
    <2> QED BY <2>1, <2>2, <2>3 DEF DlcSigned, KeyKnown
  <1> QED BY <1>1, <1>2

LEMMA SignaturesStep ==
    ASSUME TypeOK, Counted, Signatures, Shape, QueueStep, InboxStep
    PROVE  Signatures'
  <1>1. \A p \in Parties : Other(p) \in Parties /\ Other(Other(p)) = p
    BY TypesOf
  <1>2. ASSUME NEW p \in Parties, NEW s \in Sessions, NEW x \in Keys, InQueue(p, s, Msg0(x))'
        PROVE  KeyKnown(Other(p), x)'
    <2>1. InQueue(p, s, Msg0(x)) \/ Says(Other(p), Msg0(x))
      BY <1>2, Messages DEF QueueStep
    <2>2. CASE InQueue(p, s, Msg0(x))
      BY <1>1, <2>2, SignedStays DEF Signatures
    <2>3. CASE Says(Other(p), Msg0(x))
      <3>1. x \in Attempts /\ Begins(Other(p), x)
        BY <1>1, <2>3, Speakers
      <3> QED BY <3>1 DEF Begins, KeyKnown, Begun
    <2> QED BY <2>1, <2>2, <2>3
  <1>3. ASSUME NEW p \in Parties, NEW s \in Sessions, NEW d \in Dlcs, InQueue(p, s, Msg1(d))'
        PROVE  DlcSigned(Other(p), d)'
    <2>1. InQueue(p, s, Msg1(d)) \/ Says(Other(p), Msg1(d))
      BY <1>3, Messages DEF QueueStep
    <2>2. CASE InQueue(p, s, Msg1(d))
      BY <1>1, <2>2, SignedStays DEF Signatures
    <2>3. CASE Says(Other(p), Msg1(d))
      <3>1. PICK q \in Parties : q = Other(p)
        BY <1>1
      <3>2. PICK k \in Attempts, x \in Keys :
              TakesKey(q, k, x) /\ tasks'[q][k].other = x /\ d = DlcOf(q, k, x)
        BY <2>3, <3>1, Speakers
      <3>3. KeyKnown(Other(q), x)
        BY <3>2 DEF TakesKey, Signatures
      <3>4. d[q] = k /\ d[Other(q)] = x
        BY <3>2, DlcTypes
      <3> QED BY <3>1, <3>2, <3>3, <3>4 DEF DlcSigned, KeyKnown
    <2> QED BY <2>1, <2>2, <2>3
  <1>4. ASSUME NEW p \in Parties, NEW k \in Attempts, NEW x \in Keys, InInbox(p, k, Msg0(x))'
        PROVE  KeyKnown(Other(p), x)'
    <2>1. Hears(p, k, Msg0(x)) /\ tasks[p][k].sess \in Sessions
      BY <1>4, Messages, TypesOf DEF InboxStep
    <2>2. KeyKnown(Other(p), x)
      BY <2>1 DEF Hears, Signatures
    <2> QED BY <1>1, <2>2, SignedStays
  <1>5. ASSUME NEW p \in Parties, NEW k \in Attempts, NEW d \in Dlcs, InInbox(p, k, Msg1(d))'
        PROVE  DlcSigned(Other(p), d)'
    <2>1. Hears(p, k, Msg1(d)) /\ tasks[p][k].sess \in Sessions
      BY <1>5, Messages, TypesOf DEF InboxStep
    <2>2. DlcSigned(Other(p), d)
      BY <2>1 DEF Hears, Signatures
    <2> QED BY <1>1, <2>2, SignedStays
  <1>6. ASSUME NEW p \in Parties, NEW k \in Attempts
        PROVE  /\ tasks'[p][k].other # 0 => KeyKnown(Other(p), tasks[p][k].other)'
               /\ tasks'[p][k].step \in {"msg1", "msg2", "ok", "done"} => tasks'[p][k].other # 0
               /\ tasks'[p][k].step \in {"msg2", "ok", "done"} =>
                    DlcSigned(Other(p), Built(p, k))'
    <2>1. /\ tasks[p][k].other # 0 => KeyKnown(Other(p), tasks[p][k].other)
          /\ tasks[p][k].step \in {"msg1", "msg2", "ok", "done"} => tasks[p][k].other # 0
          /\ tasks[p][k].step \in {"msg2", "ok", "done"} => DlcSigned(Other(p), Built(p, k))
      BY DEF Signatures
    <2>2. \A x \in Keys : TakesKey(p, k, x) => KeyKnown(Other(p), x)
      BY DEF TakesKey, Signatures
    <2>3. ASSUME tasks'[p][k].other # 0
          PROVE  KeyKnown(Other(p), tasks[p][k].other)'
      <3>1. PICK x \in Keys : x = tasks'[p][k].other /\ KeyKnown(Other(p), x)
        BY <2>1, <2>2, <2>3, Stays, TypesOf
      <3>2. KeyKnown(Other(p), x)'
        BY <1>1, <3>1, SignedStays
      <3> QED BY <3>1, <3>2 DEF KeyKnown, Begun
    <2>4. ASSUME tasks'[p][k].step \in {"msg1", "msg2", "ok", "done"}
          PROVE  tasks'[p][k].other # 0
      <3>1. CASE tasks[p][k].step \in {"msg1", "msg2", "ok", "done"}
        BY <2>1, <3>1, Stays
      <3>2. CASE \E x \in Keys : TakesKey(p, k, x) /\ tasks'[p][k].other = x
        BY <2>2, <3>2 DEF KeyKnown, Attempts
      <3> QED BY <2>4, <3>1, <3>2, StepTells
    <2>5. ASSUME tasks'[p][k].step \in {"msg2", "ok", "done"}
          PROVE  DlcSigned(Other(p), Built(p, k))'
      <3>1. Built(p, k) \in Dlcs
        BY DlcTypes, BoundsAssumption DEF Keys
      <3>2. CASE tasks[p][k].step \in {"msg2", "ok", "done"}
        <4>1. DlcSigned(Other(p), Built(p, k)) /\ tasks[p][k].other # 0
          BY <2>1, <3>2
        <4>2. PICK d \in Dlcs : d = Built(p, k)
          BY <3>1
        <4>3. DlcSigned(Other(p), d)'
          BY <1>1, <4>1, <4>2, SignedStays
        <4>4. Built(p, k)' = d
          BY <4>1, <4>2, Stays DEF Built
        <4> QED BY <4>3, <4>4 DEF DlcSigned
      <3>3. CASE TakesSignature(p, k)
        <4>1. DlcSigned(Other(p), Built(p, k)) /\ tasks'[p][k].other = tasks[p][k].other
          BY <3>1, <3>3 DEF TakesSignature, Signatures, Moves
        <4>2. PICK d \in Dlcs : d = Built(p, k)
          BY <3>1
        <4>3. DlcSigned(Other(p), d)'
          BY <1>1, <4>1, <4>2, SignedStays
        <4>4. Built(p, k)' = d
          BY <4>1, <4>2 DEF Built
        <4> QED BY <4>3, <4>4 DEF DlcSigned
      <3> QED BY <2>5, <3>2, <3>3, StepTells
    <2> QED BY <2>3, <2>4, <2>5
  <1> QED BY <1>2, <1>3, <1>4, <1>5, <1>6 DEF Signatures
(* A running attempt is the latest, and was already or begins alone.       *)
LEMMA RunsAlone ==
    ASSUME TypeOK, Counted, Alone, Shape, ~overlapped', NEW p \in Parties, NEW k \in Attempts,
           Runs(p, k)'
    PROVE  /\ \A i \in Attempts : Begins(p, i) => i = k /\ \A j \in Attempts : ~Runs(p, j)
           /\ Runs(p, k) \/ Begins(p, k)
           /\ dlcs'[p] = dlcs[p]
  <1>1. Runs(p, k) \/ Begins(p, k)
    BY StepTells
  <1>2. ASSUME NEW i \in Attempts, Begins(p, i), NEW j \in Attempts, Runs(p, j)
        PROVE  FALSE
    <2>1. CASE p = "maker"
      <3>1. ~Unfinished("maker")
        BY <1>2, <2>1 DEF Begins
      <3> QED BY <1>2, <2>1, <3>1 DEF Unfinished, Runs
    <2>2. CASE p = "taker"
      <3>1. alive["taker"] /\ rolling["taker"] = None
        BY <1>2, <2>2 DEF Begins
      <3>2. rolling["taker"] = j
        BY <1>2, <2>2, <3>1 DEF Alone
      <3> QED BY <3>1, <3>2, NoneAssumption
    <2> QED BY <2>1, <2>2 DEF Parties
  <1>3. ASSUME NEW i \in Attempts, Begins(p, i)
        PROVE  i = k
    <2>1. ~Runs(p, k)
      BY <1>2, <1>3
    <2>2. i # k => Same(p, k)
      BY <1>3 DEF Begins
    <2> QED BY <2>1, <2>2 DEF Same, Runs, Waiting
  <1>4. dlcs'[p] = dlcs[p]
    <2>1. SUFFICES ASSUME NEW i \in Attempts, Completes(p, i)
                   PROVE  FALSE
      BY Grows
    <2>2. Runs(p, i) /\ tasks'[p][i].step = "done"
      BY <2>1 DEF Completes, Runs, Moves
    <2>3. i # k
      BY <2>2 DEF Runs, Waiting
    <2>4. ~Begins(p, k)
      BY <1>2, <2>2
    <2>5. Runs(p, k) /\ Begun(p, i) /\ Begun(p, k)
      BY <1>1, <2>2, <2>4 DEF Runs, Waiting, Begun
    <2>6. ~(i > k) /\ ~(k > i)
      BY <2>2, <2>5 DEF Alone
    <2> QED BY <2>3, <2>6 DEF Attempts
  <1> QED BY <1>1, <1>2, <1>3, <1>4

LEMMA AloneStep ==
    ASSUME TypeOK, Counted, Alone, Shape, ~overlapped'
    PROVE  Alone'
  <1>1. SUFFICES ASSUME NEW p \in Parties, NEW k \in Attempts, Runs(p, k)'
                 PROVE  /\ \A i \in Attempts : i > k => ~Begun(p, i)'
                        /\ tasks'[p][k].from = dlcs'[p]
                        /\ p = "taker" /\ alive'[p] => rolling'[p] = k
    BY DEF Alone, Runs, Waiting, Begun
  <1>2. /\ \A i \in Attempts : Begins(p, i) => i = k /\ \A j \in Attempts : ~Runs(p, j)
        /\ Runs(p, k) \/ Begins(p, k)
        /\ dlcs'[p] = dlcs[p]
    BY <1>1, RunsAlone
  <1>3. CASE Begins(p, k)
    <2>1. ASSUME NEW i \in Attempts, i > k
          PROVE  ~Begun(p, i)'
      <3>1. ~Begun(p, k)
        BY <1>3 DEF Begins, NextAttempt, Begun
      <3>2. ~Begun(p, i)
        BY <2>1, <3>1 DEF Counted
      <3>3. ~Begins(p, i)
        BY <1>2, <2>1 DEF Attempts
      <3> QED BY <3>2, <3>3, Stays
    <2> QED BY <1>2, <1>3, <2>1 DEF Begins
  <1>4. CASE Runs(p, k)
    <2>1. \A i \in Attempts : ~Begins(p, i)
      BY <1>2, <1>4
    <2>2. /\ \A i \in Attempts : i > k => ~Begun(p, i)
          /\ tasks[p][k].from = dlcs[p]
          /\ p = "taker" /\ alive[p] => rolling[p] = k
      BY <1>4 DEF Alone
    <2>3. \A i \in Attempts : i > k => ~Begun(p, i)'
      BY <2>1, <2>2, Stays
    <2>4. tasks'[p][k].from = dlcs'[p]
      <3>1. Begun(p, k)
        BY <1>4 DEF Runs, Waiting, Begun
      <3> QED BY <1>2, <2>2, <3>1, Stays
    <2>5. p = "taker" => KeepsRolling
      <3>1. ASSUME NEW q \in Parties, NEW i \in Attempts, Completes(q, i), p = "taker"
            PROVE  KeepsRolling
        <4>1. CASE q = "maker"
          BY <3>1, <4>1 DEF Completes
        <4>2. CASE q = "taker"
          <5>1. Runs(p, i) /\ tasks'[p][i].step = "done"
            BY <3>1, <4>2 DEF Completes, Runs, Moves
          <5>2. i # k
            BY <1>1, <5>1 DEF Runs, Waiting
          <5>3. Begun(p, i) /\ Begun(p, k)
            BY <1>4, <5>1 DEF Runs, Waiting, Begun
          <5>4. ~(i > k) /\ ~(k > i)
            BY <1>4, <5>1, <5>3 DEF Alone
          <5> QED BY <5>2, <5>4 DEF Attempts
        <4> QED BY <4>1, <4>2 DEF Parties
      <3>2. ASSUME NEW q \in Parties, StopsAll(q), p = "taker"
            PROVE  KeepsRolling
        <4>1. q # p
          <5>1. q = p => ~Runs(p, k)'
            BY <1>4, <3>2 DEF StopsAll, Runs, Waiting
          <5> QED BY <1>1, <5>1
        <4> QED BY <3>2, <4>1 DEF StopsAll, Parties
      <3>3. ASSUME NEW q \in Parties, NEW i \in Attempts, Begins(q, i), p = "taker"
            PROVE  KeepsRolling
        <4>1. q = "maker"
          BY <2>1, <3>3 DEF Parties
        <4> QED BY <3>3, <4>1 DEF Begins
      <3>4. \A q \in Parties, i \in Attempts, x \in Keys : TakesKey(q, i, x) => KeepsRolling
        BY DEF TakesKey
      <3>5. \A q \in Parties, i \in Attempts :
              TakesSignature(q, i) \/ TakesSecret(q, i) \/ FailsAt(q, i) => KeepsRolling
        BY DEF TakesSignature, TakesSecret, FailsAt
      <3>6. Quiet => KeepsRolling
        BY DEF Quiet
      <3> QED BY <3>1, <3>2, <3>3, <3>4, <3>5, <3>6 DEF Shape
    <2>6. p = "taker" /\ alive'[p] => rolling'[p] = k
      BY <2>2, <2>5 DEF KeepsRolling
    <2> QED BY <2>3, <2>4, <2>6
  <1> QED BY <1>2, <1>3, <1>4

(* What a completion appends.                                              *)
LEMMA Appended ==
    ASSUME TypeOK, Counted, Alone, Shape, NEW p \in Parties, dlcs'[p] # dlcs[p]
    PROVE  \E k \in Attempts :
             /\ Completes(p, k) /\ Runs(p, k) /\ Begun(p, k) /\ tasks[p][k].from = dlcs[p]
             /\ Built(p, k) \in Dlcs /\ Built(p, k)[p] = k
             /\ dlcs'[p] = Append(dlcs[p], Built(p, k))
             /\ Len(dlcs'[p]) = Len(dlcs[p]) + 1
             /\ dlcs'[p][Len(dlcs[p]) + 1] = Built(p, k)
             /\ \A i \in 1..Len(dlcs[p]) : dlcs'[p][i] = dlcs[p][i]
             /\ \A i \in Attempts : i > k => ~Begun(p, i)
  <1>1. PICK k \in Attempts : /\ Completes(p, k)
                              /\ dlcs'[p] = Append(tasks[p][k].from, Built(p, k))
    BY Grows
  <1>2. Runs(p, k) /\ Begun(p, k)
    BY <1>1 DEF Completes, Runs, Begun
  <1>3. tasks[p][k].from = dlcs[p] /\ \A i \in Attempts : i > k => ~Begun(p, i)
    BY <1>2 DEF Alone
  <1>4. Built(p, k) \in Dlcs /\ Built(p, k)[p] = k
    BY DlcTypes, BoundsAssumption DEF Keys
  <1>5. dlcs[p] \in Seq(Dlcs)
    BY TypesOf
  <1>6. PICK c \in Dlcs : c = Built(p, k)
    BY <1>4
  <1>7. /\ Len(Append(dlcs[p], c)) = Len(dlcs[p]) + 1 /\ Append(dlcs[p], c)[Len(dlcs[p]) + 1] = c
        /\ \A i \in 1..Len(dlcs[p]) : Append(dlcs[p], c)[i] = dlcs[p][i]
    BY <1>5
  <1>8. dlcs'[p] = Append(dlcs[p], c)
    BY <1>1, <1>3, <1>6
  <1> QED BY <1>1, <1>2, <1>3, <1>4, <1>6, <1>7, <1>8
LEMMA Entries ==
    ASSUME TypeOK, NEW p \in Parties
    PROVE  /\ dlcs[p] \in Seq(Dlcs) /\ Len(dlcs[p]) \in Nat
           /\ \A i \in 1..Len(dlcs[p]) :
                dlcs[p][i] \in Dlcs /\ \A q \in Parties : dlcs[p][i][q] \in Keys
           /\ Keys \subseteq Nat
  <1>1. dlcs[p] \in Seq(Dlcs) /\ Keys \subseteq Nat
    BY BoundsAssumption DEF TypeOK, Keys
  <1>2. Len(dlcs[p]) \in Nat /\ \A i \in 1..Len(dlcs[p]) : dlcs[p][i] \in Dlcs
    BY <1>1
  <1> QED BY <1>1, <1>2 DEF Dlcs

(* The parts of Histories, per party and per attempt.                      *)
History(p) ==
    /\ dlcs[p][1] = Signed
    /\ \A i \in 2..Len(dlcs[p]) :
         /\ dlcs[p][i][p] \in Attempts
         /\ tasks[p][dlcs[p][i][p]].step = "done"
         /\ dlcs[p][i] = Built(p, dlcs[p][i][p])
    /\ \A i, j \in 1..Len(dlcs[p]) : i < j => dlcs[p][i][p] < dlcs[p][j][p]
    /\ \A x \in revealed[p] : \E i \in 1..Len(dlcs[p]) : dlcs[p][i][p] = x

Start(p, k) ==
    /\ Len(tasks[p][k].from) <= Len(dlcs[p])
    /\ \A i \in 1..Len(tasks[p][k].from) : tasks[p][k].from[i] = dlcs[p][i]
    /\ \A i \in 1..Len(dlcs[p]) : dlcs[p][i][p] < k <=> i <= Len(tasks[p][k].from)

LEMMA HistoryStep ==
    ASSUME TypeOK, Counted, Signatures, Alone, Histories, Shape, ~overlapped',
           NEW p \in Parties
    PROVE  History(p)'
  <1>1. History(p)
    BY DEF Histories, History
  <1>2. /\ dlcs[p] \in Seq(Dlcs) /\ Len(dlcs[p]) \in Nat /\ Len(dlcs[p]) >= 1
        /\ \A i \in 1..Len(dlcs[p]) : dlcs[p][i] \in Dlcs /\ dlcs[p][i][p] \in Keys
        /\ Keys \subseteq Nat
    BY Entries DEF Counted
  <1>3. ASSUME NEW k \in Attempts, tasks[p][k].step = "done"
        PROVE  tasks'[p][k].step = "done" /\ Built(p, k)' = Built(p, k)
    BY <1>3, StepTells DEF Same, Built
  <1>4. CASE dlcs'[p] = dlcs[p]
    <2>1. \A x \in revealed'[p] : \E i \in 1..Len(dlcs[p]) : dlcs[p][i][p] = x
      <3>1. CASE revealed'[p] = revealed[p]
        BY <1>1, <3>1 DEF History
      <3>2. CASE revealed'[p] # revealed[p]
        <4>1. PICK k \in Attempts : /\ TakesSignature(p, k)
                                    /\ revealed'[p] = revealed[p] \cup {Revokes(p, k, p)}
          BY <3>2, Grows
        <4>2. Runs(p, k)
          BY <4>1 DEF TakesSignature, Runs, Waiting
        <4>3. tasks[p][k].from = dlcs[p]
          BY <4>2 DEF Alone
        <4>4. Revokes(p, k, p) = dlcs[p][Len(dlcs[p])][p] /\ Len(dlcs[p]) \in 1..Len(dlcs[p])
          BY <1>2, <4>3 DEF Revokes, Last
        <4> QED BY <1>1, <4>1, <4>4 DEF History
      <3> QED BY <3>1, <3>2
    <2>2. ASSUME NEW i \in 2..Len(dlcs[p])
          PROVE  /\ dlcs[p][i][p] \in Attempts
                 /\ tasks'[p][dlcs[p][i][p]].step = "done"
                 /\ dlcs[p][i] = DlcOf(p, dlcs[p][i][p], tasks'[p][dlcs[p][i][p]].other)
      <3>1. PICK k \in Attempts : /\ k = dlcs[p][i][p] /\ tasks[p][k].step = "done"
                                  /\ dlcs[p][i] = Built(p, k)
        BY <1>1 DEF History
      <3> QED BY <1>3, <3>1 DEF Built
    <2> QED BY <1>1, <1>4, <2>1, <2>2 DEF History, Built
  <1>5. CASE dlcs'[p] # dlcs[p]
    <2>1. PICK k \in Attempts :
             /\ Completes(p, k) /\ Runs(p, k) /\ Begun(p, k) /\ tasks[p][k].from = dlcs[p]
             /\ Built(p, k) \in Dlcs /\ Built(p, k)[p] = k
             /\ Len(dlcs'[p]) = Len(dlcs[p]) + 1
             /\ dlcs'[p][Len(dlcs[p]) + 1] = Built(p, k)
             /\ \A i \in 1..Len(dlcs[p]) : dlcs'[p][i] = dlcs[p][i]
      BY <1>5, Appended
    <2>2. /\ revealed' = revealed /\ tasks'[p][k].step = "done" /\ Built(p, k)' = Built(p, k)
      BY <2>1 DEF Completes, Moves, Built
    <2>3. \A i \in 1..Len(dlcs[p]) : dlcs[p][i][p] < k
      <3>1. Start(p, k)
        BY <2>1 DEF Histories, Start
      <3> QED BY <2>1, <3>1 DEF Start
    <2>4. dlcs'[p][1] = Signed
      BY <1>1, <1>2, <2>1 DEF History
    <2>5. ASSUME NEW i \in 2..Len(dlcs'[p])
          PROVE  /\ dlcs'[p][i][p] \in Attempts
                 /\ tasks'[p][dlcs'[p][i][p]].step = "done"
                 /\ dlcs'[p][i] = DlcOf(p, dlcs'[p][i][p], tasks'[p][dlcs'[p][i][p]].other)
      <3>1. CASE i = Len(dlcs[p]) + 1
        BY <2>1, <2>2, <3>1 DEF Built
      <3>2. CASE i \in 2..Len(dlcs[p])
        <4>1. PICK j \in Attempts : /\ j = dlcs[p][i][p] /\ tasks[p][j].step = "done"
                                    /\ dlcs[p][i] = Built(p, j)
          BY <1>1, <3>2 DEF History
        <4>2. dlcs'[p][i] = dlcs[p][i]
          BY <2>1, <3>2
        <4> QED BY <1>3, <4>1, <4>2 DEF Built
      <3> QED BY <1>2, <2>1, <3>1, <3>2
    <2>6. ASSUME NEW i \in 1..Len(dlcs'[p]), NEW j \in 1..Len(dlcs'[p]), i < j
          PROVE  dlcs'[p][i][p] < dlcs'[p][j][p]
      <3>1. i \in 1..Len(dlcs[p]) /\ (j \in 1..Len(dlcs[p]) \/ j = Len(dlcs[p]) + 1)
        BY <1>2, <2>1, <2>6
      <3>2. dlcs'[p][i] = dlcs[p][i]
        BY <2>1, <3>1
      <3>3. CASE j \in 1..Len(dlcs[p])
        <4>1. dlcs'[p][j] = dlcs[p][j] /\ dlcs[p][i][p] < dlcs[p][j][p]
          BY <1>1, <2>1, <2>6, <3>1, <3>3 DEF History
        <4> QED BY <3>2, <4>1
      <3>4. CASE j = Len(dlcs[p]) + 1
        BY <2>1, <2>3, <3>1, <3>2, <3>4
      <3> QED BY <3>1, <3>3, <3>4
    <2>7. ASSUME NEW x \in revealed'[p]
          PROVE  \E i \in 1..Len(dlcs'[p]) : dlcs'[p][i][p] = x
      <3>1. PICK i \in 1..Len(dlcs[p]) : dlcs[p][i][p] = x
        BY <1>1, <2>2 DEF History
      <3>2. i \in 1..Len(dlcs'[p]) /\ dlcs'[p][i][p] = x
        BY <1>2, <2>1, <3>1
      <3> QED BY <3>2
    <2> QED BY <2>4, <2>5, <2>6, <2>7 DEF History, Built
  <1> QED BY <1>4, <1>5

LEMMA StartStep ==
    ASSUME TypeOK, Counted, Alone, Histories, Shape, ~overlapped',
           NEW p \in Parties, NEW k \in Attempts, Begun(p, k)'
    PROVE  Start(p, k)'
  <1>1. /\ dlcs[p] \in Seq(Dlcs) /\ Len(dlcs[p]) \in Nat /\ Len(dlcs[p]) >= 1
        /\ \A i \in 1..Len(dlcs[p]) : dlcs[p][i] \in Dlcs /\ dlcs[p][i][p] \in Keys
        /\ Keys \subseteq Nat /\ Attempts \subseteq Nat
    BY Entries, TypesOf DEF Counted
  <1>2. CASE Begun(p, k)
    <2>1. Start(p, k)
      BY <1>2 DEF Histories, Start
    <2>2. tasks'[p][k].from = tasks[p][k].from
      BY <1>2, Stays
    <2>3. CASE dlcs'[p] = dlcs[p]
      BY <2>1, <2>2, <2>3 DEF Start
    <2>4. CASE dlcs'[p] # dlcs[p]
      <3>1. PICK j \in Attempts :
             /\ Built(p, j)[p] = j
             /\ Len(dlcs'[p]) = Len(dlcs[p]) + 1
             /\ dlcs'[p][Len(dlcs[p]) + 1] = Built(p, j)
             /\ \A i \in 1..Len(dlcs[p]) : dlcs'[p][i] = dlcs[p][i]
             /\ \A i \in Attempts : i > j => ~Begun(p, i)
        BY <2>4, Appended
      <3>2. ~(j < k)
        BY <1>1, <1>2, <3>1
      <3>3. tasks[p][k].from \in Seq(Dlcs) /\ Len(tasks[p][k].from) \in Nat
        BY TypesOf
      <3>4. \A i \in 1..Len(tasks[p][k].from) : tasks[p][k].from[i] = dlcs'[p][i]
        BY <1>1, <2>1, <3>1, <3>3 DEF Start
      <3>5. ASSUME NEW i \in 1..Len(dlcs'[p])
            PROVE  dlcs'[p][i][p] < k <=> i <= Len(tasks[p][k].from)
        <4>1. CASE i \in 1..Len(dlcs[p])
          BY <2>1, <3>1, <4>1 DEF Start
        <4>2. CASE i = Len(dlcs[p]) + 1
          <5>1. ~(i <= Len(tasks[p][k].from))
            BY <1>1, <2>1, <3>3, <4>2 DEF Start
          <5> QED BY <3>1, <3>2, <4>2, <5>1
        <4> QED BY <1>1, <3>1, <4>1, <4>2
      <3>6. Len(tasks[p][k].from) <= Len(dlcs'[p])
        BY <1>1, <2>1, <3>1, <3>3 DEF Start
      <3> QED BY <2>2, <3>4, <3>5, <3>6 DEF Start
    <2> QED BY <2>3, <2>4
  <1>3. CASE ~Begun(p, k)
    <2>1. Begins(p, k)
      BY <1>3, Stays
    <2>2. tasks'[p][k].from = dlcs[p] /\ dlcs'[p] = dlcs[p]
      BY <2>1 DEF Begins
    <2>3. ASSUME NEW i \in 1..Len(dlcs[p])
          PROVE  dlcs[p][i][p] < k
      <3>1. CASE i = 1
        BY <3>1, <1>1 DEF Histories, Signed, Attempts, Parties
      <3>2. CASE i \in 2..Len(dlcs[p])
        <4>1. PICK j \in Attempts : j = dlcs[p][i][p] /\ tasks[p][j].step = "done"
          BY <3>2 DEF Histories
        <4>2. Begun(p, j)
          BY <4>1 DEF Begun
        <4>3. ~(k < j) /\ j # k
          BY <1>3, <4>2 DEF Counted
        <4> QED BY <1>1, <4>1, <4>3
      <3> QED BY <1>1, <3>1, <3>2
    <2> QED BY <1>1, <2>2, <2>3 DEF Start
  <1> QED BY <1>2, <1>3

LEMMA HistoriesStep ==
    ASSUME TypeOK, Counted, Signatures, Alone, Histories, Shape, ~overlapped'
    PROVE  Histories'
  <1>1. \A p \in Parties : History(p)'
    BY HistoryStep
  <1>2. \A p \in Parties, k \in Attempts : Begun(p, k)' => Start(p, k)'
    BY StartStep
  <1> QED BY <1>1, <1>2 DEF Histories, History, Start, Built, Begun

LEMMA WatchedStep ==
    ASSUME TypeOK, Counted, Alone, Watched, Shape
    PROVE  Watched'
  <1>1. ASSUME NEW p \in Parties
        PROVE  Range(dlcs[p]) \subseteq Range(dlcs'[p]) /\ Range(dlcs[p]) \subseteq Dlcs
    <2>1. Range(dlcs[p]) \subseteq Dlcs
      BY Entries DEF Range
    <2>2. CASE dlcs'[p] = dlcs[p]
      BY <2>1, <2>2
    <2>3. CASE dlcs'[p] # dlcs[p]
      <3>1. /\ Len(dlcs'[p]) = Len(dlcs[p]) + 1 /\ dlcs[p] \in Seq(Dlcs) /\ Len(dlcs[p]) \in Nat
            /\ \A i \in 1..Len(dlcs[p]) : dlcs'[p][i] = dlcs[p][i]
            /\ dlcs'[p] \in Seq(Dlcs)
        <4>1. PICK k \in Attempts :
                /\ Built(p, k) \in Dlcs /\ dlcs'[p] = Append(dlcs[p], Built(p, k))
                /\ Len(dlcs'[p]) = Len(dlcs[p]) + 1
                /\ \A i \in 1..Len(dlcs[p]) : dlcs'[p][i] = dlcs[p][i]
          BY <2>3, Appended
        <4>2. dlcs'[p] \in Seq(Dlcs)
          BY <4>1, Entries
        <4> QED BY <4>1, <4>2, Entries
      <3>2. DOMAIN dlcs[p] = 1..Len(dlcs[p]) /\ DOMAIN dlcs'[p] = 1..Len(dlcs'[p])
        BY <3>1
      <3>3. DOMAIN dlcs[p] \subseteq DOMAIN dlcs'[p]
        BY <3>1, <3>2
      <3> QED BY <2>1, <3>1, <3>2, <3>3 DEF Range
    <2> QED BY <2>2, <2>3
  <1>2. CASE KeepsWatch
    <2>1. ASSUME NEW p \in Parties
          PROVE  watch'[p] \subseteq Range(dlcs'[p])
      <3>1. Dlc(p) \in Range(dlcs[p])
        <4>1. Len(dlcs[p]) \in DOMAIN dlcs[p]
          BY Entries DEF Counted
        <4> QED BY <4>1 DEF Dlc, Last, Range
      <3>2. watch'[p] \subseteq watch[p] \cup {Dlc(p)} /\ watch[p] \subseteq Range(dlcs[p])
        BY <1>2 DEF KeepsWatch, Watched
      <3> QED BY <1>1, <3>1, <3>2
    <2>2. ASSUME NEW p \in Parties, state'[p] = "Committed"
          PROVE  onChain' \in Range(dlcs'[p])
      <3>1. onChain \in Range(dlcs[p])
        BY <1>2, <2>2 DEF KeepsWatch, Watched
      <3>2. onChain # None
        BY <1>1, <3>1, NoneAssumption
      <3> QED BY <1>1, <1>2, <3>1, <3>2 DEF KeepsWatch
    <2> QED BY <2>1, <2>2 DEF Watched
  <1>3. ASSUME NEW q \in Parties, NEW k \in Attempts, Completes(q, k)
        PROVE  Watched'
    <2>1. /\ watch'[q] = watch[q] \cup {Built(q, k)} /\ state'[q] = "Open" /\ onChain' = onChain
          /\ \A p \in Parties : p # q => watch'[p] = watch[p] /\ state'[p] = state[p]
      BY <1>3 DEF Completes, TypeOK
    <2>2. Built(q, k) \in Range(dlcs'[q])
      <3>1. dlcs'[q] = Append(tasks[q][k].from, Built(q, k)) /\ tasks[q][k].from \in Seq(Dlcs)
        BY <1>3, TypesOf DEF Completes, TypeOK
      <3>2. PICK c \in Dlcs : c = Built(q, k)
        BY DlcTypes, BoundsAssumption DEF Keys
      <3>3. /\ Len(tasks[q][k].from) + 1 \in DOMAIN Append(tasks[q][k].from, c)
            /\ Append(tasks[q][k].from, c)[Len(tasks[q][k].from) + 1] = c
        BY <3>1, SMTT(30)
      <3> QED BY <3>1, <3>2, <3>3 DEF Range
    <2>3. ASSUME NEW p \in Parties
          PROVE  watch'[p] \subseteq Range(dlcs'[p])
      BY <1>1, <2>1, <2>2 DEF Watched
    <2>4. ASSUME NEW p \in Parties, state'[p] = "Committed"
          PROVE  onChain' \in Range(dlcs'[p])
      BY <1>1, <2>1, <2>4 DEF Watched
    <2> QED BY <2>3, <2>4 DEF Watched
  <1>4. KeepsWatch \/ \E q \in Parties, k \in Attempts : Completes(q, k)
    BY DEF Shape, Quiet, Begins, TakesKey, TakesSignature, TakesSecret, FailsAt, StopsAll
  <1> QED BY <1>2, <1>3, <1>4
LEMMA KeysInOrderStep ==
    ASSUME TypeOK, Counted, Signatures, Alone, KeysInOrder, Shape, QueueStep, InboxStep,
           ~overlapped'
    PROVE  KeysInOrder'
  <1> DEFINE t == "taker"
  <1>1. /\ t \in Parties /\ Other(t) = "maker" /\ "maker" \in Parties
        /\ Attempts \subseteq Keys /\ Keys \subseteq Nat /\ 1 \in Sessions
        /\ \A j \in Attempts : tasks[t][j].sess \in Sessions /\ tasks[t][j].other \in Keys
    BY TypesOf, BoundsAssumption DEF Other, Keys, Sessions
  <1>2. \A s \in Sessions : Incoming(t, s) = toTaker
    BY DEF Incoming
  <1>3. \A x \in Keys : Says("maker", Msg0(x)) => x \in Attempts /\ ~Begun("maker", x)
    <2>1. ASSUME NEW x \in Keys, Says("maker", Msg0(x))
          PROVE  x \in Attempts /\ Begins("maker", x)
      BY <1>1, <2>1, Speakers
    <2> QED BY <2>1 DEF Begins, NextAttempt, Begun
  <1>4. /\ \A x \in Keys : Has(toTaker, Msg0(x)) => x \in Attempts /\ Begun("maker", x)
        /\ \A j \in Attempts, x \in Keys :
             InInbox(t, j, Msg0(x)) => x \in Attempts /\ Begun("maker", x)
        /\ \A j \in Attempts : tasks[t][j].other # 0 =>
             tasks[t][j].other \in Attempts /\ Begun("maker", tasks[t][j].other)
    BY <1>1, <1>2 DEF Signatures, KeyKnown, InQueue
  <1>5. \A x, y \in Attempts : Begun("maker", x) /\ ~Begun("maker", y) => x < y
    <2>1. \A x, y \in Attempts : Begun("maker", x) /\ ~Begun("maker", y) => ~(y < x) /\ x # y
      BY <1>1 DEF Counted
    <2> QED BY <2>1 DEF Attempts
  <1>6. \A x \in Keys : Has(toTaker', Msg0(x)) => Has(toTaker, Msg0(x)) \/ Says("maker", Msg0(x))
    <2>1. ASSUME NEW x \in Keys, Has(toTaker', Msg0(x))
          PROVE  Has(toTaker, Msg0(x)) \/ Says("maker", Msg0(x))
      <3>1. InQueue(t, 1, Msg0(x))' => InQueue(t, 1, Msg0(x)) \/ Says("maker", Msg0(x))
        BY <1>1, Messages DEF QueueStep
      <3>2. InQueue(t, 1, Msg0(x))'
        BY <2>1 DEF InQueue, Incoming, Has
      <3> QED BY <1>1, <1>2, <3>1, <3>2 DEF InQueue
    <2> QED BY <2>1
  <1>7. ASSUME NEW j \in Attempts, NEW x \in Keys, InInbox(t, j, Msg0(x))'
        PROVE  /\ InInbox(t, j, Msg0(x)) \/ Has(toTaker, Msg0(x))
               /\ Begun(t, j) /\ x \in Attempts /\ Begun("maker", x)
    <2>1. Begun(t, j) /\ Hears(t, j, Msg0(x))
      BY <1>1, <1>7, Messages DEF InboxStep
    <2>2. InInbox(t, j, Msg0(x)) \/ Has(toTaker, Msg0(x))
      BY <1>1, <1>2, <2>1 DEF Hears, InQueue
    <2> QED BY <1>4, <2>1, <2>2
  <1>8. \A j \in Attempts : tasks'[t][j].other # tasks[t][j].other =>
          /\ Runs(t, j) /\ tasks'[t][j].other \in Keys
          /\ InInbox(t, j, Msg0(tasks'[t][j].other))
          /\ \A i \in Attempts : i # j => tasks'[t][i].other = tasks[t][i].other
    <2>1. ASSUME NEW j \in Attempts, NEW x \in Keys, TakesKey(t, j, x), tasks'[t][j].other = x
          PROVE  /\ Runs(t, j) /\ InInbox(t, j, Msg0(x))
                 /\ \A i \in Attempts : i # j => tasks'[t][i].other = tasks[t][i].other
      BY <1>1, <2>1 DEF TakesKey, Moves, Same, Runs, Waiting
    <2>2. ASSUME NEW j \in Attempts, tasks'[t][j].other # tasks[t][j].other
          PROVE  \E x \in Keys : TakesKey(t, j, x) /\ tasks'[t][j].other = x
      BY <1>1, <2>2, Stays
    <2> QED BY <2>1, <2>2
  <1>9. ASSUME NEW x \in Keys, NEW y \in Keys, Before(toTaker', Msg0(x), Msg0(y))
        PROVE  x < y
    <2>1. \/ Before(toTaker, Msg0(x), Msg0(y))
          \/ Has(toTaker, Msg0(x)) /\ Says("maker", Msg0(y))
      <3>1. Before(Incoming(t, 1), Msg0(x), Msg0(y))' =>
               \/ Before(Incoming(t, 1), Msg0(x), Msg0(y))
               \/ InQueue(t, 1, Msg0(x)) /\ Says("maker", Msg0(y))
        BY <1>1, Messages DEF QueueStep
      <3>2. Before(Incoming(t, 1), Msg0(x), Msg0(y))'
        BY <1>9 DEF Incoming, Before
      <3> QED BY <1>1, <1>2, <3>1, <3>2 DEF InQueue
    <2>2. CASE Before(toTaker, Msg0(x), Msg0(y))
      BY <2>2 DEF KeysInOrder
    <2>3. CASE Has(toTaker, Msg0(x)) /\ Says("maker", Msg0(y))
      BY <1>3, <1>4, <1>5, <2>3
    <2> QED BY <2>1, <2>2, <2>3
  <1>10. ASSUME NEW x \in Keys, Has(toTaker', Msg0(x)), NEW j \in Attempts
         PROVE  /\ tasks'[t][j].other < x
                /\ \A y \in Keys : InInbox(t, j, Msg0(y))' => y < x
    <2>1. CASE Says("maker", Msg0(x))
      <3>1. x \in Attempts /\ ~Begun("maker", x)
        BY <1>3, <2>1
      <3>2. \A y \in Attempts : Begun("maker", y) => y < x
        BY <1>5, <3>1
      <3>3. \A y \in Keys : InInbox(t, j, Msg0(y))' => y < x
        BY <1>7, <3>2
      <3>4. tasks[t][j].other < x
        <4>1. 0 < x
          BY <3>1 DEF Attempts
        <4> QED BY <1>4, <3>2, <4>1
      <3>5. tasks'[t][j].other < x
        <4>1. CASE tasks'[t][j].other = tasks[t][j].other
          BY <3>4, <4>1
        <4>2. CASE tasks'[t][j].other # tasks[t][j].other
          BY <1>4, <1>8, <3>2, <4>2
        <4> QED BY <4>1, <4>2
      <3> QED BY <3>3, <3>5
    <2>2. CASE Has(toTaker, Msg0(x)) /\ ~Says("maker", Msg0(x))
      <3>1. /\ tasks[t][j].other < x
            /\ \A y \in Keys : InInbox(t, j, Msg0(y)) => y < x
        BY <2>2 DEF KeysInOrder
      <3>2. tasks'[t][j].other < x
        BY <1>8, <3>1
      <3>3. ASSUME NEW y \in Keys, InInbox(t, j, Msg0(y))'
            PROVE  y < x
        <4>1. PICK s \in Sessions : s = tasks[t][j].sess
          BY <1>1
        <4>2. Begun(t, j)
          BY <1>7, <3>3
        <4>3. tasks'[t][j].sess = s
          BY <1>1, <4>1, <4>2, Stays
        <4>4. InQueue(t, tasks[t][j].sess, Msg0(x))'
          BY <1>10 DEF InQueue, Incoming
        <4>5. Follows(t, j, Msg0(y), Msg0(x))'
          BY <3>3, <4>4 DEF Follows
        <4>6. \/ Follows(t, j, Msg0(y), Msg0(x))
              \/ Before(Incoming(t, tasks[t][j].sess), Msg0(y), Msg0(x))
              \/ Hears(t, j, Msg0(y)) /\ Says("maker", Msg0(x))
          <5>1. \A a, b \in RollOverMsgs : Follows(t, j, a, b)' =>
                   \/ Follows(t, j, a, b)
                   \/ Before(Incoming(t, tasks[t][j].sess), a, b)
                   \/ Hears(t, j, a) /\ Says("maker", b)
            BY <1>1 DEF InboxStep
          <5>2. PICK a, b \in RollOverMsgs : a = Msg0(y) /\ b = Msg0(x)
            BY Messages
          <5>3. Follows(t, j, a, b)'
            BY <4>5, <5>2
          <5> QED BY <5>1, <5>2, <5>3
        <4>7. CASE Follows(t, j, Msg0(y), Msg0(x))
          <5>1. InInbox(t, j, Msg0(y))
            BY <4>7, HasBefore DEF Follows, InInbox
          <5> QED BY <3>1, <5>1
        <4>8. CASE Before(Incoming(t, tasks[t][j].sess), Msg0(y), Msg0(x))
          <5>1. Before(toTaker, Msg0(y), Msg0(x))
            BY <4>8 DEF Incoming
          <5> QED BY <5>1 DEF KeysInOrder
        <4> QED BY <2>2, <4>6, <4>7, <4>8
      <3> QED BY <3>2, <3>3
    <2> QED BY <1>6, <1>10, <2>1, <2>2
  <1>11. ASSUME NEW i \in Attempts, NEW j \in Attempts, i < j
         PROVE  /\ \A x \in Keys : InInbox(t, j, Msg0(x))' => tasks'[t][i].other < x
                /\ tasks'[t][j].other # 0 => tasks'[t][i].other < tasks'[t][j].other
    <2>1. Begun(t, j) => tasks'[t][i].other = tasks[t][i].other
      <3>1. Begun(t, j) => ~Runs(t, i)
        BY <1>1, <1>11 DEF Alone
      <3> QED BY <1>8, <3>1
    <2>2. ASSUME NEW x \in Keys, InInbox(t, j, Msg0(x))'
          PROVE  tasks'[t][i].other < x
      <3>1. (InInbox(t, j, Msg0(x)) \/ Has(toTaker, Msg0(x))) /\ Begun(t, j)
        BY <1>7, <2>2
      <3>2. tasks[t][i].other < x
        BY <1>11, <3>1 DEF KeysInOrder
      <3> QED BY <2>1, <3>1, <3>2
    <2>3. ASSUME tasks'[t][j].other # 0
          PROVE  tasks'[t][i].other < tasks'[t][j].other
      <3>1. CASE tasks'[t][j].other = tasks[t][j].other
        <4>1. Begun(t, j)
          BY <1>1, <2>3, <3>1, Stays
        <4>2. tasks[t][i].other < tasks[t][j].other
          BY <1>11, <2>3, <3>1 DEF KeysInOrder
        <4> QED BY <2>1, <3>1, <4>1, <4>2
      <3>2. CASE tasks'[t][j].other # tasks[t][j].other
        <4>1. /\ tasks'[t][j].other \in Keys /\ InInbox(t, j, Msg0(tasks'[t][j].other))
              /\ tasks'[t][i].other = tasks[t][i].other
          BY <1>1, <1>8, <1>11, <3>2
        <4>2. tasks[t][i].other < tasks'[t][j].other
          BY <1>11, <4>1 DEF KeysInOrder
        <4> QED BY <4>1, <4>2
      <3> QED BY <3>1, <3>2
    <2> QED BY <2>2, <2>3
  <1> QED BY <1>9, <1>10, <1>11 DEF KeysInOrder, InInbox
(* Later attempts replace contracts that are not older.                    *)
LEMMA RevokesGrow ==
    ASSUME TypeOK, Counted, Histories, NEW q \in Parties, NEW i \in Attempts, NEW j \in Attempts,
           i <= j, Begun(q, i), Begun(q, j)
    PROVE  Revokes(q, i, q) <= Revokes(q, j, q)
  <1> DEFINE m == Len(tasks[q][i].from)
             n == Len(tasks[q][j].from)
  <1>1. Start(q, i) /\ Start(q, j) /\ History(q)
    BY DEF Histories, Start, History
  <1>2. /\ tasks[q][i].from \in Seq(Dlcs) /\ tasks[q][j].from \in Seq(Dlcs)
        /\ m >= 1 /\ n >= 1 /\ Attempts \subseteq Nat
    BY TypesOf DEF Counted
  <1>3. m \in Nat /\ n \in Nat
    BY <1>2
  <1>4. /\ Len(dlcs[q]) \in Nat /\ Keys \subseteq Nat
        /\ \A k \in 1..Len(dlcs[q]) : dlcs[q][k][q] \in Keys
    BY Entries
  <1>5. m \in 1..Len(dlcs[q]) /\ n \in 1..Len(dlcs[q])
    BY <1>1, <1>2, <1>3, <1>4 DEF Start
  <1>6. Revokes(q, i, q) = dlcs[q][m][q] /\ Revokes(q, j, q) = dlcs[q][n][q]
    <2>1. m \in 1..m /\ n \in 1..n
      BY <1>2, <1>3
    <2>2. tasks[q][i].from[m] = dlcs[q][m] /\ tasks[q][j].from[n] = dlcs[q][n]
      BY <1>1, <2>1 DEF Start
    <2>3. Last(tasks[q][i].from) = tasks[q][i].from[m] /\ Last(tasks[q][j].from) = tasks[q][j].from[n]
      BY DEF Last
    <2> QED BY <2>2, <2>3 DEF Revokes
  <1>7. /\ dlcs[q][m][q] < i <=> m <= m
        /\ dlcs[q][m][q] < j <=> m <= n
    BY <1>1, <1>5 DEF Start
  <1>8. m < n => dlcs[q][m][q] < dlcs[q][n][q]
    BY <1>1, <1>5 DEF History
  <1> HIDE DEF m, n
  <1>9. PICK x, y \in Nat : x = dlcs[q][m][q] /\ y = dlcs[q][n][q]
    BY <1>4, <1>5
  <1>10. i \in Nat /\ j \in Nat
    BY <1>2
  <1>11. m <= n
    BY <1>3, <1>7, <1>9, <1>10
  <1>12. x <= y
    BY <1>3, <1>8, <1>9, <1>11
  <1> QED BY <1>6, <1>9, <1>12

LEMMA SecretsInOrderStep ==
    ASSUME TypeOK, Counted, Signatures, Alone, Histories, SecretsInOrder, Shape,
           QueueStep, InboxStep
    PROVE  SecretsInOrder'
  <1>1. \A p \in Parties : Other(p) \in Parties /\ Other(Other(p)) = p
    BY TypesOf
  <1>2. \A p \in Parties, k \in Attempts : tasks[p][k].sess \in Sessions
    BY TypesOf
  (* A secret said now is that of the other party's latest attempt. *)
  <1>3. ASSUME NEW q \in Parties, NEW d \in Dlcs, DlcSigned(q, d), NEW x \in Keys,
               Says(q, Msg2(x))
        PROVE  Revokes(q, d[q], q) <= x
    <2>1. PICK k \in Attempts : TakesSignature(q, k) /\ x = Revokes(q, k, q)
      BY <1>3, Speakers
    <2>2. PICK i \in Attempts : i = d[q] /\ Begun(q, i)
      BY <1>3, SignedStays DEF DlcSigned
    <2>3. Runs(q, k) /\ Begun(q, k)
      BY <2>1 DEF TakesSignature, Runs, Waiting, Begun
    <2>4. i <= k
      <3>1. ~(i > k)
        BY <2>2, <2>3 DEF Alone
      <3> QED BY <3>1 DEF Attempts
    <2> QED BY <2>1, <2>2, <2>3, <2>4, RevokesGrow
  (* What a signed contract revokes stays. *)
  <1>4. ASSUME NEW q \in Parties, NEW d \in Dlcs, DlcSigned(q, d)
        PROVE  Revokes(q, d[q], q)' = Revokes(q, d[q], q)
    <2>1. PICK i \in Attempts : i = d[q] /\ Begun(q, i)
      BY <1>4, SignedStays DEF DlcSigned
    <2> QED BY <2>1, Stays DEF Revokes
  <1>5. ASSUME NEW p \in Parties, NEW k \in Attempts,
               tasks[p][k].step \in {"msg1", "msg2", "ok"}, DlcSigned(Other(p), Built(p, k))
        PROVE  /\ Built(p, k) \in Dlcs /\ Built(p, k)[Other(p)] = tasks[p][k].other
               /\ tasks'[p][k].other = tasks[p][k].other
               /\ Revokes(Other(p), tasks[p][k].other, Other(p))'
                    = Revokes(Other(p), tasks[p][k].other, Other(p))
    <2>1. Built(p, k) \in Dlcs /\ Built(p, k)[Other(p)] = tasks[p][k].other
      BY DlcTypes, BoundsAssumption DEF Keys
    <2>2. tasks[p][k].other # 0
      BY <1>5 DEF Signatures
    <2>3. tasks'[p][k].other = tasks[p][k].other
      BY <2>2, Stays
    <2>4. PICK d \in Dlcs : d = Built(p, k)
      BY <2>1
    <2>5. PICK o \in Keys : o = tasks[p][k].other
      BY TypesOf
    <2>6. Revokes(Other(p), d[Other(p)], Other(p))' = Revokes(Other(p), d[Other(p)], Other(p))
      BY <1>1, <1>4, <1>5, <2>4
    <2>7. Revokes(Other(p), o, Other(p))' = Revokes(Other(p), o, Other(p))
      BY <2>1, <2>4, <2>5, <2>6
    <2> QED BY <2>1, <2>3, <2>5, <2>7 DEF Revokes
  <1>6. ASSUME NEW p \in Parties, NEW s \in Sessions, NEW d \in Dlcs, NEW x \in Keys,
               Before(Incoming(p, s), Msg1(d), Msg2(x))'
        PROVE  Revokes(Other(p), d[Other(p)], Other(p))' <= x
    <2>1. \/ Before(Incoming(p, s), Msg1(d), Msg2(x))
          \/ InQueue(p, s, Msg1(d)) /\ Says(Other(p), Msg2(x))
      <3>1. PICK a, b \in RollOverMsgs : a = Msg1(d) /\ b = Msg2(x)
        BY Messages
      <3> QED BY <1>6, <3>1 DEF QueueStep
    <2>2. InQueue(p, s, Msg1(d))
      BY <2>1, HasBefore DEF InQueue
    <2>3. DlcSigned(Other(p), d)
      BY <2>2 DEF Signatures
    <2>4. Revokes(Other(p), d[Other(p)], Other(p)) <= x
      <3>1. CASE Before(Incoming(p, s), Msg1(d), Msg2(x))
        BY <3>1 DEF SecretsInOrder
      <3>2. CASE Says(Other(p), Msg2(x))
        BY <1>1, <1>3, <2>3, <3>2
      <3> QED BY <2>1, <3>1, <3>2
    <2> QED BY <1>1, <1>4, <2>3, <2>4
  <1>7. ASSUME NEW p \in Parties, NEW k \in Attempts, NEW d \in Dlcs, NEW x \in Keys,
               Follows(p, k, Msg1(d), Msg2(x))'
        PROVE  Revokes(Other(p), d[Other(p)], Other(p))' <= x
    <2>1. \/ Follows(p, k, Msg1(d), Msg2(x))
          \/ Before(Incoming(p, tasks[p][k].sess), Msg1(d), Msg2(x))
          \/ Hears(p, k, Msg1(d)) /\ Says(Other(p), Msg2(x))
      <3>1. PICK a, b \in RollOverMsgs : a = Msg1(d) /\ b = Msg2(x)
        BY Messages
      <3>2. Follows(p, k, a, b)'
        BY <1>7, <3>1
      <3>3. \/ Follows(p, k, a, b)
            \/ Before(Incoming(p, tasks[p][k].sess), a, b)
            \/ Hears(p, k, a) /\ Says(Other(p), b)
        BY <3>2 DEF InboxStep
      <3> QED BY <3>1, <3>3
    <2>2. PICK s \in Sessions : s = tasks[p][k].sess
      BY <1>2
    <2>3. Hears(p, k, Msg1(d))
      BY <2>1, HasBefore DEF Follows, Hears, InInbox, InQueue
    <2>4. DlcSigned(Other(p), d)
      BY <2>2, <2>3 DEF Hears, Signatures
    <2>5. Revokes(Other(p), d[Other(p)], Other(p)) <= x
      <3>1. CASE Follows(p, k, Msg1(d), Msg2(x))
        BY <3>1 DEF SecretsInOrder
      <3>2. CASE Before(Incoming(p, tasks[p][k].sess), Msg1(d), Msg2(x))
        BY <2>2, <3>2 DEF SecretsInOrder
      <3>3. CASE Says(Other(p), Msg2(x))
        BY <1>1, <1>3, <2>4, <3>3
      <3> QED BY <2>1, <3>1, <3>2, <3>3
    <2> QED BY <1>1, <1>4, <2>4, <2>5
  <1>8. ASSUME NEW p \in Parties, NEW k \in Attempts, NEW x \in Keys,
               tasks'[p][k].step = "msg2", Hears(p, k, Msg2(x))'
        PROVE  Revokes(Other(p), tasks[p][k].other, Other(p))' <= x
    <2>1. tasks[p][k].step = "msg2" \/ TakesSignature(p, k)
      BY <1>8, StepTells
    <2>2. DlcSigned(Other(p), Built(p, k)) /\ tasks[p][k].step \in {"msg1", "msg2"}
      <3>1. Built(p, k) \in Dlcs
        BY DlcTypes, BoundsAssumption DEF Keys
      <3> QED BY <2>1, <3>1 DEF TakesSignature, Signatures
    <2>3. /\ Built(p, k) \in Dlcs /\ Built(p, k)[Other(p)] = tasks[p][k].other
          /\ Revokes(Other(p), tasks[p][k].other, Other(p))'
               = Revokes(Other(p), tasks[p][k].other, Other(p))
      BY <1>5, <2>2
    <2>4. Revokes(Other(p), tasks[p][k].other, Other(p)) <= x
      <3>1. CASE TakesSignature(p, k)
        <4>1. Follows(p, k, Msg1(Built(p, k)), Msg2(x))
          BY <1>8, <3>1, Messages DEF TakesSignature
        <4>2. Revokes(Other(p), Built(p, k)[Other(p)], Other(p)) <= x
          BY <2>3, <4>1 DEF SecretsInOrder
        <4> QED BY <2>3, <4>2
      <3>2. CASE tasks[p][k].step = "msg2"
        <4>1. PICK s \in Sessions : s = tasks[p][k].sess
          BY <1>2
        <4>2. Hears(p, k, Msg2(x)) \/ Says(Other(p), Msg2(x))
          <5>1. PICK m \in RollOverMsgs : m = Msg2(x)
            BY Messages
          <5>2. InInbox(p, k, m)' => Hears(p, k, m)
            BY DEF InboxStep
          <5>3. tasks'[p][k].sess = s
            BY <3>2, <4>1, Stays DEF Begun
          <5>4. InQueue(p, tasks[p][k].sess, m)' => InQueue(p, s, m)'
            BY <5>3 DEF InQueue
          <5>5. InQueue(p, s, m)' => InQueue(p, s, m) \/ Says(Other(p), m)
            BY DEF QueueStep
          <5>6. InInbox(p, k, m)' \/ InQueue(p, tasks[p][k].sess, m)'
            BY <1>8, <5>1 DEF Hears
          <5>7. InQueue(p, s, m) => Hears(p, k, m)
            BY <4>1 DEF Hears
          <5> QED BY <5>1, <5>2, <5>4, <5>5, <5>6, <5>7
        <4>3. CASE Hears(p, k, Msg2(x))
          BY <3>2, <4>3 DEF SecretsInOrder
        <4>4. CASE Says(Other(p), Msg2(x))
          <5>1. Revokes(Other(p), Built(p, k)[Other(p)], Other(p)) <= x
            BY <1>1, <1>3, <2>2, <2>3, <4>4
          <5> QED BY <2>3, <5>1
        <4> QED BY <4>2, <4>3, <4>4
      <3> QED BY <2>1, <3>1, <3>2
    <2> QED BY <2>3, <2>4
  <1>9. ASSUME NEW p \in Parties, NEW k \in Attempts, tasks'[p][k].step = "ok"
        PROVE  Revokes(Other(p), tasks[p][k].other, Other(p))' <= Revokes(p, k, Other(p))'
    <2>1. tasks[p][k].step = "ok" \/ TakesSecret(p, k)
      BY <1>9, StepTells
    <2>2. tasks[p][k].step \in {"msg2", "ok"} /\ Begun(p, k)
      BY <2>1 DEF TakesSecret, Begun
    <2>3. DlcSigned(Other(p), Built(p, k))
      BY <2>2 DEF Signatures
    <2>4. /\ Revokes(Other(p), tasks[p][k].other, Other(p))'
               = Revokes(Other(p), tasks[p][k].other, Other(p))
          /\ Revokes(p, k, Other(p))' = Revokes(p, k, Other(p))
      BY <1>5, <2>2, <2>3, Stays DEF Revokes
    <2>5. Revokes(Other(p), tasks[p][k].other, Other(p)) <= Revokes(p, k, Other(p))
      <3>1. CASE tasks[p][k].step = "ok"
        BY <3>1 DEF SecretsInOrder
      <3>2. CASE TakesSecret(p, k)
        <4>1. Revokes(p, k, Other(p)) \in Keys
          BY <1>1, RevokesType
        <4>2. PICK x \in Keys : x = Revokes(p, k, Other(p))
          BY <4>1
        <4>3. tasks[p][k].step = "msg2" /\ Hears(p, k, Msg2(x))
          BY <3>2, <4>2 DEF TakesSecret, Hears
        <4>4. Revokes(Other(p), tasks[p][k].other, Other(p)) <= x
          BY <4>3 DEF SecretsInOrder
        <4> QED BY <4>2, <4>4
      <3> QED BY <2>1, <3>1, <3>2
    <2> QED BY <2>4, <2>5
  <1> QED BY <1>6, <1>7, <1>8, <1>9 DEF SecretsInOrder
LEMMA OneHistoryStep ==
    ASSUME TypeOK, Counted, Secrets, Signatures, Alone, Histories, KeysInOrder, SecretsInOrder,
           OneHistory, Shape
    PROVE  OneHistory'
  <1>1. CASE dlcs' = dlcs
    BY <1>1 DEF OneHistory
  <1>2. ASSUME NEW p \in Parties, NEW k0 \in Attempts, Completes(p, k0)
        PROVE  OneHistory'
    <2> DEFINE q == Other(p)
               n == Len(dlcs[p])
               m == Len(dlcs[q])
    <2>1. /\ q \in Parties /\ q # p /\ Other(q) = p
          /\ Attempts \subseteq Nat /\ Keys \subseteq Nat
      BY TypesOf, BoundsAssumption DEF Keys
    <2>2. dlcs'[q] = dlcs[q]
      BY <1>2, <2>1 DEF Completes, TypeOK
    <2>3. CASE dlcs'[p] = dlcs[p]
      BY <2>1, <2>2, <2>3 DEF OneHistory, Parties
    <2>4. CASE dlcs'[p] # dlcs[p]
      <3>1. PICK k \in Attempts :
             /\ Completes(p, k) /\ Runs(p, k) /\ Begun(p, k) /\ tasks[p][k].from = dlcs[p]
             /\ Built(p, k) \in Dlcs /\ Built(p, k)[p] = k
             /\ Len(dlcs'[p]) = n + 1 /\ dlcs'[p][n + 1] = Built(p, k)
             /\ \A i \in 1..n : dlcs'[p][i] = dlcs[p][i]
             /\ \A i \in Attempts : i > k => ~Begun(p, i)
        BY <2>4, Appended
      <3>2. /\ n \in Nat /\ m \in Nat /\ n >= 1 /\ m >= 1
            /\ \A i \in 1..n : dlcs[p][i] \in Dlcs
            /\ \A i \in 1..m : dlcs[q][i] \in Dlcs
            /\ \A i \in 1..n : dlcs[p][i][p] \in Nat /\ dlcs[p][i][q] \in Nat
            /\ \A i \in 1..m : dlcs[q][i][p] \in Nat /\ dlcs[q][i][q] \in Nat
        <4>1. /\ Len(dlcs[p]) \in Nat /\ Len(dlcs[q]) \in Nat
              /\ \A i \in 1..Len(dlcs[p]) :
                   dlcs[p][i] \in Dlcs /\ dlcs[p][i][p] \in Keys /\ dlcs[p][i][q] \in Keys
              /\ \A i \in 1..Len(dlcs[q]) :
                   dlcs[q][i] \in Dlcs /\ dlcs[q][i][p] \in Keys /\ dlcs[q][i][q] \in Keys
          BY <2>1, Entries
        <4>2. Len(dlcs[p]) >= 1 /\ Len(dlcs[q]) >= 1
          BY <2>1 DEF Counted
        <4> QED BY <2>1, <4>1, <4>2
      <3>3. /\ n <= m + 1 /\ m <= n + 1
            /\ \A i \in 1..n : i <= m => dlcs[p][i] = dlcs[q][i]
        BY <2>1, <3>2 DEF OneHistory, Parties
      <3>4. History(p) /\ History(q)
        BY <2>1 DEF Histories, History
      (* The other party's attempt that signed the contract. *)
      <3>5. PICK o \in Attempts :
              /\ o = tasks[p][k].other /\ tasks[q][o].other = k /\ Begun(q, o)
              /\ Built(q, o) = Built(p, k)
        <4>1. tasks[p][k].step = "ok"
          BY <3>1 DEF Completes
        <4>2. DlcSigned(q, Built(p, k)) /\ Built(p, k)[q] = tasks[p][k].other
          BY <4>1, DlcTypes, BoundsAssumption DEF Signatures, Keys
        <4>3. PICK o \in Attempts : o = tasks[p][k].other /\ tasks[q][o].other = k
          BY <2>1, <3>1, <4>2 DEF DlcSigned
        <4>4. Begun(q, o)
          BY <2>1, <3>1, <4>2, <4>3, SignedStays
        <4>5. Built(q, o) = Built(p, k)
          <5>1. Built(q, o) = DlcOf(q, o, k) /\ Built(p, k) = DlcOf(p, k, o)
            BY <4>3 DEF Built
          <5>2. \A r \in Parties : r = q <=> ~(r = p)
            BY <2>1 DEF Parties, Other
          <5>3. DlcOf(q, o, k) = DlcOf(p, k, o)
            BY <5>2 DEF DlcOf
          <5> QED BY <5>1, <5>3
        <4> QED BY <4>3, <4>4, <4>5
      <3>6. /\ dlcs[p][n][q] \in revealed[q]
            /\ Revokes(q, o, q) <= dlcs[p][n][q]
        <4>1. tasks[p][k].step = "ok"
          BY <3>1 DEF Completes
        <4>2. Revokes(p, k, q) = dlcs[p][n][q]
          BY <3>1 DEF Revokes, Last
        <4>3. Revokes(p, k, q) \in revealed[q]
          BY <4>1 DEF Secrets
        <4>4. Revokes(q, o, q) <= Revokes(p, k, q)
          BY <3>5, <4>1 DEF SecretsInOrder
        <4> QED BY <4>2, <4>3, <4>4
      <3>7. n # m + 1
        <4>1. SUFFICES ASSUME n = m + 1
                       PROVE  FALSE
          OBVIOUS
        <4>2. PICK i \in 1..m : dlcs[q][i][q] = dlcs[p][n][q]
          BY <3>4, <3>6 DEF History
        <4>3. n \in 2..n /\ n \in 1..n
          BY <3>2, <4>1
        <4>4. PICK j \in Attempts : /\ j = dlcs[p][n][p] /\ tasks[p][j].step = "done"
                                    /\ dlcs[p][n] = Built(p, j)
          BY <3>4, <4>3 DEF History
        <4>5. /\ DlcSigned(q, Built(p, j)) /\ Built(p, j)[q] = tasks[p][j].other
              /\ tasks[p][j].other # 0
          <5>1. Built(p, j)[q] = tasks[p][j].other
            BY DlcTypes, BoundsAssumption DEF Keys
          <5> QED BY <4>4, <5>1 DEF Signatures
        <4>6. PICK e \in Attempts : e = dlcs[p][n][q] /\ tasks[q][e].other = j
          <5>1. Built(p, j)[p] = j
            BY DlcTypes, BoundsAssumption DEF Keys
          <5>2. /\ Built(p, j)[q] \in Attempts /\ tasks[q][Built(p, j)[q]].other = Built(p, j)[p]
            BY <2>1, <4>5 DEF DlcSigned
          <5> QED BY <4>4, <5>1, <5>2
        <4>7. i # 1
          <5>1. i = 1 => dlcs[q][i][q] = 0
            BY <2>1, <3>4 DEF History, Signed
          <5> QED BY <4>2, <4>6, <5>1 DEF Attempts
        <4>8. dlcs[q][i] = Built(q, e)
          <5>1. i \in 2..m
            BY <3>2, <4>7
          <5> QED BY <3>4, <4>2, <4>6, <5>1 DEF History
        <4>9. Built(q, e) = Built(p, j)
          <5>1. tasks[p][j].other = e
            BY <4>4, <4>5, <4>6
          <5>2. Built(q, e) = DlcOf(q, e, j) /\ Built(p, j) = DlcOf(p, j, e)
            BY <4>6, <5>1 DEF Built
          <5>3. \A r \in Parties : r = q <=> ~(r = p)
            BY <2>1 DEF Parties, Other
          <5>4. DlcOf(q, e, j) = DlcOf(p, j, e)
            BY <5>3 DEF DlcOf
          <5> QED BY <5>2, <5>4
        <4>10. dlcs[p][i] = dlcs[p][n] /\ i \in 1..n /\ i < n
          <5>1. i \in 1..n /\ i < n /\ i <= m
            BY <3>2, <4>1
          <5>2. dlcs[p][i] = dlcs[q][i]
            BY <3>3, <5>1
          <5> QED BY <4>4, <4>8, <4>9, <5>1, <5>2
        <4>11. dlcs[p][i][p] < dlcs[p][n][p] /\ dlcs[p][n][p] \in Nat
          BY <3>2, <3>4, <4>3, <4>10 DEF History
        <4> QED BY <4>10, <4>11
      <3>8. m = n + 1 => dlcs[q][m] = Built(p, k)
        <4>1. SUFFICES ASSUME m = n + 1, dlcs[q][m] # Built(p, k)
                       PROVE  FALSE
          OBVIOUS
        <4>2. m \in 2..m /\ m \in 1..m /\ n \in 1..m /\ n \in 1..n /\ n < m
          BY <3>2, <4>1
        <4>3. PICK e \in Attempts : /\ e = dlcs[q][m][q] /\ tasks[q][e].step = "done"
                                    /\ dlcs[q][m] = Built(q, e)
          BY <3>4, <4>2 DEF History
        <4>4. DlcSigned(p, Built(q, e)) /\ Built(q, e)[p] = tasks[q][e].other
          BY <2>1, <4>3, DlcTypes, BoundsAssumption DEF Signatures, Keys
        <4>5. PICK j \in Attempts : /\ j = tasks[q][e].other /\ tasks[p][j].other = e /\ Begun(p, j)
          <5>1. Built(q, e)[q] = e /\ Built(q, e) \in Dlcs
            BY <2>1, DlcTypes, BoundsAssumption DEF Keys
          <5>2. Begun(p, Built(q, e)[p])
            BY <4>4, <5>1, SignedStays
          <5> QED BY <4>4, <5>1, <5>2 DEF DlcSigned
        <4>6. j # k
          <5>1. j = k => e = o
            BY <3>5, <4>5
          <5> QED BY <3>5, <4>1, <4>3, <5>1
        <4>7. j < k
          <5>1. ~(j > k)
            BY <3>1, <4>5
          <5> QED BY <4>6, <5>1 DEF Attempts
        <4>8. e < o
          <5>1. CASE p = "taker"
            BY <3>5, <4>5, <4>7, <5>1 DEF KeysInOrder, Attempts
          <5>2. CASE p = "maker"
            <6>1. q = "taker"
              BY <5>2 DEF Other
            <6>2. o # e
              BY <3>5, <4>5, <4>6
            <6>3. o < e => tasks[q][o].other < tasks[q][e].other
              <7>1. tasks[q][e].other # 0
                BY <4>5 DEF Attempts
              <7> QED BY <6>1, <7>1 DEF KeysInOrder
            <6>4. ~(o < e)
              BY <2>1, <3>5, <4>5, <4>7, <6>3
            <6> QED BY <2>1, <6>2, <6>4
          <5> QED BY <5>1, <5>2 DEF Parties
        <4>9. Revokes(q, o, q) = dlcs[q][m][q]
          <5>1. Start(q, o)
            BY <2>1, <3>5 DEF Histories, Start
          <5>2. tasks[q][o].from \in Seq(Dlcs)
            BY <2>1, TypesOf
          <5>3. Len(tasks[q][o].from) \in Nat
            BY <5>2
          <5>4. m <= Len(tasks[q][o].from)
            BY <4>2, <4>3, <4>8, <5>1 DEF Start
          <5>5. Len(tasks[q][o].from) = m
            BY <3>2, <5>1, <5>3, <5>4 DEF Start
          <5>6. tasks[q][o].from[m] = dlcs[q][m]
            BY <4>2, <5>1, <5>5 DEF Start
          <5>7. Last(tasks[q][o].from) = dlcs[q][m]
            BY <5>5, <5>6 DEF Last
          <5> QED BY <5>7 DEF Revokes
        <4>10. dlcs[p][n] = dlcs[q][n]
          BY <3>3, <4>2, <3>2, SMTT(30)
        <4>11. dlcs[q][n][q] < dlcs[q][m][q]
          BY <3>4, <4>2 DEF History
        <4>12. PICK a, b \in Nat : a = dlcs[q][n][q] /\ b = dlcs[q][m][q]
          BY <3>2, <4>2
        <4> QED BY <3>6, <4>9, <4>10, <4>11, <4>12
      <3>9. /\ n + 1 <= m + 1 /\ m <= n + 2
            /\ \A i \in 1..(n + 1) : i <= m => dlcs'[p][i] = dlcs[q][i]
        <4>1. n + 1 <= m + 1 /\ m <= n + 2
          BY <3>2, <3>3, <3>7
        <4>2. ASSUME NEW i \in 1..(n + 1), i <= m
              PROVE  dlcs'[p][i] = dlcs[q][i]
          <5>1. CASE i \in 1..n
            BY <3>1, <3>3, <4>2, <5>1
          <5>2. CASE i = n + 1
            <6>1. m = n + 1
              BY <3>2, <3>3, <4>2, <5>2
            <6> QED BY <3>1, <3>8, <5>2, <6>1
          <5> QED BY <3>2, <5>1, <5>2
        <4> QED BY <4>1, <4>2
      <3>10. /\ Len(dlcs'[p]) <= Len(dlcs'[q]) + 1 /\ Len(dlcs'[q]) <= Len(dlcs'[p]) + 1
             /\ \A i \in 1..Len(dlcs'[p]) : i <= Len(dlcs'[q]) => dlcs'[p][i] = dlcs'[q][i]
             /\ \A i \in 1..Len(dlcs'[q]) : i <= Len(dlcs'[p]) => dlcs'[q][i] = dlcs'[p][i]
        BY <2>2, <3>1, <3>2, <3>9
      <3>11. (p = "maker" /\ q = "taker") \/ (p = "taker" /\ q = "maker")
        BY DEF Parties, Other
      <3> HIDE DEF q
      <3> QED BY <3>10, <3>11 DEF OneHistory
    <2> QED BY <2>3, <2>4
  <1> QED BY <1>1, <1>2, Grows
-----------------------------------------------------------------------------
(* The invariant.                                                          *)

LEMMA InitHolds == Init => IInv
  <1> SUFFICES ASSUME Init
               PROVE  IInv
    OBVIOUS
  <1>1. /\ 0 \in Keys /\ 1 \in Sessions /\ Attempts \subseteq Nat
        /\ MaxRestarts \in Nat /\ MaxTimeouts \in Nat /\ MaxKeys \in Nat
    BY BoundsAssumption DEF Keys, Sessions, Attempts
  <1>2. Signed \in Dlcs /\ <<Signed>> \in Seq(Dlcs) /\ \A q \in Parties : Signed[q] = 0
    <2>1. Signed \in Dlcs /\ \A q \in Parties : Signed[q] = 0
      BY <1>1 DEF Signed, Dlcs
    <2> HIDE DEF Signed
    <2> QED BY <2>1
  <1>3. /\ \A p \in Parties : dlcs[p] = <<Signed>> /\ Len(dlcs[p]) = 1 /\ dlcs[p][1] = Signed
        /\ \A p \in Parties, k \in Attempts :
             /\ tasks[p][k].step = "none" /\ tasks[p][k].from = <<Signed>>
             /\ tasks[p][k].sess = 1 /\ tasks[p][k].other = 0 /\ tasks[p][k].inbox = <<>>
             /\ Len(tasks[p][k].from) = 1
    <2> HIDE DEF Signed
    <2> QED BY DEF Init, Task
  <1>4. TypeOK
    <2>1. Task("none", <<Signed>>, 1) \in Tasks
      BY <1>1, <1>2 DEF Task, Tasks
    <2>2. \A p \in Parties, k \in Attempts : rolling[p] # k
      BY NoneAssumption DEF Init
    <2>3. tasks \in [Parties -> [Attempts -> Tasks]] /\ dlcs \in [Parties -> Seq(Dlcs)]
      BY <1>2, <2>1 DEF Init
    <2>4. /\ toMaker \in [Sessions -> Seq(ToMaker)] /\ toTaker \in Seq(ToTaker)
      BY DEF Init
    <2>5. /\ watch \in [Parties -> SUBSET Dlcs] /\ spy \in [Parties -> SUBSET Dlcs]
          /\ revealed \in [Parties -> SUBSET Keys] /\ onChain \in Dlcs \cup {None}
          /\ restarts \in [Parties -> 0..MaxRestarts] /\ timeouts \in 0..MaxTimeouts
      BY <1>1, <1>2 DEF Init
    <2>6. /\ state \in [Parties -> {"Open", "PendingCommit", "Committed"}]
          /\ alive \in [Parties -> BOOLEAN] /\ proposed \in BOOLEAN
          /\ offered \in Sessions \cup {None} /\ rolling \in [Parties -> Attempts \cup {None}]
          /\ sess \in Sessions /\ linked \in BOOLEAN /\ overlapped \in BOOLEAN
      BY <1>1 DEF Init
    <2> QED BY <2>2, <2>3, <2>4, <2>5, <2>6 DEF TypeOK
  <1>5. Counted
    <2>1. sess = restarts["taker"] + 1
      BY DEF Init, Parties
    <2> QED BY <1>3, <2>1 DEF Counted, Begun
  <1>6. /\ \A p \in Parties, s \in Sessions : Incoming(p, s) = <<>>
        /\ \A p \in Parties, s \in Sessions : \A m : ~InQueue(p, s, m)
        /\ \A p \in Parties, k \in Attempts : \A m : ~InInbox(p, k, m) /\ ~Hears(p, k, m)
        /\ \A p \in Parties, k \in Attempts : \A a, b : ~Follows(p, k, a, b)
    <2>1. \A p \in Parties, s \in Sessions : Incoming(p, s) = <<>>
      BY DEF Init, Incoming
    <2>2. \A p \in Parties, s \in Sessions : \A m : ~InQueue(p, s, m)
      BY <2>1, EmptyHas DEF InQueue
    <2>3. \A p \in Parties, k \in Attempts : \A m : ~InInbox(p, k, m)
      BY <1>3, EmptyHas DEF InInbox
    <2>4. \A p \in Parties, k \in Attempts : \A m : ~Hears(p, k, m)
      BY <1>1, <1>3, <2>2, <2>3 DEF Hears
    <2>5. \A p \in Parties, k \in Attempts : \A a, b : ~Follows(p, k, a, b)
      BY <1>3, <2>3, EmptyHas DEF Follows
    <2> QED BY <2>1, <2>2, <2>3, <2>4, <2>5
  <1>7. Secrets
    <2>1. \A p \in Parties : Held(p, <<Signed>>)
      <3> HIDE DEF Signed
      <3> QED BY DEF Held
    <2> QED BY <1>3, <1>6, <2>1 DEF Secrets
  <1>8. Signatures
    BY <1>3, <1>6 DEF Signatures
  <1>9. Alone
    BY <1>3 DEF Alone, Runs, Waiting
  <1>10. Histories
    <2>1. \A p \in Parties : revealed[p] = {}
      BY DEF Init
    <2>2. ASSUME NEW p \in Parties
          PROVE  History(p)
      BY <1>3, <2>1 DEF History
    <2> QED BY <1>3, <2>2 DEF Histories, History, Begun
  <1>11. KeysInOrder
    <2>1. toTaker = <<>> /\ "taker" \in Parties
      BY DEF Init, Parties
    <2> QED BY <1>3, <1>6, <2>1, EmptyHas DEF KeysInOrder
  <1>12. SecretsInOrder
    BY <1>3, <1>6, EmptyHas DEF SecretsInOrder
  <1>13. Watched
    <2>1. \A p \in Parties : Signed \in Range(dlcs[p])
      <3>1. \A p \in Parties : 1 \in DOMAIN dlcs[p]
        BY <1>3
      <3> QED BY <1>3, <3>1 DEF Range
    <2>2. \A p \in Parties : watch[p] = {Signed} /\ state[p] = "Open"
      BY DEF Init
    <2> QED BY <2>1, <2>2 DEF Watched
  <1>14. OneHistory
    BY <1>3 DEF OneHistory, Parties
  <1> QED BY <1>4, <1>5, <1>7, <1>8, <1>9, <1>10, <1>11, <1>12, <1>13, <1>14 DEF IInv

LEMMA NextHolds == IInv /\ [Next]_vars => IInv'
  <1> SUFFICES ASSUME IInv, [Next]_vars
               PROVE  IInv'
    OBVIOUS
  <1>1. TypeOK /\ Counted /\ Secrets /\ Signatures
    BY DEF IInv
  <1>2. Effect /\ Shape
    BY <1>1, StepShape
  <1>3. TypeOK' /\ Counted'
    BY <1>1, <1>2, CountedStep DEF Effect
  <1>4. QueueStep
    BY <1>1, <1>2, QueueStepFrom DEF Effect
  <1>5. InboxStep
    BY <1>1, <1>2, <1>4, InboxStepFrom DEF Effect
  <1>6. Secrets' /\ Signatures'
    BY <1>1, <1>2, <1>4, <1>5, SecretsStep, SignaturesStep
  <1>7. CASE overlapped'
    BY <1>3, <1>6, <1>7 DEF IInv
  <1>8. CASE ~overlapped'
    <2>1. Alone /\ Histories /\ KeysInOrder /\ SecretsInOrder /\ Watched /\ OneHistory
      BY <1>1, <1>2, <1>8, Grows DEF IInv
    <2>2. Alone'
      BY <1>1, <1>2, <1>8, <2>1, AloneStep
    <2>3. Histories'
      BY <1>1, <1>2, <1>8, <2>1, HistoriesStep
    <2>4. KeysInOrder'
      BY <1>1, <1>2, <1>4, <1>5, <1>8, <2>1, KeysInOrderStep
    <2>5. SecretsInOrder'
      BY <1>1, <1>2, <1>4, <1>5, <2>1, SecretsInOrderStep
    <2>6. Watched'
      BY <1>1, <1>2, <2>1, WatchedStep
    <2>7. OneHistory'
      BY <1>1, <1>2, <2>1, OneHistoryStep
    <2> QED BY <1>3, <1>6, <2>2, <2>3, <2>4, <2>5, <2>6, <2>7 DEF IInv
  <1> QED BY <1>7, <1>8

THEOREM InvariantHolds == Spec => []IInv
  <1> QED BY InitHolds, NextHolds, PTL DEF Spec

(* Types, and the stored sender of either cfd actor is that of an attempt  *)
(* that began.                                                             *)
THEOREM TypeCorrect == Spec => []TypeOK
  <1>1. IInv => TypeOK
    BY DEF IInv
  <1> QED BY <1>1, InvariantHolds, PTL

(* However attempts overlap, fail, time out or are cut off by a restart, a *)
(* party that replaced a contract holds the other party's revocation       *)
(* secret of it: handle_cfd_roll_over_completed stores what receiving Msg2 *)
(* checked.                                                                *)
THEOREM SecretsHeld == Spec => []RevocationsHeld
  <1>1. IInv => RevocationsHeld
    BY DEF IInv, Secrets, Held, RevocationsHeld
  <1> QED BY <1>1, InvariantHolds, PTL

LEMMA PrefixBy ==
    ASSUME NEW S, NEW g \in Seq(S), NEW h \in Seq(S), Len(g) <= Len(h),
           \A i \in 1..Len(g) : g[i] = h[i]
    PROVE  IsPrefix(g, h)
  <1>1. g = SubSeq(h, 1, Len(g))
    <2>1. Len(g) \in Nat /\ Len(h) \in Nat
      OBVIOUS
    <2>2. \A i \in 1..Len(g) : h[i] \in S
      BY <2>1
    <2>3. /\ SubSeq(h, 1, Len(g)) \in Seq(S)
          /\ Len(SubSeq(h, 1, Len(g))) = Len(g)
          /\ \A i \in 1..Len(g) : SubSeq(h, 1, Len(g))[i] = h[i]
      BY <2>1, <2>2
    <2> QED BY <2>3
  <1> QED BY <1>1 DEF IsPrefix

(* Unless an attempt began before an earlier one had ended, the contracts  *)
(* maker and taker hold and held are one history, of which one party has   *)
(* at most one contract more.                                              *)
THEOREM HistoryShared == Spec => []SameHistory
  <1>1. IInv => SameHistory
    <2> SUFFICES ASSUME IInv, ~overlapped
                 PROVE  SameHistory
      BY DEF SameHistory
    <2>1. OneHistory /\ TypeOK
      BY DEF IInv
    <2>2. dlcs["maker"] \in Seq(Dlcs) /\ dlcs["taker"] \in Seq(Dlcs)
      BY <2>1 DEF TypeOK, Parties
    <2>3. Len(dlcs["maker"]) \in Nat /\ Len(dlcs["taker"]) \in Nat
      BY <2>2
    <2>4. CASE Len(dlcs["maker"]) <= Len(dlcs["taker"])
      <3>1. \A i \in 1..Len(dlcs["maker"]) : dlcs["maker"][i] = dlcs["taker"][i]
        BY <2>1, <2>3, <2>4 DEF OneHistory
      <3>2. IsPrefix(dlcs["maker"], dlcs["taker"])
        BY <2>2, <2>4, <3>1, PrefixBy
      <3> QED BY <2>1, <3>2 DEF SameHistory, OneHistory
    <2>5. CASE Len(dlcs["taker"]) <= Len(dlcs["maker"])
      <3>1. \A i \in 1..Len(dlcs["taker"]) : dlcs["taker"][i] = dlcs["maker"][i]
        BY <2>1, <2>3, <2>5 DEF OneHistory
      <3>2. IsPrefix(dlcs["taker"], dlcs["maker"])
        BY <2>2, <2>5, <3>1, PrefixBy
      <3> QED BY <2>1, <3>2 DEF SameHistory, OneHistory
    <2> QED BY <2>3, <2>4, <2>5
  <1> QED BY <1>1, InvariantHolds, PTL

(* Unless an attempt began before an earlier one had ended, the commit tx  *)
(* a party recorded as final is of a contract it holds or held.            *)
THEOREM CommitKnown == Spec => []CommitIsOfItsHistory
  <1>1. IInv => CommitIsOfItsHistory
    BY DEF IInv, Watched, CommitIsOfItsHistory
  <1> QED BY <1>1, InvariantHolds, PTL

(***************************************************************************)
(* Agreement                                                               *)
(***************************************************************************)

(* Nothing was given up, nobody restarted, no attempts overlapped.         *)
Calm == ~overlapped /\ timeouts = 0 /\ \A p \in Parties : restarts[p] = 0 /\ alive[p]

(* The attempt p makes or makes next, what it waits for, what it has got.  *)
Now(p)    == Len(dlcs[p])
Step(p)   == IF Now(p) \in Attempts THEN tasks[p][Now(p)].step ELSE "none"
Awaits(p) == Step(p) \in {"msg0", "msg1", "msg2"}
Inbox(p)  == IF Awaits(p) THEN tasks[p][Now(p)].inbox ELSE <<>>

(* The messages of all attempts in the order in which they are exchanged:  *)
(* how many p has read and said, which one a message is.                   *)
HasRead(p) == 3 * Now(p) + (IF Step(p) = "msg1" THEN 1 ELSE
                            IF Step(p) = "msg2" THEN 2 ELSE
                            IF Step(p) = "ok" THEN 3 ELSE 0)
HasSaid(p) == 3 * Now(p) + (IF Step(p) = "msg0" THEN 1 ELSE
                            IF Step(p) = "msg1" THEN 2 ELSE
                            IF Step(p) \in {"msg2", "ok"} THEN 3 ELSE 0)
Rank(m) == IF m.kind = "msg0" THEN 3 * m.key ELSE
           IF m.kind = "msg1" THEN 3 * m.dlc["maker"] + 1 ELSE 3 * m.key + 5

(* What is on the way to p, and in which order.                            *)
In(u, v, m)      == Has(u, m) \/ Has(v, m)
Along(u, v, a, b) == Before(u, a, b) \/ Before(v, a, b) \/ (Has(u, a) /\ Has(v, b))
OnWay(p, m)      == In(Inbox(p), Incoming(p, 1), m)
InOrder(p, a, b) == Along(Inbox(p), Incoming(p, 1), a, b)

Pair(n) == [q \in Parties |-> n]

Numbered == \A p \in Parties : \A i \in 1..Now(p) : dlcs[p][i] = Pair(i - 1)

Placed == \A p \in Parties, k \in Attempts :
    /\ k < Now(p) => tasks[p][k].step = "done"
    /\ k > Now(p) => tasks[p][k].step = "none"
    /\ k = Now(p) =>
         /\ tasks[p][k].step \in {"none", "msg0", "msg1", "msg2", "ok"}
         /\ tasks[p][k].step # "none" =>
              rolling[p] = k /\ tasks[p][k].sess = 1 /\ tasks[p][k].from = dlcs[p]
         /\ tasks[p][k].step \in {"msg1", "msg2", "ok"} => tasks[p][k].other = k

OneLink ==
    /\ sess = 1 /\ linked /\ offered \in {None, 1}
    /\ \A s \in Sessions : s # 1 => toMaker[s] = <<>>

(* The messages on the way are those the other party said and p has not    *)
(* read, in their order; while p waits, none is missing.                   *)
Stream(p) ==
    /\ \A m \in RollOverMsgs : OnWay(p, m) =>
         /\ HasRead(p) <= Rank(m) /\ Rank(m) < HasSaid(Other(p))
         /\ m.kind = "msg1" => m.dlc["maker"] = m.dlc["taker"]
    /\ \A a, b \in RollOverMsgs : InOrder(p, a, b) => Rank(a) < Rank(b)
    /\ Awaits(p) => \A r \in Nat : HasRead(p) <= r /\ r < HasSaid(Other(p)) =>
         \E m \in RollOverMsgs : OnWay(p, m) /\ Rank(m) = r

Began(p) == IF Step(p) = "none" THEN Now(p) - 1 ELSE Now(p)

Counts ==
    /\ \A p \in Parties : HasRead(p) <= HasSaid(Other(p))
    /\ Began("taker") <= Began("maker")
    /\ \A p \in Parties : \A x \in revealed[p] : 3 * x + 5 < HasSaid(p)

(* A proposal is in one place: on its way, with the maker, rejected, or    *)
(* accepted by an attempt the taker has not begun.                         *)
TokensIn(v, w, pending, offer, bt, bm) ==
    /\ Has(v, Notice("propose")) =>
         pending /\ offer = None /\ ~Has(w, Notice("reject")) /\ ~(bt < bm)
    /\ offer # None => pending /\ ~Has(w, Notice("reject")) /\ ~(bt < bm)
    /\ Has(w, Notice("reject")) => pending /\ ~(bt < bm)
    /\ bt < bm => pending
    /\ ~Before(v, Notice("propose"), Notice("propose"))
    /\ ~Before(w, Notice("reject"), Notice("reject"))
    /\ ~Before(w, Notice("confirm"), Notice("confirm"))
    /\ Has(w, Notice("confirm")) =>
         bt < bm /\ Before(w, Notice("confirm"), Msg0(bm))
Tokens == TokensIn(toMaker[1], toTaker, proposed, offered, Began("taker"), Began("maker"))

InStep == /\ Numbered /\ Placed /\ OneLink
          /\ \A p \in Parties : Stream(p)
          /\ Counts /\ Tokens

-----------------------------------------------------------------------------
(* Queues that keep what they have.                                        *)

LEMMA AppendHas ==
    ASSUME NEW S, NEW q \in Seq(S), NEW m \in S
    PROVE  /\ Has(Append(q, m), m)
           /\ \A a : Has(q, a) => Has(Append(q, m), a) /\ Before(Append(q, m), a, m)
           /\ \A a, b : Before(q, a, b) => Before(Append(q, m), a, b)
  <1> DEFINE r == Append(q, m)
  <1>1. /\ Len(q) \in Nat /\ Len(r) = Len(q) + 1 /\ r[Len(q) + 1] = m
        /\ \A i \in 1..Len(q) : r[i] = q[i]
        /\ \A i \in 1..Len(q) : i \in 1..Len(r) /\ i < Len(q) + 1
        /\ Len(q) + 1 \in 1..Len(r)
    OBVIOUS
  <1> HIDE DEF r
  <1>2. Has(r, m)
    BY <1>1 DEF Has
  <1>3. ASSUME NEW a, Has(q, a)
        PROVE  Has(r, a) /\ Before(r, a, m)
    <2>1. PICK i \in 1..Len(q) : q[i] = a
      BY <1>3 DEF Has
    <2> QED BY <1>1, <2>1 DEF Has, Before
  <1>4. ASSUME NEW a, NEW b, Before(q, a, b)
        PROVE  Before(r, a, b)
    <2>1. PICK i, j \in 1..Len(q) : i < j /\ q[i] = a /\ q[j] = b
      BY <1>4 DEF Before
    <2> QED BY <1>1, <2>1 DEF Before
  <1> QED BY <1>2, <1>3, <1>4 DEF r

LEMMA TailHas ==
    ASSUME NEW S, NEW q \in Seq(S), q # <<>>
    PROVE  /\ \A a : Has(q, a) => a = Head(q) \/ Has(Tail(q), a)
           /\ \A a, b : Before(q, a, b) => a = Head(q) \/ Before(Tail(q), a, b)
  <1> DEFINE r == Tail(q)
  <1>1. /\ Len(q) \in Nat /\ Len(q) >= 1 /\ Len(r) = Len(q) - 1 /\ q[1] = Head(q)
        /\ \A i \in 1..Len(q) : i # 1 => i - 1 \in 1..Len(r) /\ r[i - 1] = q[i]
    OBVIOUS
  <1> HIDE DEF r
  <1>2. ASSUME NEW a, Has(q, a), a # Head(q)
        PROVE  Has(r, a)
    <2>1. PICK i \in 1..Len(q) : q[i] = a
      BY <1>2 DEF Has
    <2>2. i # 1
      BY <1>1, <1>2, <2>1
    <2> QED BY <1>1, <2>1, <2>2 DEF Has
  <1>3. ASSUME NEW a, NEW b, Before(q, a, b), a # Head(q)
        PROVE  Before(r, a, b)
    <2>1. PICK i, j \in 1..Len(q) : i < j /\ q[i] = a /\ q[j] = b
      BY <1>3 DEF Before
    <2>2. i # 1 /\ j # 1
      BY <1>1, <1>3, <2>1
    <2>3. /\ i - 1 \in 1..Len(r) /\ j - 1 \in 1..Len(r) /\ i - 1 < j - 1
          /\ r[i - 1] = a /\ r[j - 1] = b
      BY <1>1, <2>1, <2>2
    <2> QED BY <2>3 DEF Before
  <1> QED BY <1>2, <1>3 DEF r

(* The first message goes from the wire to the inbox.                      *)
LEMMA Passes ==
    ASSUME NEW S, NEW u \in Seq(S), NEW v \in Seq(S), v # <<>>
    PROVE  /\ \A m : In(Append(u, Head(v)), Tail(v), m) <=> In(u, v, m)
           /\ \A a, b : Along(Append(u, Head(v)), Tail(v), a, b) => Along(u, v, a, b)
  <1> DEFINE h == Head(v)
             r == Tail(v)
             w == Append(u, h)
  <1>1. /\ h \in S /\ Has(v, h)
        /\ \A a : Has(r, a) => Has(v, a) /\ Before(v, h, a)
        /\ \A a, b : Before(r, a, b) => Before(v, a, b)
    BY HasTail
  <1>2. \A a : Has(v, a) => a = h \/ Has(r, a)
    BY TailHas
  <1>3. /\ \A a : Has(w, a) => Has(u, a) \/ a = h
        /\ \A a, b : Before(w, a, b) => Before(u, a, b) \/ (Has(u, a) /\ b = h)
    BY <1>1, HasAppend
  <1>4. Has(w, h) /\ \A a : Has(u, a) => Has(w, a)
    BY <1>1, AppendHas
  <1> HIDE DEF h, r, w
  <1>5. \A m : In(w, r, m) <=> In(u, v, m)
    BY <1>1, <1>2, <1>3, <1>4 DEF In
  <1>6. \A a, b : Along(w, r, a, b) => Along(u, v, a, b)
    BY <1>1, <1>3 DEF Along
  <1> QED BY <1>5, <1>6 DEF h, r, w

(* The first message of the inbox is read.                                 *)
LEMMA IsRead ==
    ASSUME NEW S, NEW u \in Seq(S), NEW v, u # <<>>
    PROVE  /\ \A m : In(Tail(u), v, m) => In(u, v, m) /\ Along(u, v, Head(u), m)
           /\ \A m : In(u, v, m) => m = Head(u) \/ In(Tail(u), v, m)
           /\ \A a, b : Along(Tail(u), v, a, b) => Along(u, v, a, b)
           /\ \A m : In(<<>>, v, m) => In(u, v, m) /\ Along(u, v, Head(u), m)
           /\ \A a, b : Along(<<>>, v, a, b) => Along(u, v, a, b)
           /\ In(u, v, Head(u)) /\ Head(u) \in S
  <1> DEFINE h == Head(u)
             r == Tail(u)
  <1>1. /\ \A a : Has(r, a) => Has(u, a) /\ Before(u, h, a)
        /\ \A a, b : Before(r, a, b) => Before(u, a, b)
        /\ Has(u, h) /\ h \in S
    BY HasTail
  <1>2. \A a : Has(u, a) => a = h \/ Has(r, a)
    BY TailHas
  <1>3. \A a, b : ~Has(<<>>, a) /\ ~Before(<<>>, a, b)
    BY EmptyHas
  <1> HIDE DEF h, r
  <1>4. \A m : In(r, v, m) => In(u, v, m) /\ Along(u, v, h, m)
    BY <1>1 DEF In, Along
  <1>5. \A m : In(u, v, m) => m = h \/ In(r, v, m)
    BY <1>2 DEF In
  <1>6. \A a, b : Along(r, v, a, b) => Along(u, v, a, b)
    BY <1>1 DEF Along
  <1>7. \A m : In(<<>>, v, m) => In(u, v, m) /\ Along(u, v, h, m)
    BY <1>1, <1>3 DEF In, Along
  <1>8. \A a, b : Along(<<>>, v, a, b) => Along(u, v, a, b)
    BY <1>3 DEF Along
  <1> QED BY <1>1, <1>4, <1>5, <1>6, <1>7, <1>8 DEF h, r, In

(* A message is sent.                                                      *)
LEMMA IsSent ==
    ASSUME NEW S, NEW u, NEW v \in Seq(S), NEW m \in S
    PROVE  /\ \A a : In(u, Append(v, m), a) <=> In(u, v, a) \/ a = m
           /\ \A a, b : Along(u, Append(v, m), a, b) => Along(u, v, a, b) \/ (In(u, v, a) /\ b = m)
  <1> DEFINE w == Append(v, m)
  <1>1. /\ \A a : Has(w, a) => Has(v, a) \/ a = m
        /\ \A a, b : Before(w, a, b) => Before(v, a, b) \/ (Has(v, a) /\ b = m)
    BY HasAppend
  <1>2. Has(w, m) /\ \A a : Has(v, a) => Has(w, a)
    BY AppendHas
  <1> HIDE DEF w
  <1>3. \A a : In(u, w, a) <=> In(u, v, a) \/ a = m
    BY <1>1, <1>2 DEF In
  <1>4. \A a, b : Along(u, w, a, b) => Along(u, v, a, b) \/ (In(u, v, a) /\ b = m)
    BY <1>1 DEF Along, In
  <1> QED BY <1>3, <1>4 DEF w

LEMMA IsSaid ==
    ASSUME NEW u, NEW v \in Seq(AnyMsg), NEW m \in RollOverMsgs
    PROVE  /\ \A a : In(u, Append(v, m), a) <=> In(u, v, a) \/ a = m
           /\ \A a, b : Along(u, Append(v, m), a, b) => Along(u, v, a, b) \/ (In(u, v, a) /\ b = m)
  <1>1. m \in AnyMsg
    BY Messages
  <1> QED BY <1>1, IsSent

(* The first message of the wire is taken off.                             *)
LEMMA IsTaken ==
    ASSUME NEW S, NEW u, NEW v \in Seq(S), v # <<>>
    PROVE  /\ \A m : In(u, Tail(v), m) => In(u, v, m)
           /\ \A m : In(u, v, m) => m = Head(v) \/ In(u, Tail(v), m)
           /\ \A a, b : Along(u, Tail(v), a, b) => Along(u, v, a, b)
  <1> DEFINE r == Tail(v)
  <1>1. /\ \A a : Has(r, a) => Has(v, a)
        /\ \A a, b : Before(r, a, b) => Before(v, a, b)
    BY HasTail
  <1>2. \A a : Has(v, a) => a = Head(v) \/ Has(r, a)
    BY TailHas
  <1> HIDE DEF r
  <1>3. \A m : In(u, r, m) => In(u, v, m)
    BY <1>1 DEF In
  <1>4. \A m : In(u, v, m) => m = Head(v) \/ In(u, r, m)
    BY <1>2 DEF In
  <1>5. \A a, b : Along(u, r, a, b) => Along(u, v, a, b)
    BY <1>1 DEF Along
  <1> QED BY <1>3, <1>4, <1>5 DEF r

LEMMA WayNext ==
    ASSUME NEW p \in Parties
    PROVE  /\ \A m : OnWay(p, m)' <=> In(Inbox(p)', Incoming(p, 1)', m)
           /\ \A a, b : InOrder(p, a, b)' <=> Along(Inbox(p)', Incoming(p, 1)', a, b)
  BY DEF OnWay, InOrder, In, Along, Has, Before

-----------------------------------------------------------------------------
(* Streams.                                                                *)

LEMMA Ranks ==
    /\ \A m \in RollOverMsgs : Rank(m) \in Nat
    /\ \A m \in RollOverMsgs : m.kind = "msg0" => m.key \in Nat /\ Rank(m) = 3 * m.key
    /\ \A m \in RollOverMsgs : m.kind = "msg1" =>
         m.dlc["maker"] \in Nat /\ Rank(m) = 3 * m.dlc["maker"] + 1
    /\ \A m \in RollOverMsgs : m.kind = "msg2" => m.key \in Nat /\ Rank(m) = 3 * m.key + 5
  <1>1. Keys \subseteq Nat
    BY BoundsAssumption DEF Keys
  <1>2. \A m \in RollOverMsgs :
          \/ m.kind = "msg0" /\ m.key \in Keys
          \/ m.kind = "msg1" /\ m.dlc["maker"] \in Keys
          \/ m.kind = "msg2" /\ m.key \in Keys
    <2>1. \A d \in Dlcs : d["maker"] \in Keys
      BY DEF Dlcs, Parties
    <2> QED BY <2>1, Messages
  <1>3. ASSUME NEW m \in RollOverMsgs
        PROVE  \/ m.kind = "msg0" /\ m.key \in Nat /\ Rank(m) = 3 * m.key
               \/ m.kind = "msg1" /\ m.dlc["maker"] \in Nat /\ Rank(m) = 3 * m.dlc["maker"] + 1
               \/ m.kind = "msg2" /\ m.key \in Nat /\ Rank(m) = 3 * m.key + 5
    BY <1>1, <1>2 DEF Rank
  <1>4. \A m \in RollOverMsgs : Rank(m) \in Nat
    BY <1>3
  <1> QED BY <1>3, <1>4

LEMMA Numbers ==
    ASSUME TypeOK, NEW p \in Parties
    PROVE  /\ Now(p) \in Nat /\ HasRead(p) \in Nat /\ HasSaid(p) \in Nat /\ Began(p) \in Int
           /\ 3 * Now(p) <= HasRead(p) /\ 3 * Now(p) <= HasSaid(p)
           /\ HasSaid(p) <= 3 * Began(p) + 3
           /\ Step(p) \in Steps
  <1>1. Now(p) \in Nat
    BY DEF Now, TypeOK
  <1>2. Step(p) \in Steps
    BY TypesOf DEF Step, Steps
  <1>3. HasRead(p) \in Nat /\ 3 * Now(p) <= HasRead(p)
    BY <1>1 DEF HasRead
  <1>4. HasSaid(p) \in Nat /\ 3 * Now(p) <= HasSaid(p)
    BY <1>1 DEF HasSaid
  <1>5. Began(p) \in Int /\ HasSaid(p) <= 3 * Began(p) + 3
    BY <1>1 DEF Began, HasSaid
  <1> QED BY <1>1, <1>2, <1>3, <1>4, <1>5

(* Nothing protocol-like happens to the stream.                            *)
LEMMA StreamKept ==
    ASSUME NEW p \in Parties, Stream(p),
           HasRead(p)' = HasRead(p), HasSaid(Other(p))' = HasSaid(Other(p)),
           \A m \in RollOverMsgs : OnWay(p, m)' => OnWay(p, m),
           \A a, b \in RollOverMsgs : InOrder(p, a, b)' => InOrder(p, a, b),
           Awaits(p)' => Awaits(p) /\ \A m \in RollOverMsgs : OnWay(p, m) => OnWay(p, m)'
    PROVE  Stream(p)'
  BY DEF Stream

(* The other party says the next message.                                  *)
LEMMA StreamSaid ==
    ASSUME TypeOK, TypeOK', NEW p \in Parties, Stream(p), NEW said \in RollOverMsgs,
           HasRead(p) <= HasSaid(Other(p)),
           Rank(said) = HasSaid(Other(p)),
           said.kind = "msg1" => said.dlc["maker"] = said.dlc["taker"],
           HasRead(p)' = HasRead(p), HasSaid(Other(p))' = HasSaid(Other(p)) + 1,
           \A m \in RollOverMsgs : OnWay(p, m)' <=> OnWay(p, m) \/ m = said,
           \A a, b \in RollOverMsgs : InOrder(p, a, b)' =>
             InOrder(p, a, b) \/ (OnWay(p, a) /\ b = said),
           Awaits(p)' => Awaits(p)
    PROVE  Stream(p)'
  <1>1. /\ HasRead(p) \in Nat /\ HasSaid(Other(p)) \in Nat
        /\ \A m \in RollOverMsgs : Rank(m) \in Nat
    BY Numbers, Ranks, TypesOf
  <1>2. ASSUME NEW m \in RollOverMsgs, OnWay(p, m)'
        PROVE  /\ HasRead(p)' <= Rank(m) /\ Rank(m) < HasSaid(Other(p))'
               /\ m.kind = "msg1" => m.dlc["maker"] = m.dlc["taker"]
    <2>1. CASE OnWay(p, m)
      <3>1. /\ HasRead(p) <= Rank(m) /\ Rank(m) < HasSaid(Other(p))
            /\ m.kind = "msg1" => m.dlc["maker"] = m.dlc["taker"]
        BY <2>1 DEF Stream
      <3> QED BY <1>1, <3>1
    <2>2. CASE m = said
      BY <1>1, <2>2
    <2> QED BY <1>2, <2>1, <2>2
  <1>3. ASSUME NEW a \in RollOverMsgs, NEW b \in RollOverMsgs, InOrder(p, a, b)'
        PROVE  Rank(a) < Rank(b)
    <2>1. CASE InOrder(p, a, b)
      BY <2>1 DEF Stream
    <2>2. CASE OnWay(p, a) /\ b = said
      BY <1>1, <2>2 DEF Stream
    <2> QED BY <1>3, <2>1, <2>2
  <1>4. ASSUME Awaits(p)', NEW r \in Nat, HasRead(p)' <= r, r < HasSaid(Other(p))'
        PROVE  \E m \in RollOverMsgs : OnWay(p, m)' /\ Rank(m) = r
    <2>1. CASE r = HasSaid(Other(p))
      BY <2>1
    <2>2. CASE r # HasSaid(Other(p))
      <3>1. r < HasSaid(Other(p)) /\ HasRead(p) <= r
        BY <1>1, <1>4, <2>2
      <3>2. PICK m \in RollOverMsgs : OnWay(p, m) /\ Rank(m) = r
        BY <1>4, <3>1 DEF Stream
      <3> QED BY <3>2
    <2> QED BY <2>1, <2>2
  <1> QED BY <1>2, <1>3, <1>4 DEF Stream

(* p reads the next message.                                               *)
LEMMA StreamRead ==
    ASSUME TypeOK, TypeOK', NEW p \in Parties, Stream(p), NEW head \in RollOverMsgs,
           Rank(head) = HasRead(p),
           HasRead(p)' = HasRead(p) + 1, HasSaid(Other(p))' = HasSaid(Other(p)),
           \A m \in RollOverMsgs : OnWay(p, m)' => OnWay(p, m) /\ InOrder(p, head, m),
           \A a, b \in RollOverMsgs : InOrder(p, a, b)' => InOrder(p, a, b),
           Awaits(p)' => /\ Awaits(p)
                         /\ \A m \in RollOverMsgs : OnWay(p, m) => m = head \/ OnWay(p, m)'
    PROVE  Stream(p)'
  <1>1. /\ HasRead(p) \in Nat /\ HasSaid(Other(p)) \in Nat
        /\ \A m \in RollOverMsgs : Rank(m) \in Nat
    BY Numbers, Ranks, TypesOf
  <1>2. ASSUME NEW m \in RollOverMsgs, OnWay(p, m)'
        PROVE  /\ HasRead(p)' <= Rank(m) /\ Rank(m) < HasSaid(Other(p))'
               /\ m.kind = "msg1" => m.dlc["maker"] = m.dlc["taker"]
    <2>1. OnWay(p, m) /\ InOrder(p, head, m)
      BY <1>2
    <2>2. /\ Rank(head) < Rank(m) /\ Rank(m) < HasSaid(Other(p))
          /\ m.kind = "msg1" => m.dlc["maker"] = m.dlc["taker"]
      BY <2>1 DEF Stream
    <2> QED BY <1>1, <2>2
  <1>3. ASSUME NEW a \in RollOverMsgs, NEW b \in RollOverMsgs, InOrder(p, a, b)'
        PROVE  Rank(a) < Rank(b)
    BY <1>3 DEF Stream
  <1>4. ASSUME Awaits(p)', NEW r \in Nat, HasRead(p)' <= r, r < HasSaid(Other(p))'
        PROVE  \E m \in RollOverMsgs : OnWay(p, m)' /\ Rank(m) = r
    <2>1. HasRead(p) <= r /\ r < HasSaid(Other(p)) /\ r # HasRead(p)
      BY <1>1, <1>4
    <2>2. PICK m \in RollOverMsgs : OnWay(p, m) /\ Rank(m) = r
      BY <1>4, <2>1 DEF Stream
    <2>3. m # head
      BY <2>1, <2>2
    <2> QED BY <1>4, <2>2, <2>3
  <1> QED BY <1>2, <1>3, <1>4 DEF Stream

(* What p waits for is the first in its inbox.                             *)
LEMMA FirstIsNext ==
    ASSUME TypeOK, NEW p \in Parties, Stream(p), Awaits(p),
           Inbox(p) \in Seq(RollOverMsgs), Inbox(p) # <<>>
    PROVE  /\ Head(Inbox(p)) \in RollOverMsgs /\ Rank(Head(Inbox(p))) = HasRead(p)
           /\ OnWay(p, Head(Inbox(p)))
           /\ Head(Inbox(p)).kind = "msg1" =>
                Head(Inbox(p)).dlc["maker"] = Head(Inbox(p)).dlc["taker"]
  <1> DEFINE u == Inbox(p)
             v == Incoming(p, 1)
             h == Head(u)
  <1>1. /\ \A m : In(u, v, m) => m = h \/ In(Tail(u), v, m)
        /\ \A m : In(Tail(u), v, m) => Along(u, v, h, m)
        /\ In(u, v, h) /\ h \in RollOverMsgs
    BY IsRead
  <1>2. /\ OnWay(p, h)
        /\ \A m : OnWay(p, m) => m = h \/ InOrder(p, h, m)
    BY <1>1 DEF OnWay, InOrder
  <1> HIDE DEF h
  <1>3. /\ HasRead(p) <= Rank(h) /\ Rank(h) < HasSaid(Other(p))
        /\ h.kind = "msg1" => h.dlc["maker"] = h.dlc["taker"]
    BY <1>1, <1>2 DEF Stream
  <1>4. /\ HasRead(p) \in Nat /\ HasSaid(Other(p)) \in Nat
        /\ \A m \in RollOverMsgs : Rank(m) \in Nat
    BY Numbers, Ranks, TypesOf
  <1>5. HasRead(p) < HasSaid(Other(p))
    BY <1>1, <1>3, <1>4
  <1>6. PICK m \in RollOverMsgs : OnWay(p, m) /\ Rank(m) = HasRead(p)
    BY <1>4, <1>5 DEF Stream
  <1>7. m = h \/ Rank(h) < Rank(m)
    BY <1>1, <1>2, <1>6 DEF Stream
  <1>8. Rank(h) = HasRead(p)
    BY <1>1, <1>3, <1>4, <1>6, <1>7
  <1> QED BY <1>1, <1>2, <1>3, <1>8 DEF h

-----------------------------------------------------------------------------
(* Places.                                                                 *)

Going == {"msg0", "msg1", "msg2", "ok"}

LEMMA Running ==
    ASSUME TypeOK, Placed, NEW p \in Parties, NEW k \in Attempts, tasks[p][k].step \in Going
    PROVE  /\ k = Now(p) /\ Step(p) = tasks[p][k].step
           /\ rolling[p] = k /\ tasks[p][k].sess = 1 /\ tasks[p][k].from = dlcs[p]
           /\ tasks[p][k].step \in {"msg1", "msg2", "ok"} => tasks[p][k].other = k
           /\ Awaits(p) <=> tasks[p][k].step # "ok"
           /\ Awaits(p) => Inbox(p) = tasks[p][k].inbox
           /\ tasks[p][k].inbox \in Seq(RollOverMsgs)
           /\ \A i \in Attempts : Begun(p, i) => i <= k
  <1>1. Now(p) \in Nat /\ k \in Nat
    BY Numbers, TypesOf
  <1>2. ~(k < Now(p)) /\ ~(k > Now(p))
    BY DEF Placed, Going
  <1>3. k = Now(p)
    BY <1>1, <1>2
  <1>4. Step(p) = tasks[p][k].step
    BY <1>3 DEF Step
  <1>5. /\ rolling[p] = k /\ tasks[p][k].sess = 1 /\ tasks[p][k].from = dlcs[p]
        /\ tasks[p][k].step \in {"msg1", "msg2", "ok"} => tasks[p][k].other = k
    BY <1>3 DEF Placed, Going
  <1>6. Awaits(p) <=> tasks[p][k].step # "ok"
    BY <1>4 DEF Awaits, Going
  <1>7. Awaits(p) => Inbox(p) = tasks[p][k].inbox
    BY <1>3 DEF Inbox
  <1>8. ASSUME NEW i \in Attempts, Begun(p, i)
        PROVE  i <= k
    <2>1. ~(i > Now(p)) /\ i \in Nat
      BY <1>8, TypesOf DEF Placed, Begun
    <2> QED BY <1>1, <1>3, <2>1
  <1>9. tasks[p][k].inbox \in Seq(RollOverMsgs)
    BY TypesOf
  <1> QED BY <1>3, <1>4, <1>5, <1>6, <1>7, <1>8, <1>9

(* The attempt that may begin.                                             *)
LEMMA Beginner ==
    ASSUME TypeOK, Counted, Placed, NEW p \in Parties, NEW k \in Attempts,
           NextAttempt(p, k), ~Unfinished(p)
    PROVE  k = Now(p) /\ Step(p) = "none" /\ tasks[p][k].step = "none"
  <1>1. /\ tasks[p][k].step = "none" /\ \A i \in 1..(k - 1) : tasks[p][i].step # "none"
    BY DEF NextAttempt
  <1>2. Now(p) \in Nat /\ k \in Nat /\ \A i \in 1..k : i \in Attempts
    BY Numbers, BoundsAssumption DEF Attempts
  <1>3. ~(k < Now(p))
    BY <1>1 DEF Placed
  <1>4. Now(p) >= 1
    BY DEF Counted, Now
  <1>5. ~(k > Now(p))
    <2>1. SUFFICES ASSUME k > Now(p)
                   PROVE  FALSE
      OBVIOUS
    <2>2. Now(p) \in Attempts /\ Now(p) \in 1..(k - 1)
      BY <1>2, <1>4, <2>1
    <2>3. tasks[p][Now(p)].step \in Going
      BY <1>1, <2>2 DEF Placed, Going
    <2> QED BY <2>2, <2>3 DEF Unfinished, Waiting, Going
  <1>6. k = Now(p)
    BY <1>2, <1>3, <1>5
  <1> QED BY <1>1, <1>6 DEF Step

(* What a party whose attempts and contracts stay keeps.                   *)
LEMMA Frozen ==
    ASSUME NEW q \in Parties, dlcs'[q] = dlcs[q],
           \A i \in Attempts : tasks'[q][i] = tasks[q][i]
    PROVE  /\ Now(q)' = Now(q) /\ Step(q)' = Step(q) /\ Awaits(q)' = Awaits(q)
           /\ Inbox(q)' = Inbox(q) /\ HasRead(q)' = HasRead(q)
           /\ HasSaid(q)' = HasSaid(q) /\ Began(q)' = Began(q)
  <1>1. Now(q)' = Now(q)
    BY DEF Now
  <1>2. Step(q)' = Step(q)
    BY <1>1 DEF Step
  <1>3. Awaits(q)' = Awaits(q)
    BY <1>2 DEF Awaits
  <1>4. Inbox(q)' = Inbox(q)
    <2>1. CASE Awaits(q)
      <3>1. Now(q) \in Attempts
        BY <2>1 DEF Awaits, Step
      <3>2. Inbox(q) = tasks[q][Now(q)].inbox /\ Inbox(q)' = tasks'[q][Now(q)].inbox
        BY <1>1, <1>3, <2>1 DEF Inbox
      <3> QED BY <3>1, <3>2
    <2>2. CASE ~Awaits(q)
      BY <1>3, <2>2 DEF Inbox
    <2> QED BY <2>1, <2>2
  <1>5. HasRead(q)' = HasRead(q) /\ HasSaid(q)' = HasSaid(q) /\ Began(q)' = Began(q)
    BY <1>1, <1>2 DEF HasRead, HasSaid, Began
  <1> QED BY <1>1, <1>2, <1>3, <1>4, <1>5

(* p's attempt k is at `step' then.                                        *)
LEMMA Arrives ==
    ASSUME TypeOK, TypeOK', Placed, NEW p \in Parties, NEW k \in Attempts, k = Now(p),
           NEW step \in Going, dlcs' = dlcs,
           tasks'[p][k].step = step, tasks'[p][k].from = dlcs[p], tasks'[p][k].sess = 1,
           step \in {"msg1", "msg2", "ok"} => tasks'[p][k].other = k,
           rolling'[p] = k, \A q \in Parties : q # p => rolling'[q] = rolling[q],
           \A q \in Parties, i \in Attempts : q # p \/ i # k => tasks'[q][i] = tasks[q][i]
    PROVE  /\ Placed' /\ Now(p)' = Now(p) /\ Step(p)' = step
           /\ Awaits(p)' = (step # "ok")
           /\ Inbox(p)' = IF step # "ok" THEN tasks'[p][k].inbox ELSE <<>>
           /\ Began(p)' = Now(p)
           /\ \A q \in Parties : q # p =>
                /\ Now(q)' = Now(q) /\ Step(q)' = Step(q) /\ Awaits(q)' = Awaits(q)
                /\ Inbox(q)' = Inbox(q) /\ HasRead(q)' = HasRead(q)
                /\ HasSaid(q)' = HasSaid(q) /\ Began(q)' = Began(q)
  <1>1. Now(p)' = Now(p)
    BY DEF Now
  <1>2. Step(p)' = step
    BY <1>1 DEF Step
  <1>3. Awaits(p)' = (step # "ok")
    BY <1>2 DEF Awaits, Going
  <1>4. Inbox(p)' = IF step # "ok" THEN tasks'[p][k].inbox ELSE <<>>
    BY <1>1, <1>3 DEF Inbox
  <1>5. Began(p)' = Now(p)
    BY <1>1, <1>2 DEF Began, Going
  <1>6. \A q \in Parties : q # p => dlcs'[q] = dlcs[q] /\ \A i \in Attempts : tasks'[q][i] = tasks[q][i]
    OBVIOUS
  <1>7. \A q \in Parties : q # p =>
          /\ Now(q)' = Now(q) /\ Step(q)' = Step(q) /\ Awaits(q)' = Awaits(q)
          /\ Inbox(q)' = Inbox(q) /\ HasRead(q)' = HasRead(q)
          /\ HasSaid(q)' = HasSaid(q) /\ Began(q)' = Began(q)
    BY <1>6, Frozen
  <1>8. Placed'
    <2>1. SUFFICES ASSUME NEW q \in Parties, NEW i \in Attempts
                   PROVE  /\ i < Now(q)' => tasks'[q][i].step = "done"
                          /\ i > Now(q)' => tasks'[q][i].step = "none"
                          /\ i = Now(q)' =>
                               /\ tasks'[q][i].step \in {"none", "msg0", "msg1", "msg2", "ok"}
                               /\ tasks'[q][i].step # "none" =>
                                    /\ rolling'[q] = i /\ tasks'[q][i].sess = 1
                                    /\ tasks'[q][i].from = dlcs'[q]
                               /\ tasks'[q][i].step \in {"msg1", "msg2", "ok"} =>
                                    tasks'[q][i].other = i
      BY DEF Placed
    <2>2. k \in Nat /\ i \in Nat
      BY TypesOf
    <2>3. CASE q = p /\ i = k
      BY <1>1, <2>2, <2>3 DEF Going
    <2>4. CASE q = p /\ i # k
      <3>1. tasks'[q][i] = tasks[q][i] /\ Now(q)' = k /\ Now(q) = k
        BY <1>1, <2>4
      <3> QED BY <2>2, <2>4, <3>1 DEF Placed
    <2>5. CASE q # p
      <3>1. /\ tasks'[q][i] = tasks[q][i] /\ Now(q)' = Now(q) /\ dlcs'[q] = dlcs[q]
            /\ rolling'[q] = rolling[q]
        BY <1>7, <2>5
      <3> QED BY <3>1 DEF Placed
    <2> QED BY <2>3, <2>4, <2>5
  <1> QED BY <1>1, <1>2, <1>3, <1>4, <1>5, <1>7, <1>8

-----------------------------------------------------------------------------
(* Notices.                                                                *)

(* A queue gets a protocol message or loses one; it gets a notice or loses *)
(* one.                                                                    *)
Plain(q, r) ==
    \/ r = q
    \/ \E m \in RollOverMsgs : r = Append(q, m)
    \/ q # <<>> /\ Head(q) \in RollOverMsgs /\ r = Tail(q)
Noted(q, r) ==
    \/ r = q
    \/ \E n \in AnyMsg : n \notin RollOverMsgs /\ r = Append(q, n)
    \/ q # <<>> /\ Head(q) \notin RollOverMsgs /\ r = Tail(q)

LEMMA PlainQueue ==
    ASSUME NEW q \in Seq(AnyMsg), NEW r, Plain(q, r), NEW n, n \notin RollOverMsgs
    PROVE  /\ Has(r, n) => Has(q, n)
           /\ Before(r, n, n) => Before(q, n, n)
           /\ \A m : Before(q, n, m) => Before(r, n, m)
  <1>1. CASE r = q
    BY <1>1
  <1>2. ASSUME NEW m \in RollOverMsgs, r = Append(q, m)
        PROVE  /\ Has(r, n) => Has(q, n)
               /\ Before(r, n, n) => Before(q, n, n)
               /\ \A b : Before(q, n, b) => Before(r, n, b)
    <2>1. m \in AnyMsg /\ n # m
      BY Messages
    <2>2. /\ Has(r, n) => Has(q, n) \/ n = m
          /\ Before(r, n, n) => Before(q, n, n) \/ (Has(q, n) /\ n = m)
      BY <1>2, <2>1, HasAppend
    <2>3. \A b : Before(q, n, b) => Before(r, n, b)
      BY <1>2, <2>1, AppendHas
    <2> QED BY <2>1, <2>2, <2>3
  <1>3. CASE q # <<>> /\ Head(q) \in RollOverMsgs /\ r = Tail(q)
    <2>1. (Has(r, n) => Has(q, n)) /\ (Before(r, n, n) => Before(q, n, n))
      BY <1>3, HasTail
    <2>2. \A b : Before(q, n, b) => n = Head(q) \/ Before(r, n, b)
      BY <1>3, TailHas
    <2>3. n # Head(q)
      BY <1>3
    <2> QED BY <2>1, <2>2, <2>3
  <1> QED BY <1>1, <1>2, <1>3 DEF Plain

LEMMA NotedQueue ==
    ASSUME NEW u, NEW q \in Seq(AnyMsg), NEW r, Noted(q, r)
    PROVE  /\ \A m \in RollOverMsgs : In(u, r, m) <=> In(u, q, m)
           /\ \A a, b \in RollOverMsgs : Along(u, r, a, b) => Along(u, q, a, b)
  <1>1. CASE r = q
    BY <1>1
  <1>2. ASSUME NEW n \in AnyMsg, n \notin RollOverMsgs, r = Append(q, n)
        PROVE  /\ \A m \in RollOverMsgs : In(u, r, m) <=> In(u, q, m)
               /\ \A a, b \in RollOverMsgs : Along(u, r, a, b) => Along(u, q, a, b)
    <2>1. /\ \A a : In(u, r, a) <=> In(u, q, a) \/ a = n
          /\ \A a, b : Along(u, r, a, b) => Along(u, q, a, b) \/ (In(u, q, a) /\ b = n)
      BY <1>2, IsSent
    <2> QED BY <1>2, <2>1
  <1>3. CASE q # <<>> /\ Head(q) \notin RollOverMsgs /\ r = Tail(q)
    <2>1. /\ \A m : In(u, r, m) => In(u, q, m)
          /\ \A m : In(u, q, m) => m = Head(q) \/ In(u, r, m)
          /\ \A a, b : Along(u, r, a, b) => Along(u, q, a, b)
      BY <1>3, IsTaken
    <2> QED BY <1>3, <2>1
  <1> QED BY <1>1, <1>2, <1>3 DEF Noted

LEMMA QueueTypes ==
    ASSUME TypeOK
    PROVE  /\ 1 \in Sessions
           /\ toMaker[1] \in Seq(ToMaker) /\ toMaker[1] \in Seq(AnyMsg)
           /\ toTaker \in Seq(ToTaker) /\ toTaker \in Seq(AnyMsg)
           /\ Incoming("maker", 1) = toMaker[1] /\ Incoming("taker", 1) = toTaker
           /\ \A p \in Parties : Incoming(p, 1) \in Seq(AnyMsg)
  <1>1. 1 \in Sessions
    BY BoundsAssumption DEF Sessions
  <1>2. toMaker[1] \in Seq(ToMaker) /\ toTaker \in Seq(ToTaker)
    BY <1>1 DEF TypeOK
  <1>3. toMaker[1] \in Seq(AnyMsg) /\ toTaker \in Seq(AnyMsg)
    <2>1. ToMaker \subseteq AnyMsg /\ ToTaker \subseteq AnyMsg
      BY DEF AnyMsg
    <2> QED BY <1>2, <2>1
  <1> QED BY <1>1, <1>2, <1>3 DEF Incoming, Parties

LEMMA NextQueues ==
    /\ Incoming("maker", 1)' = toMaker'[1] /\ Incoming("taker", 1)' = toTaker'
  BY DEF Incoming

LEMMA NextTokens ==
    Tokens' <=> TokensIn(toMaker'[1], toTaker', proposed', offered',
                         Began("taker")', Began("maker")')
  BY DEF Tokens, TokensIn, Has, Before, Msg0, Notice

LEMMA TokensKept ==
    ASSUME TypeOK, Tokens, proposed' = proposed, offered' = offered,
           \A p \in Parties : Began(p)' = Began(p),
           Plain(toMaker[1], toMaker'[1]), Plain(toTaker, toTaker')
    PROVE  Tokens'
  <1> DEFINE v == toMaker[1]
             w == toTaker
             v1 == toMaker'[1]
             w1 == toTaker'
             bt == Began("taker")
             bm == Began("maker")
  <1>1. /\ Notice("propose") \notin RollOverMsgs /\ Notice("confirm") \notin RollOverMsgs
        /\ Notice("reject") \notin RollOverMsgs
    BY Messages
  <1>2. v \in Seq(AnyMsg) /\ w \in Seq(AnyMsg) /\ Plain(v, v1) /\ Plain(w, w1)
    BY QueueTypes
  <1>3. Began("maker")' = bm /\ Began("taker")' = bt
    BY DEF Parties
  <1>4. TokensIn(v, w, proposed, offered, bt, bm)
    BY DEF Tokens
  <1> HIDE DEF v, w, v1, w1, bt, bm
  <1>5. /\ Has(v1, Notice("propose")) => Has(v, Notice("propose"))
        /\ Before(v1, Notice("propose"), Notice("propose")) =>
             Before(v, Notice("propose"), Notice("propose"))
    BY <1>1, <1>2, PlainQueue
  <1>6. /\ Has(w1, Notice("reject")) => Has(w, Notice("reject"))
        /\ Before(w1, Notice("reject"), Notice("reject")) =>
             Before(w, Notice("reject"), Notice("reject"))
    BY <1>1, <1>2, PlainQueue
  <1>7. /\ Has(w1, Notice("confirm")) => Has(w, Notice("confirm"))
        /\ Before(w1, Notice("confirm"), Notice("confirm")) =>
             Before(w, Notice("confirm"), Notice("confirm"))
        /\ Before(w, Notice("confirm"), Msg0(bm)) => Before(w1, Notice("confirm"), Msg0(bm))
    BY <1>1, <1>2, PlainQueue
  <1>8. TokensIn(v1, w1, proposed, offered, bt, bm)
    BY <1>4, <1>5, <1>6, <1>7 DEF TokensIn
  <1> QED BY <1>3, <1>8, NextTokens DEF v1, w1

(* Nothing but notices and the proposal changes.                           *)
LEMMA Courteous ==
    ASSUME TypeOK, InStep, UNCHANGED <<dlcs, rolling, tasks, sess, linked, revealed>>,
           \A p \in Parties : Noted(Incoming(p, 1), Incoming(p, 1)'),
           offered' \in {None, 1}, \A s \in Sessions : s # 1 => toMaker'[s] = toMaker[s],
           TokensIn(toMaker'[1], toTaker', proposed', offered', Began("taker"), Began("maker"))
    PROVE  InStep'
  <1>1. /\ Numbered /\ Placed /\ OneLink /\ (\A p \in Parties : Stream(p))
        /\ Counts /\ Tokens
    BY DEF InStep
  <1>2. \A q \in Parties :
          /\ Now(q)' = Now(q) /\ Step(q)' = Step(q) /\ Awaits(q)' = Awaits(q)
          /\ Inbox(q)' = Inbox(q) /\ HasRead(q)' = HasRead(q)
          /\ HasSaid(q)' = HasSaid(q) /\ Began(q)' = Began(q)
    BY Frozen
  <1>3. "maker" \in Parties /\ "taker" \in Parties /\ \A q \in Parties : Other(q) \in Parties
    BY DEF Parties, Other
  <1>4. Numbered'
    <2>1. \A p \in Parties : \A i \in 1..Now(p)' : dlcs'[p][i] = Pair(i - 1)
      BY <1>1, <1>2 DEF Numbered
    <2> QED BY <2>1 DEF Numbered, Pair
  <1>5. Placed'
    <2>1. \A p \in Parties, k \in Attempts :
            /\ tasks'[p][k] = tasks[p][k] /\ Now(p)' = Now(p) /\ rolling'[p] = rolling[p]
            /\ dlcs'[p] = dlcs[p]
      BY <1>2
    <2> QED BY <1>1, <2>1 DEF Placed
  <1>6. OneLink'
    BY <1>1 DEF OneLink
  <1>7. ASSUME NEW p \in Parties
        PROVE  Stream(p)'
    <2>1. Incoming(p, 1) \in Seq(AnyMsg) /\ Noted(Incoming(p, 1), Incoming(p, 1)')
      BY QueueTypes
    <2>2. /\ \A m \in RollOverMsgs :
               In(Inbox(p), Incoming(p, 1)', m) <=> In(Inbox(p), Incoming(p, 1), m)
          /\ \A a, b \in RollOverMsgs :
               Along(Inbox(p), Incoming(p, 1)', a, b) => Along(Inbox(p), Incoming(p, 1), a, b)
      BY <2>1, NotedQueue
    <2>3. /\ \A m \in RollOverMsgs : OnWay(p, m)' <=> OnWay(p, m)
          /\ \A a, b \in RollOverMsgs : InOrder(p, a, b)' => InOrder(p, a, b)
      BY <1>2, <2>2, WayNext DEF OnWay, InOrder
    <2>4. /\ HasRead(p)' = HasRead(p) /\ HasSaid(Other(p))' = HasSaid(Other(p))
          /\ Awaits(p)' = Awaits(p) /\ Stream(p)
      BY <1>1, <1>2, <1>3 DEF Other
    <2> QED BY <2>3, <2>4, StreamKept
  <1>8. Counts'
    <2>1. \A p \in Parties : HasRead(p)' = HasRead(p) /\ HasSaid(Other(p))' = HasSaid(Other(p))
      BY <1>2, <1>3 DEF Other
    <2>2. Began("taker")' = Began("taker") /\ Began("maker")' = Began("maker")
      BY <1>2, <1>3
    <2>3. \A p \in Parties : revealed'[p] = revealed[p] /\ HasSaid(p)' = HasSaid(p)
      BY <1>2
    <2> QED BY <1>1, <2>1, <2>2, <2>3 DEF Counts
  <1>9. Tokens'
    BY <1>2, <1>3, NextTokens
  <1> QED BY <1>4, <1>5, <1>6, <1>7, <1>8, <1>9 DEF InStep

LEMMA Notices ==
    /\ \A m \in ToMaker : m.kind = "propose" => m = Notice("propose")
    /\ \A m \in ToTaker : m.kind = "confirm" => m = Notice("confirm")
    /\ \A m \in ToTaker : m.kind = "reject" => m = Notice("reject")
    /\ Notice("propose") # Notice("confirm") /\ Notice("confirm") # Notice("reject")
    /\ \A x : Msg0(x) # Notice("confirm") /\ Msg0(x) # Notice("reject") /\ Msg0(x) # Notice("propose")
  <1>1. \A m \in [kind : {"propose"}] : m = Notice("propose")
    BY DEF Notice
  <1>2. \A m \in [kind : {"confirm", "reject"}] : m = Notice("confirm") \/ m = Notice("reject")
    BY DEF Notice
  <1>3. /\ Notice("confirm").kind = "confirm" /\ Notice("reject").kind = "reject"
        /\ Notice("propose").kind = "propose" /\ \A x : Msg0(x).kind = "msg0"
    BY DEF Notice, Msg0
  <1>4. /\ \A m \in ToMaker : m \in [kind : {"propose"}] \/ m \in RollOverMsgs
        /\ \A m \in ToTaker : m \in [kind : {"confirm", "reject"}] \/ m \in RollOverMsgs
    BY DEF ToMaker, ToTaker
  <1> QED BY <1>1, <1>2, <1>3, <1>4, Messages

LEMMA ProposeInStep ==
    ASSUME TypeOK, InStep, ProposeRollOver
    PROVE  InStep'
  <1> DEFINE n == Notice("propose")
             v == toMaker[1]
  <1>1. /\ ~proposed /\ proposed' = TRUE /\ Send("taker", sess, <<n>>)
        /\ UNCHANGED <<dlcs, rolling, tasks, sess, linked, revealed, offered>>
    BY DEF ProposeRollOver, dbVars, histVars
  <1>2. /\ sess = 1 /\ linked /\ offered \in {None, 1} /\ 1 \in Sessions
        /\ v \in Seq(AnyMsg) /\ n \in AnyMsg /\ n \notin RollOverMsgs
    BY QueueTypes, Messages DEF InStep, OneLink, AnyMsg
  <1>3. /\ toTaker' = toTaker /\ toMaker'[1] = Append(v, n)
        /\ \A s \in Sessions : s # 1 => toMaker'[s] = toMaker[s]
    <2>1. v \o <<n>> = Append(v, n) /\ toMaker \in [Sessions -> Seq(ToMaker)]
      BY <1>2 DEF TypeOK
    <2>2. toMaker' = [toMaker EXCEPT ![1] = v \o <<n>>] /\ toTaker' = toTaker
      BY <1>1, <1>2 DEF Send, Carried
    <2> HIDE DEF n
    <2> QED BY <1>2, <2>1, <2>2
  <1>4. TokensIn(v, toTaker, proposed, offered, Began("taker"), Began("maker"))
    BY DEF InStep, Tokens
  <1>5. \A a, b : Before(Append(v, n), a, b) => Before(v, a, b) \/ (Has(v, a) /\ b = n)
    BY <1>2, HasAppend
  <1>6. TokensIn(Append(v, n), toTaker, TRUE, offered, Began("taker"), Began("maker"))
    BY <1>1, <1>4, <1>5 DEF TokensIn
  <1>7. Noted(toMaker[1], toMaker'[1]) /\ Noted(toTaker, toTaker')
    BY <1>2, <1>3 DEF Noted
  <1>8. \A p \in Parties : Noted(Incoming(p, 1), Incoming(p, 1)')
    BY <1>7 DEF Incoming, Parties
  <1> HIDE DEF n, v
  <1> QED BY <1>1, <1>2, <1>3, <1>6, <1>8, Courteous

LEMMA HandleProposeInStep ==
    ASSUME TypeOK, InStep, NEW s \in Sessions, HandleProposeRollOver(s)
    PROVE  InStep'
  <1> DEFINE n == Notice("propose")
             v == toMaker[1]
  <1>1. /\ toMaker[s] # <<>> /\ Head(toMaker[s]).kind = "propose"
        /\ toMaker' = [toMaker EXCEPT ![s] = Tail(toMaker[s])] /\ toTaker' = toTaker
        /\ offered' = s \/ offered' = offered
        /\ proposed' = proposed
        /\ UNCHANGED <<dlcs, rolling, tasks, sess, linked, revealed>>
    BY DEF HandleProposeRollOver, MakerReceives, dbVars, histVars
  <1>2. /\ s = 1 /\ offered \in {None, 1} /\ 1 \in Sessions
        /\ v \in Seq(AnyMsg) /\ v \in Seq(ToMaker) /\ n \notin RollOverMsgs
    BY <1>1, QueueTypes, Messages DEF InStep, OneLink
  <1>3. /\ v # <<>> /\ Head(v) = n
    <2>1. Head(v) \in ToMaker
      BY <1>1, <1>2, HasTail
    <2> QED BY <1>1, <1>2, <2>1, Notices
  <1>4. /\ toMaker'[1] = Tail(v) /\ \A r \in Sessions : r # 1 => toMaker'[r] = toMaker[r]
    BY <1>1, <1>2 DEF TypeOK
  <1>5. TokensIn(v, toTaker, proposed, offered, Began("taker"), Began("maker"))
    BY DEF InStep, Tokens
  <1>6. /\ \A a : Has(Tail(v), a) => Before(v, n, a)
        /\ \A a, b : Before(Tail(v), a, b) => Before(v, a, b)
        /\ Has(v, n)
    BY <1>2, <1>3, HasTail
  <1>7. offered' \in {None, 1}
    BY <1>1, <1>2
  <1>8. TokensIn(Tail(v), toTaker, proposed, offered', Began("taker"), Began("maker"))
    BY <1>1, <1>5, <1>6, HasBefore DEF TokensIn
  <1>9. Noted(toMaker[1], toMaker'[1]) /\ Noted(toTaker, toTaker')
    BY <1>1, <1>2, <1>3, <1>4 DEF Noted
  <1>10. \A p \in Parties : Noted(Incoming(p, 1), Incoming(p, 1)')
    BY <1>9 DEF Incoming, Parties
  <1> HIDE DEF n, v
  <1> QED BY <1>1, <1>4, <1>7, <1>8, <1>10, Courteous

LEMMA RejectInStep ==
    ASSUME TypeOK, InStep, RejectRollOver
    PROVE  InStep'
  <1> DEFINE j == Notice("reject")
             w == toTaker
  <1>1. /\ offered # None /\ Send("maker", offered, <<j>>) /\ offered' = None
        /\ proposed' = proposed
        /\ UNCHANGED <<dlcs, rolling, tasks, sess, linked, revealed>>
    BY DEF RejectRollOver, dbVars, histVars
  <1>2. /\ sess = 1 /\ linked /\ offered = 1
        /\ w \in Seq(AnyMsg) /\ j \in AnyMsg /\ j \notin RollOverMsgs
    BY <1>1, QueueTypes, Messages DEF InStep, OneLink, AnyMsg
  <1>3. toMaker' = toMaker /\ toTaker' = Append(w, j)
    <2>1. w \o <<j>> = Append(w, j)
      BY <1>2
    <2> QED BY <1>1, <1>2, <2>1 DEF Send, Carried
  <1>4. TokensIn(toMaker[1], w, proposed, offered, Began("taker"), Began("maker"))
    BY DEF InStep, Tokens
  <1>5. /\ \A a : Has(Append(w, j), a) => Has(w, a) \/ a = j
        /\ \A a, b : Before(Append(w, j), a, b) => Before(w, a, b) \/ (Has(w, a) /\ b = j)
    BY <1>2, HasAppend
  <1>6. Notice("confirm") # j
    BY Notices
  <1>7. TokensIn(toMaker[1], Append(w, j), proposed, None, Began("taker"), Began("maker"))
    BY <1>1, <1>4, <1>5, <1>6 DEF TokensIn
  <1>8. Noted(toMaker[1], toMaker'[1]) /\ Noted(toTaker, toTaker')
    BY <1>2, <1>3 DEF Noted
  <1>9. \A p \in Parties : Noted(Incoming(p, 1), Incoming(p, 1)')
    BY <1>8 DEF Incoming, Parties
  <1> HIDE DEF j, w
  <1> QED BY <1>1, <1>3, <1>7, <1>9, Courteous

LEMMA HandleRejectedInStep ==
    ASSUME TypeOK, InStep, HandleRollOverRejected
    PROVE  InStep'
  <1> DEFINE j == Notice("reject")
             w == toTaker
  <1>1. /\ w # <<>> /\ Head(w).kind = "reject" /\ toTaker' = Tail(w) /\ toMaker' = toMaker
        /\ proposed' = FALSE /\ offered' = offered
        /\ UNCHANGED <<dlcs, rolling, tasks, sess, linked, revealed>>
    BY DEF HandleRollOverRejected, TakerReceives, dbVars, histVars
  <1>2. /\ offered \in {None, 1} /\ w \in Seq(AnyMsg) /\ w \in Seq(ToTaker)
        /\ j \notin RollOverMsgs
    BY QueueTypes, Messages DEF InStep, OneLink
  <1>3. Head(w) = j
    <2>1. Head(w) \in ToTaker
      BY <1>1, <1>2, HasTail
    <2> QED BY <1>1, <2>1, Notices
  <1>4. TokensIn(toMaker[1], w, proposed, offered, Began("taker"), Began("maker"))
    BY DEF InStep, Tokens
  <1>5. /\ \A a : Has(Tail(w), a) => Before(w, j, a) /\ Has(w, a)
        /\ \A a, b : Before(Tail(w), a, b) => Before(w, a, b)
        /\ Has(w, j)
    BY <1>1, <1>2, <1>3, HasTail
  <1>6. TokensIn(toMaker[1], Tail(w), FALSE, offered, Began("taker"), Began("maker"))
    BY <1>4, <1>5 DEF TokensIn
  <1>7. Noted(toMaker[1], toMaker'[1]) /\ Noted(toTaker, toTaker')
    BY <1>1, <1>2, <1>3 DEF Noted
  <1>8. \A p \in Parties : Noted(Incoming(p, 1), Incoming(p, 1)')
    BY <1>7 DEF Incoming, Parties
  <1> HIDE DEF j, w
  <1> QED BY <1>1, <1>2, <1>6, <1>8, Courteous DEF w

LEMMA RefuseInStep ==
    ASSUME TypeOK, InStep, NEW announced \in BOOLEAN, RefuseRollOver(announced)
    PROVE  InStep'
  <1> DEFINE c == Notice("confirm")
             w == toTaker
  <1>1. /\ w # <<>> /\ Head(w).kind = "confirm" /\ toTaker' = Tail(w) /\ toMaker' = toMaker
        /\ proposed' = proposed /\ offered' = offered
        /\ UNCHANGED <<dlcs, rolling, tasks, sess, linked, revealed>>
    BY DEF RefuseRollOver, TakerReceives, dbVars, actorVars, histVars
  <1>2. /\ offered \in {None, 1} /\ w \in Seq(AnyMsg) /\ w \in Seq(ToTaker)
        /\ c \notin RollOverMsgs
    BY QueueTypes, Messages DEF InStep, OneLink
  <1>3. Head(w) = c
    <2>1. Head(w) \in ToTaker
      BY <1>1, <1>2, HasTail
    <2> QED BY <1>1, <2>1, Notices
  <1>4. TokensIn(toMaker[1], w, proposed, offered, Began("taker"), Began("maker"))
    BY DEF InStep, Tokens
  <1>5. /\ \A a : Has(Tail(w), a) => Before(w, c, a) /\ Has(w, a)
        /\ \A a, b : Before(Tail(w), a, b) => Before(w, a, b)
    BY <1>1, <1>2, <1>3, HasTail
  <1>6. TokensIn(toMaker[1], Tail(w), proposed, offered, Began("taker"), Began("maker"))
    BY <1>4, <1>5 DEF TokensIn
  <1>7. Noted(toMaker[1], toMaker'[1]) /\ Noted(toTaker, toTaker')
    BY <1>1, <1>2, <1>3 DEF Noted
  <1>8. \A p \in Parties : Noted(Incoming(p, 1), Incoming(p, 1)')
    BY <1>7 DEF Incoming, Parties
  <1> HIDE DEF c, w
  <1> QED BY <1>1, <1>2, <1>6, <1>8, Courteous DEF w

-----------------------------------------------------------------------------
(* Beginnings.                                                             *)

LEMMA AcceptInStep ==
    ASSUME TypeOK, TypeOK', Counted, InStep, AcceptRollOver, ~overlapped'
    PROVE  InStep'
  <1> DEFINE c == Notice("confirm")
             v == toMaker[1]
             w == toTaker
             bt == Began("taker")
  <1>1. PICK k \in Attempts :
          /\ offered # None /\ Begin("maker", offered, <<c>>, k)
          /\ offered' = None /\ proposed' = proposed
          /\ UNCHANGED <<dlcs, sess, linked, revealed>>
    BY DEF AcceptRollOver, dbVars
  <1> DEFINE m == Msg0(k)
  <1>2. /\ NextAttempt("maker", k)
        /\ tasks' = [tasks EXCEPT !["maker"][k] = Task("msg0", dlcs["maker"], offered)]
        /\ rolling' = [rolling EXCEPT !["maker"] = k]
        /\ ~Unfinished("maker")
        /\ Send("maker", offered, Append(<<c>>, m))
    BY <1>1 DEF Begin
  <1>3. /\ Numbered /\ Placed /\ OneLink /\ Counts /\ \A p \in Parties : Stream(p)
        /\ TokensIn(v, w, proposed, offered, bt, Began("maker"))
    BY DEF InStep, Tokens
  <1>4. /\ sess = 1 /\ linked /\ offered = 1 /\ "maker" \in Parties /\ "taker" \in Parties
        /\ \A s \in Sessions : s # 1 => toMaker[s] = <<>>
        /\ Other("maker") = "taker" /\ Other("taker") = "maker"
    BY <1>1, <1>3 DEF OneLink, Parties, Other
  <1>5. k = Now("maker") /\ Step("maker") = "none" /\ k \in Nat
    BY <1>2, <1>3, <1>4, Beginner, TypesOf
  <1>6. /\ v \in Seq(AnyMsg) /\ w \in Seq(AnyMsg) /\ c \in AnyMsg /\ c \notin RollOverMsgs
        /\ m \in RollOverMsgs /\ m \in AnyMsg
    BY QueueTypes, Messages, TypesOf DEF AnyMsg
  <1>7. toMaker' = toMaker /\ toTaker' = Append(Append(w, c), m)
    <2>1. w \o Append(<<c>>, m) = Append(Append(w, c), m)
      BY <1>6
    <2>2. toMaker' = toMaker /\ toTaker' = w \o Carried(1, Append(<<c>>, m))
      BY <1>2, <1>4 DEF Send
    <2>3. Carried(1, Append(<<c>>, m)) = Append(<<c>>, m)
      BY <1>4 DEF Carried
    <2> QED BY <2>1, <2>2, <2>3
  <1>8. /\ tasks'["maker"][k] = Task("msg0", dlcs["maker"], 1)
        /\ \A q \in Parties, i \in Attempts : q # "maker" \/ i # k => tasks'[q][i] = tasks[q][i]
        /\ rolling'["maker"] = k /\ \A q \in Parties : q # "maker" => rolling'[q] = rolling[q]
    BY <1>2, <1>4 DEF TypeOK
  <1>9. /\ tasks'["maker"][k].step = "msg0" /\ tasks'["maker"][k].from = dlcs["maker"]
        /\ tasks'["maker"][k].sess = 1 /\ tasks'["maker"][k].inbox = <<>> /\ "msg0" \in Going
    BY <1>8 DEF Task, Going
  <1>10. /\ Placed' /\ Now("maker")' = Now("maker") /\ Step("maker")' = "msg0"
         /\ Awaits("maker")' /\ Inbox("maker")' = <<>> /\ Began("maker")' = k
         /\ Now("taker")' = Now("taker") /\ Awaits("taker")' = Awaits("taker")
         /\ Inbox("taker")' = Inbox("taker") /\ HasRead("taker")' = HasRead("taker")
         /\ HasSaid("taker")' = HasSaid("taker") /\ Began("taker")' = bt
    <2>1. PICK step \in Going : step = "msg0"
      BY <1>9
    <2>2. /\ tasks'["maker"][k].step = step /\ step \notin {"msg1", "msg2", "ok"}
          /\ dlcs' = dlcs
      BY <1>1, <1>9, <2>1
    <2>3. /\ Placed' /\ Now("maker")' = Now("maker") /\ Step("maker")' = step
          /\ Awaits("maker")' = (step # "ok")
          /\ Inbox("maker")' = IF step # "ok" THEN tasks'["maker"][k].inbox ELSE <<>>
          /\ Began("maker")' = Now("maker")
          /\ \A q \in Parties : q # "maker" =>
               /\ Now(q)' = Now(q) /\ Step(q)' = Step(q) /\ Awaits(q)' = Awaits(q)
               /\ Inbox(q)' = Inbox(q) /\ HasRead(q)' = HasRead(q)
               /\ HasSaid(q)' = HasSaid(q) /\ Began(q)' = Began(q)
      BY <1>3, <1>4, <1>5, <1>8, <1>9, <2>2, Arrives
    <2> QED BY <1>4, <1>5, <1>9, <2>1, <2>2, <2>3
  <1>11. /\ HasRead("maker") = 3 * k /\ HasRead("maker")' = 3 * k
         /\ HasSaid("maker") = 3 * k /\ HasSaid("maker")' = 3 * k + 1
         /\ Began("maker") = k - 1 /\ Inbox("maker") = <<>> /\ ~Awaits("maker")
    BY <1>5, <1>10 DEF HasRead, HasSaid, Began, Inbox, Awaits
  <1>12. /\ bt \in Int /\ HasSaid("taker") \in Nat /\ HasRead("taker") \in Nat
         /\ HasSaid("taker") <= 3 * bt + 3
    BY <1>4, Numbers
  <1>13. bt = k - 1
    <2>1. bt <= k - 1
      BY <1>3, <1>11 DEF Counts
    <2>2. ~(bt < k - 1)
      BY <1>3, <1>4, <1>1, <1>11 DEF TokensIn
    <2> QED BY <1>5, <1>12, <2>1, <2>2
  <1>14. Numbered'
    <2>1. \A p \in Parties : \A i \in 1..Now(p)' : dlcs'[p][i] = Pair(i - 1)
      BY <1>1, <1>3, <1>4, <1>10 DEF Numbered, Parties
    <2> QED BY <2>1 DEF Numbered, Pair
  <1>15. OneLink'
    BY <1>1, <1>3, <1>7 DEF OneLink
  <1>16. Stream("maker")'
    <2>1. Incoming("maker", 1)' = Incoming("maker", 1)
      BY <1>7 DEF Incoming
    <2>2. /\ \A a : OnWay("maker", a)' <=> OnWay("maker", a)
          /\ \A a, b : InOrder("maker", a, b)' <=> InOrder("maker", a, b)
      BY <1>4, <1>10, <1>11, <2>1, WayNext DEF OnWay, InOrder
    <2>3. HasSaid(Other("maker"))' = HasSaid("taker") /\ HasSaid("taker") <= 3 * k
      BY <1>4, <1>5, <1>10, <1>12, <1>13
    <2>4. \A r \in Nat : ~(HasRead("maker")' <= r /\ r < HasSaid(Other("maker"))')
      BY <1>5, <1>11, <1>12, <2>3
    <2>5. Stream("maker") /\ HasRead("maker")' = HasRead("maker") /\ HasSaid(Other("maker")) = HasSaid("taker")
      BY <1>3, <1>4, <1>11
    <2> QED BY <2>2, <2>3, <2>4, <2>5 DEF Stream
  <1>17. Stream("taker")'
    <2>1. Incoming("taker", 1) = w /\ Incoming("taker", 1)' = Append(Append(w, c), m)
      BY <1>7 DEF Incoming
    <2> DEFINE u == Inbox("taker")
               w1 == Append(w, c)
               w2 == Append(w1, m)
    <2>2. w1 \in Seq(AnyMsg)
      BY <1>6
    <2>3. /\ \A a : In(u, w1, a) <=> In(u, w, a) \/ a = c
          /\ \A a, b : Along(u, w1, a, b) => Along(u, w, a, b) \/ (In(u, w, a) /\ b = c)
      BY <1>6, IsSent
    <2> HIDE DEF w1
    <2>4. /\ \A a : In(u, w2, a) <=> In(u, w1, a) \/ a = m
          /\ \A a, b : Along(u, w2, a, b) => Along(u, w1, a, b) \/ (In(u, w1, a) /\ b = m)
      BY <1>6, <2>2, IsSent
    <2> HIDE DEF w2, m, c
    <2>5. /\ \A a \in RollOverMsgs : In(u, w2, a) <=> In(u, w, a) \/ a = m
          /\ \A a, b \in RollOverMsgs : Along(u, w2, a, b) =>
               Along(u, w, a, b) \/ (In(u, w, a) /\ b = m)
      BY <1>6, <2>3, <2>4
    <2>6. Inbox("taker")' = u /\ Incoming("taker", 1)' = w2
      BY <1>10, <2>1 DEF w1, w2
    <2>7. /\ \A a \in RollOverMsgs : OnWay("taker", a)' <=> OnWay("taker", a) \/ a = m
          /\ \A a, b \in RollOverMsgs : InOrder("taker", a, b)' =>
               InOrder("taker", a, b) \/ (OnWay("taker", a) /\ b = m)
      BY <1>4, <2>1, <2>5, <2>6, WayNext DEF OnWay, InOrder
    <2>8. m.kind = "msg0" /\ m.key = k
      BY DEF m, Msg0
    <2>9. /\ Rank(m) = HasSaid("maker") /\ m.kind # "msg1"
          /\ HasRead("taker") <= HasSaid("maker")
      BY <1>3, <1>4, <1>11, <2>8 DEF Rank, Counts
    <2>10. HasSaid("maker")' = HasSaid("maker") + 1
      BY <1>11
    <2> QED BY <1>3, <1>4, <1>6, <1>10, <2>7, <2>9, <2>10, StreamSaid
  <1>18. Counts'
    <2>1. \A p \in Parties : \A x \in revealed[p] : x \in Nat
      BY BoundsAssumption DEF TypeOK, Keys
    <2>2. /\ HasRead("taker") <= HasSaid("maker") /\ HasRead("maker") <= HasSaid("taker")
          /\ \A x \in revealed["taker"] : 3 * x + 5 < HasSaid("taker")
          /\ \A x \in revealed["maker"] : 3 * x + 5 < HasSaid("maker")
      BY <1>3, <1>4 DEF Counts
    <2>3. /\ HasRead("taker")' <= HasSaid("maker")' /\ HasRead("maker")' <= HasSaid("taker")'
          /\ Began("taker")' <= Began("maker")'
      BY <1>5, <1>10, <1>11, <1>12, <1>13, <2>2
    <2>4. \A p \in Parties : \A x \in revealed[p] : 3 * x + 5 < HasSaid(p)'
      BY <1>4, <1>5, <1>10, <1>11, <2>1, <2>2 DEF Parties
    <2>5. \A p \in Parties : HasRead(p)' <= HasSaid(Other(p))'
      BY <1>4, <2>3 DEF Parties
    <2> QED BY <1>1, <2>3, <2>4, <2>5 DEF Counts
  <1>19. TokensIn(v, Append(Append(w, c), m), proposed, None, bt, k)
    <2> DEFINE w1 == Append(w, c)
               w2 == Append(w1, m)
    <2>1. w1 \in Seq(AnyMsg)
      BY <1>6
    <2>2. /\ \A a : Has(w1, a) => Has(w, a) \/ a = c
          /\ \A a, b : Before(w1, a, b) => Before(w, a, b) \/ (Has(w, a) /\ b = c)
          /\ Has(w1, c)
      BY <1>6, HasAppend, AppendHas
    <2> HIDE DEF w1
    <2>3. /\ \A a : Has(w2, a) => Has(w1, a) \/ a = m
          /\ \A a, b : Before(w2, a, b) => Before(w1, a, b) \/ (Has(w1, a) /\ b = m)
          /\ \A a : Has(w1, a) => Before(w2, a, m)
      BY <1>6, <2>1, HasAppend, AppendHas
    <2> HIDE DEF w2
    <2>4. /\ proposed /\ ~Has(v, Notice("propose")) /\ ~Has(w, Notice("reject"))
          /\ ~Has(w, c) /\ ~Before(v, Notice("propose"), Notice("propose"))
      BY <1>1, <1>3 DEF TokensIn
    <2>5. /\ m # Notice("reject") /\ m # c /\ c # Notice("reject")
      BY Notices
    <2>6. ~Has(w2, Notice("reject")) /\ ~Before(w2, c, c) /\ Before(w2, c, m)
      BY <2>2, <2>3, <2>4, <2>5, HasBefore
    <2>7. ~Before(w2, Notice("reject"), Notice("reject"))
      BY <2>6, HasBefore
    <2>8. bt < k /\ bt \in Int
      BY <1>5, <1>12, <1>13
    <2>9. TokensIn(v, w2, proposed, None, bt, k)
      BY <2>4, <2>6, <2>7, <2>8 DEF TokensIn
    <2> QED BY <2>9 DEF w1, w2
  <1>20. Tokens'
    BY <1>1, <1>7, <1>10, <1>19, NextTokens
  <1>21. \A p \in Parties : Stream(p)'
    BY <1>16, <1>17 DEF Parties
  <1> QED BY <1>10, <1>14, <1>15, <1>18, <1>20, <1>21 DEF InStep

LEMMA AcceptedInStep ==
    ASSUME TypeOK, TypeOK', Counted, InStep, HandleRollOverAccepted
    PROVE  InStep'
  <1> DEFINE c == Notice("confirm")
             v == toMaker[1]
             w == toTaker
             bm == Began("maker")
  <1>1. PICK k \in Attempts :
          /\ w # <<>> /\ Head(w).kind = "confirm" /\ rolling["taker"] = None
          /\ NextAttempt("taker", k)
          /\ tasks' = [tasks EXCEPT !["taker"][k] = Task("msg0", dlcs["taker"], sess)]
          /\ rolling' = [rolling EXCEPT !["taker"] = k]
          /\ proposed' = FALSE /\ offered' = offered
          /\ toTaker' = Tail(w)
          /\ toMaker' = [toMaker EXCEPT ![sess] = toMaker[sess] \o Carried(sess, <<Msg0(k)>>)]
          /\ UNCHANGED <<dlcs, sess, linked, revealed>>
    BY DEF HandleRollOverAccepted, MayRollOver, dbVars
  <1> DEFINE m == Msg0(k)
  <1>2. /\ Numbered /\ Placed /\ OneLink /\ Counts /\ \A p \in Parties : Stream(p)
        /\ TokensIn(v, w, proposed, offered, Began("taker"), bm)
    BY DEF InStep, Tokens
  <1>3. /\ sess = 1 /\ linked /\ offered \in {None, 1} /\ 1 \in Sessions
        /\ "maker" \in Parties /\ "taker" \in Parties
        /\ \A s \in Sessions : s # 1 => toMaker[s] = <<>>
        /\ Other("maker") = "taker" /\ Other("taker") = "maker"
    BY <1>2, QueueTypes DEF OneLink, Parties, Other
  <1>4. ~Unfinished("taker")
    <2>1. ASSUME NEW i \in Attempts, tasks["taker"][i].step \in Going
          PROVE  FALSE
      <3>1. rolling["taker"] = i
        BY <1>2, <1>3, <2>1, Running
      <3> QED BY <1>1, <3>1, NoneAssumption
    <2> QED BY <2>1 DEF Unfinished, Waiting, Going
  <1>5. k = Now("taker") /\ Step("taker") = "none" /\ k \in Nat
    BY <1>1, <1>2, <1>3, <1>4, Beginner, TypesOf
  <1>6. /\ v \in Seq(AnyMsg) /\ w \in Seq(AnyMsg) /\ w \in Seq(ToTaker) /\ c \notin RollOverMsgs
        /\ m \in RollOverMsgs /\ m \in AnyMsg /\ m # c
    BY QueueTypes, Messages, Notices, TypesOf
  <1>7. Head(w) = c
    <2>1. Head(w) \in ToTaker
      BY <1>1, <1>6, HasTail
    <2> QED BY <1>1, <2>1, Notices
  <1>8. /\ toMaker'[1] = Append(v, m) /\ toTaker' = Tail(w)
        /\ \A s \in Sessions : s # 1 => toMaker'[s] = toMaker[s]
    <2>1. v \o <<m>> = Append(v, m) /\ toMaker \in [Sessions -> Seq(ToMaker)]
      BY <1>6 DEF TypeOK
    <2>2. toMaker' = [toMaker EXCEPT ![1] = v \o <<m>>] /\ toTaker' = Tail(w)
      BY <1>1, <1>3 DEF Carried
    <2> HIDE DEF m
    <2> QED BY <1>3, <2>1, <2>2
  <1>9. /\ tasks'["taker"][k] = Task("msg0", dlcs["taker"], 1)
        /\ \A q \in Parties, i \in Attempts : q # "taker" \/ i # k => tasks'[q][i] = tasks[q][i]
        /\ rolling'["taker"] = k /\ \A q \in Parties : q # "taker" => rolling'[q] = rolling[q]
    BY <1>1, <1>3 DEF TypeOK
  <1>10. /\ tasks'["taker"][k].step = "msg0" /\ tasks'["taker"][k].from = dlcs["taker"]
         /\ tasks'["taker"][k].sess = 1 /\ tasks'["taker"][k].inbox = <<>> /\ "msg0" \in Going
    BY <1>9 DEF Task, Going
  <1>11. /\ Placed' /\ Now("taker")' = Now("taker") /\ Step("taker")' = "msg0"
         /\ Awaits("taker")' /\ Inbox("taker")' = <<>> /\ Began("taker")' = k
         /\ Now("maker")' = Now("maker") /\ Awaits("maker")' = Awaits("maker")
         /\ Inbox("maker")' = Inbox("maker") /\ HasRead("maker")' = HasRead("maker")
         /\ HasSaid("maker")' = HasSaid("maker") /\ Began("maker")' = bm
    <2>1. PICK step \in Going : step = "msg0"
      BY <1>10
    <2>2. /\ tasks'["taker"][k].step = step /\ step \notin {"msg1", "msg2", "ok"}
          /\ dlcs' = dlcs
      BY <1>1, <1>10, <2>1
    <2>3. /\ Placed' /\ Now("taker")' = Now("taker") /\ Step("taker")' = step
          /\ Awaits("taker")' = (step # "ok")
          /\ Inbox("taker")' = IF step # "ok" THEN tasks'["taker"][k].inbox ELSE <<>>
          /\ Began("taker")' = Now("taker")
          /\ \A q \in Parties : q # "taker" =>
               /\ Now(q)' = Now(q) /\ Step(q)' = Step(q) /\ Awaits(q)' = Awaits(q)
               /\ Inbox(q)' = Inbox(q) /\ HasRead(q)' = HasRead(q)
               /\ HasSaid(q)' = HasSaid(q) /\ Began(q)' = Began(q)
      BY <1>2, <1>3, <1>5, <1>9, <1>10, <2>2, Arrives
    <2> QED BY <1>3, <1>5, <1>10, <2>1, <2>2, <2>3
  <1>12. /\ HasRead("taker") = 3 * k /\ HasRead("taker")' = 3 * k
         /\ HasSaid("taker") = 3 * k /\ HasSaid("taker")' = 3 * k + 1
         /\ Began("taker") = k - 1 /\ Inbox("taker") = <<>> /\ ~Awaits("taker")
    BY <1>5, <1>11 DEF HasRead, HasSaid, Began, Inbox, Awaits
  <1>13. /\ Has(w, c) /\ (\A a : Has(Tail(w), a) => Has(w, a) /\ Before(w, c, a))
         /\ \A a, b : Before(Tail(w), a, b) => Before(w, a, b)
    BY <1>1, <1>6, <1>7, HasTail
  <1>14. /\ k - 1 < bm /\ Before(w, c, Msg0(bm)) /\ proposed /\ offered = None
         /\ ~Has(v, Notice("propose")) /\ ~Has(w, Notice("reject"))
    BY <1>2, <1>12, <1>13 DEF TokensIn
  <1>15. /\ bm = k /\ HasRead("maker") = 3 * k /\ HasSaid("maker") = 3 * k + 1
    <2>1. /\ Now("maker") \in Nat /\ HasRead("maker") \in Nat /\ 3 * Now("maker") <= HasRead("maker")
      BY <1>3, Numbers
    <2>2. HasRead("maker") <= 3 * k
      BY <1>2, <1>3, <1>12 DEF Counts
    <2>3. bm = IF Step("maker") = "none" THEN Now("maker") - 1 ELSE Now("maker")
      BY DEF Began
    <2>4. Now("maker") = k /\ Step("maker") # "none" /\ bm = k /\ HasRead("maker") = 3 * k
      BY <1>5, <1>14, <2>1, <2>2, <2>3
    <2>5. Step("maker") \in Going
      BY <1>2, <1>3, <2>4 DEF Placed, Step, Going
    <2>6. Step("maker") = "msg0"
      BY <1>5, <2>4, <2>5 DEF HasRead, Going
    <2>7. HasSaid("maker") = 3 * k + 1
      BY <2>4, <2>6 DEF HasSaid
    <2> QED BY <2>4, <2>7
  <1>16. Numbered'
    <2>1. \A p \in Parties : \A i \in 1..Now(p)' : dlcs'[p][i] = Pair(i - 1)
      BY <1>1, <1>2, <1>3, <1>11 DEF Numbered, Parties
    <2> QED BY <2>1 DEF Numbered, Pair
  <1>17. OneLink'
    BY <1>1, <1>2, <1>8 DEF OneLink
  <1>18. m.kind = "msg0" /\ m.key = k /\ Rank(m) = 3 * k
    BY DEF m, Msg0, Rank
  <1>19. Stream("taker")'
    <2>1. Incoming("taker", 1) = w /\ Incoming("taker", 1)' = Tail(w)
      BY <1>8 DEF Incoming
    <2> DEFINE u == Inbox("taker")
    <2>2. /\ \A a : In(u, Tail(w), a) => In(u, w, a)
          /\ \A a : In(u, w, a) => a = Head(w) \/ In(u, Tail(w), a)
          /\ \A a, b : Along(u, Tail(w), a, b) => Along(u, w, a, b)
      BY <1>1, <1>6, IsTaken
    <2>3. /\ \A a : OnWay("taker", a)' => OnWay("taker", a)
          /\ \A a : OnWay("taker", a) => a = c \/ OnWay("taker", a)'
          /\ \A a, b : InOrder("taker", a, b)' => InOrder("taker", a, b)
      BY <1>3, <1>7, <1>11, <1>12, <2>1, <2>2, WayNext DEF OnWay, InOrder
    <2>4. OnWay("taker", m)'
      <3>1. Has(w, m)
        BY <1>14, <1>15, HasBefore
      <3>2. OnWay("taker", m)
        BY <2>1, <3>1 DEF OnWay, In
      <3> QED BY <1>6, <2>3, <3>2
    <2>5. /\ HasSaid(Other("taker"))' = 3 * k + 1 /\ HasSaid(Other("taker")) = 3 * k + 1
          /\ Stream("taker")
      BY <1>2, <1>3, <1>11, <1>15
    <2>6. ASSUME NEW r \in Nat, HasRead("taker")' <= r, r < HasSaid(Other("taker"))'
          PROVE  \E a \in RollOverMsgs : OnWay("taker", a)' /\ Rank(a) = r
      <3>1. r = 3 * k
        BY <1>5, <1>12, <2>5, <2>6
      <3> QED BY <1>6, <1>18, <2>4, <3>1
    <2>7. HasRead("taker")' = HasRead("taker") /\ HasSaid(Other("taker"))' = HasSaid(Other("taker"))
      BY <1>12, <2>5
    <2> QED BY <2>3, <2>5, <2>6, <2>7 DEF Stream
  <1>20. Stream("maker")'
    <2>1. Incoming("maker", 1) = v /\ Incoming("maker", 1)' = Append(v, m)
      BY <1>8 DEF Incoming, v
    <2> DEFINE u == Inbox("maker")
    <2> HIDE DEF m, u, v
    <2>2. /\ \A a : In(u, Append(v, m), a) <=> In(u, v, a) \/ a = m
          /\ \A a, b : Along(u, Append(v, m), a, b) => Along(u, v, a, b) \/ (In(u, v, a) /\ b = m)
      BY <1>6, IsSent
    <2>3. /\ \A a : OnWay("maker", a)' <=> OnWay("maker", a) \/ a = m
          /\ \A a, b : InOrder("maker", a, b)' =>
               InOrder("maker", a, b) \/ (OnWay("maker", a) /\ b = m)
      <3>1. /\ \A a : OnWay("maker", a) <=> In(u, v, a)
            /\ \A a, b : InOrder("maker", a, b) <=> Along(u, v, a, b)
        BY <2>1 DEF OnWay, InOrder, u
      <3>2. Inbox("maker")' = u /\ Incoming("maker", 1)' = Append(v, m)
        BY <1>11, <2>1 DEF u
      <3>3. /\ \A a : OnWay("maker", a)' <=> In(u, Append(v, m), a)
            /\ \A a, b : InOrder("maker", a, b)' <=> Along(u, Append(v, m), a, b)
        BY <1>3, <3>2, WayNext
      <3> QED BY <2>2, <3>1, <3>3
    <2>4. /\ HasRead("maker") <= HasSaid(Other("maker")) /\ Rank(m) = HasSaid(Other("maker"))
          /\ HasSaid(Other("maker"))' = HasSaid(Other("maker")) + 1 /\ m.kind # "msg1"
          /\ HasRead("maker")' = HasRead("maker") /\ Awaits("maker")' = Awaits("maker")
          /\ Stream("maker")
      BY <1>2, <1>3, <1>5, <1>11, <1>12, <1>15, <1>18
    <2> QED BY <1>3, <1>6, <2>3, <2>4, StreamSaid
  <1>21. Counts'
    <2>1. \A p \in Parties : \A x \in revealed[p] : x \in Nat
      BY BoundsAssumption DEF TypeOK, Keys
    <2>2. /\ \A x \in revealed["taker"] : 3 * x + 5 < HasSaid("taker")
          /\ \A x \in revealed["maker"] : 3 * x + 5 < HasSaid("maker")
      BY <1>2, <1>3 DEF Counts
    <2>3. /\ HasRead("taker")' <= HasSaid("maker")' /\ HasRead("maker")' <= HasSaid("taker")'
          /\ Began("taker")' <= Began("maker")'
      BY <1>5, <1>11, <1>12, <1>15
    <2>4. \A p \in Parties : \A x \in revealed[p] : 3 * x + 5 < HasSaid(p)'
      BY <1>3, <1>5, <1>11, <1>12, <2>1, <2>2 DEF Parties
    <2>5. \A p \in Parties : HasRead(p)' <= HasSaid(Other(p))'
      BY <1>3, <2>3 DEF Parties
    <2> QED BY <1>1, <2>3, <2>4, <2>5 DEF Counts
  <1>22. TokensIn(Append(v, m), Tail(w), FALSE, offered, k, k)
    <2>1. \A a : Has(Append(v, m), a) => Has(v, a) \/ a = m
      BY <1>6, HasAppend
    <2>2. m # Notice("propose")
      BY Notices
    <2>3. ~Has(Append(v, m), Notice("propose")) /\ ~Has(Tail(w), Notice("reject"))
      BY <1>13, <1>14, <2>1, <2>2
    <2>4. ~Has(Tail(w), c)
      <3>1. ~Before(w, c, c)
        BY <1>2 DEF TokensIn
      <3> QED BY <1>13, <3>1
    <2>5. /\ ~Before(Append(v, m), Notice("propose"), Notice("propose"))
          /\ ~Before(Tail(w), Notice("reject"), Notice("reject")) /\ ~Before(Tail(w), c, c)
      BY <2>3, <2>4, HasBefore
    <2>6. ~(k < k)
      BY <1>5
    <2> QED BY <1>14, <2>3, <2>4, <2>5, <2>6 DEF TokensIn
  <1>23. Tokens'
    BY <1>1, <1>8, <1>11, <1>15, <1>22, NextTokens
  <1>24. \A p \in Parties : Stream(p)'
    BY <1>19, <1>20 DEF Parties
  <1> QED BY <1>11, <1>16, <1>17, <1>21, <1>23, <1>24 DEF InStep

-----------------------------------------------------------------------------
(* Messages that arrive.                                                   *)

LEMMA NumberedKept ==
    ASSUME Numbered, dlcs' = dlcs
    PROVE  Numbered'
  BY DEF Numbered, Now, Pair

(* A protocol message is routed to its task, or dropped.                   *)
LEMMA RoutedInStep ==
    ASSUME TypeOK, TypeOK', InStep, NEW p \in Parties, NEW msg \in RollOverMsgs,
           Routed(p, 1, msg) \/ Dropped(p, 1),
           Incoming(p, 1) # <<>>, msg = Head(Incoming(p, 1)),
           Incoming(p, 1)' = Tail(Incoming(p, 1)),
           Incoming(Other(p), 1)' = Incoming(Other(p), 1),
           \A s \in Sessions : s # 1 => toMaker'[s] = toMaker[s],
           UNCHANGED <<dlcs, rolling, proposed, offered, sess, linked, revealed>>
    PROVE  InStep'
  <1> DEFINE u == Inbox(p)
             v == Incoming(p, 1)
             o == Other(p)
  <1>1. /\ Numbered /\ Placed /\ OneLink /\ Counts /\ Tokens /\ \A q \in Parties : Stream(q)
    BY DEF InStep
  <1>2. /\ v \in Seq(AnyMsg) /\ o \in Parties /\ o # p /\ Other(o) = p
        /\ \A q \in Parties : q = p \/ q = o
    BY QueueTypes DEF Other, Parties
  <1>3. Plain(toMaker[1], toMaker'[1]) /\ Plain(toTaker, toTaker')
    <2>1. Plain(Incoming(p, 1), Incoming(p, 1)') /\ Plain(Incoming(o, 1), Incoming(o, 1)')
      BY DEF Plain
    <2>2. \A q \in Parties : Plain(Incoming(q, 1), Incoming(q, 1)')
      BY <1>2, <2>1
    <2> QED BY <2>2, QueueTypes, NextQueues DEF Parties
  <1>4. Numbered' /\ OneLink'
    BY <1>1, NumberedKept DEF OneLink
  <1>5. ASSUME /\ Placed'
               /\ \A q \in Parties : /\ Awaits(q)' = Awaits(q) /\ HasRead(q)' = HasRead(q)
                                     /\ HasSaid(q)' = HasSaid(q) /\ Began(q)' = Began(q),
               Inbox(o)' = Inbox(o),
               \A m : OnWay(p, m)' => OnWay(p, m),
               \A a, b : InOrder(p, a, b)' => InOrder(p, a, b),
               Awaits(p) => \A m : OnWay(p, m) => OnWay(p, m)'
        PROVE  InStep'
    <2>1. Tokens'
      BY <1>1, <1>3, <1>5, TokensKept
    <2>2. Counts'
      <3>1. \A q \in Parties : HasRead(q)' = HasRead(q) /\ HasSaid(Other(q))' = HasSaid(Other(q))
        BY <1>2, <1>5
      <3>2. Began("taker")' = Began("taker") /\ Began("maker")' = Began("maker")
        BY <1>5 DEF Parties
      <3> QED BY <1>1, <1>5, <3>1, <3>2 DEF Counts
    <2>3. Stream(p)'
      <3>1. /\ HasSaid(Other(p))' = HasSaid(Other(p)) /\ HasRead(p)' = HasRead(p)
            /\ Awaits(p)' = Awaits(p) /\ Stream(p)
        BY <1>1, <1>2, <1>5
      <3> QED BY <1>5, <3>1, StreamKept
    <2>4. Stream(o)'
      <3>1. /\ HasSaid(Other(o))' = HasSaid(Other(o)) /\ HasRead(o)' = HasRead(o)
            /\ Awaits(o)' = Awaits(o) /\ Stream(o) /\ o \in Parties
        BY <1>1, <1>2, <1>5
      <3>2. Inbox(o)' = Inbox(o) /\ Incoming(o, 1)' = Incoming(o, 1)
        BY <1>5
      <3>3. /\ \A m : OnWay(o, m)' <=> In(Inbox(o), Incoming(o, 1), m)
            /\ \A a, b : InOrder(o, a, b)' <=> Along(Inbox(o), Incoming(o, 1), a, b)
        BY <3>1, <3>2, WayNext
      <3>4. /\ \A m : OnWay(o, m)' <=> OnWay(o, m)
            /\ \A a, b : InOrder(o, a, b)' <=> InOrder(o, a, b)
        BY <3>3 DEF OnWay, InOrder
      <3> QED BY <3>1, <3>4, StreamKept
    <2>5. \A q \in Parties : Stream(q)'
      BY <1>2, <2>3, <2>4
    <2> QED BY <1>4, <1>5, <2>1, <2>2, <2>5 DEF InStep
  <1>6. CASE Routed(p, 1, msg)
    <2>1. PICK k \in Attempts :
            /\ rolling[p] = k /\ Waiting(p, k)
            /\ tasks' = At(p, k, tasks[p][k].step, tasks[p][k].other, Append(tasks[p][k].inbox, msg))
      BY <1>6 DEF Routed
    <2>2. PICK step \in Steps, other \in Keys, inbox \in Seq(RollOverMsgs) :
            /\ step = tasks[p][k].step /\ other = tasks[p][k].other
            /\ inbox = Append(tasks[p][k].inbox, msg)
      <3>1. /\ tasks[p][k].step \in Steps /\ tasks[p][k].other \in Keys
            /\ Append(tasks[p][k].inbox, msg) \in Seq(RollOverMsgs)
        BY TypesOf
      <3> QED BY <3>1
    <2>3. tasks' = At(p, k, step, other, inbox)
      BY <2>1, <2>2
    <2>4. /\ Moves(p, k, step, other) /\ tasks'[p][k].inbox = inbox
          /\ \A q \in Parties, i \in Attempts : q # p \/ i # k => tasks'[q][i] = tasks[q][i]
      BY <2>3, AtMoves
    <2>5. /\ step \in Going /\ tasks[p][k].step \in Going /\ step # "ok"
      BY <2>1, <2>2 DEF Waiting, Going
    <2>6. /\ k = Now(p) /\ Step(p) = step /\ tasks[p][k].sess = 1
          /\ tasks[p][k].from = dlcs[p] /\ Awaits(p) /\ Inbox(p) = tasks[p][k].inbox
          /\ tasks[p][k].inbox \in Seq(RollOverMsgs)
          /\ step \in {"msg1", "msg2", "ok"} => other = k
      BY <1>1, <2>2, <2>5, Running
    <2>7. /\ tasks'[p][k].step = step /\ tasks'[p][k].from = dlcs[p] /\ tasks'[p][k].sess = 1
          /\ tasks'[p][k].other = other /\ rolling'[p] = k
          /\ \A q \in Parties : q # p => rolling'[q] = rolling[q]
      BY <2>1, <2>4, <2>6 DEF Moves
    <2>8. /\ Placed' /\ Now(p)' = Now(p) /\ Step(p)' = step /\ Awaits(p)' = (step # "ok")
          /\ Inbox(p)' = IF step # "ok" THEN tasks'[p][k].inbox ELSE <<>>
          /\ Began(p)' = Now(p)
          /\ \A q \in Parties : q # p =>
               /\ Now(q)' = Now(q) /\ Step(q)' = Step(q) /\ Awaits(q)' = Awaits(q)
               /\ Inbox(q)' = Inbox(q) /\ HasRead(q)' = HasRead(q)
               /\ HasSaid(q)' = HasSaid(q) /\ Began(q)' = Began(q)
      BY <1>1, <2>4, <2>5, <2>6, <2>7, Arrives
    <2>9. /\ HasRead(p)' = HasRead(p) /\ HasSaid(p)' = HasSaid(p) /\ Began(p)' = Began(p)
          /\ Awaits(p)' /\ Inbox(p)' = Append(Inbox(p), msg)
      <3>1. HasRead(p)' = HasRead(p) /\ HasSaid(p)' = HasSaid(p)
        BY <2>6, <2>8 DEF HasRead, HasSaid
      <3>2. Began(p) = Now(p)
        BY <2>5, <2>6 DEF Began, Going
      <3> QED BY <2>2, <2>4, <2>5, <2>6, <2>8, <3>1, <3>2
    <2>10. u \in Seq(AnyMsg)
      <3>1. RollOverMsgs \subseteq AnyMsg
        BY Messages
      <3> QED BY <2>6, <3>1
    <2>11. Inbox(p)' = Append(u, Head(v)) /\ Incoming(p, 1)' = Tail(v)
      BY <2>9
    <2>12. /\ \A m : In(Append(u, Head(v)), Tail(v), m) <=> In(u, v, m)
           /\ \A a, b : Along(Append(u, Head(v)), Tail(v), a, b) => Along(u, v, a, b)
      BY <1>2, <2>10, Passes
    <2>13. /\ \A m : OnWay(p, m)' <=> In(Append(u, Head(v)), Tail(v), m)
           /\ \A a, b : InOrder(p, a, b)' <=> Along(Append(u, Head(v)), Tail(v), a, b)
      BY <2>11, WayNext
    <2>14. /\ \A m : OnWay(p, m) <=> In(u, v, m)
           /\ \A a, b : InOrder(p, a, b) <=> Along(u, v, a, b)
      BY DEF OnWay, InOrder
    <2> HIDE DEF u, v
    <2>15. /\ \A m : OnWay(p, m)' <=> OnWay(p, m)
           /\ \A a, b : InOrder(p, a, b)' => InOrder(p, a, b)
      BY <2>12, <2>13, <2>14
    <2>16. \A q \in Parties : /\ Awaits(q)' = Awaits(q) /\ HasRead(q)' = HasRead(q)
                              /\ HasSaid(q)' = HasSaid(q) /\ Began(q)' = Began(q)
      <3>1. Awaits(p) = TRUE /\ Awaits(p)' = TRUE
        BY <2>5, <2>6, <2>8 DEF Awaits
      <3> QED BY <2>8, <2>9, <3>1
    <2> QED BY <1>2, <1>5, <2>8, <2>15, <2>16
  <1>7. CASE Dropped(p, 1)
    <2>1. UNCHANGED tasks
      BY <1>7 DEF Dropped
    <2>2. \A q \in Parties :
            /\ Now(q)' = Now(q) /\ Step(q)' = Step(q) /\ Awaits(q)' = Awaits(q)
            /\ Inbox(q)' = Inbox(q) /\ HasRead(q)' = HasRead(q)
            /\ HasSaid(q)' = HasSaid(q) /\ Began(q)' = Began(q)
      BY <2>1, Frozen
    <2>3. Placed'
      <3>1. \A q \in Parties, k \in Attempts :
              /\ tasks'[q][k] = tasks[q][k] /\ Now(q)' = Now(q) /\ rolling'[q] = rolling[q]
              /\ dlcs'[q] = dlcs[q]
        BY <2>1, <2>2
      <3> QED BY <1>1, <3>1 DEF Placed
    <2>4. ~Awaits(p)
      <3>1. SUFFICES ASSUME Awaits(p)
                     PROVE  FALSE
        OBVIOUS
      <3>2. Now(p) \in Attempts /\ Waiting(p, Now(p)) /\ tasks[p][Now(p)].step \in Going
        BY <3>1 DEF Awaits, Step, Waiting, Going
      <3>3. rolling[p] = Now(p) /\ tasks[p][Now(p)].sess = 1
        BY <1>1, <3>2, Running
      <3> QED BY <1>7, <3>2, <3>3 DEF Dropped
    <2>5. /\ \A m : In(u, Tail(v), m) => In(u, v, m)
          /\ \A a, b : Along(u, Tail(v), a, b) => Along(u, v, a, b)
      BY <1>2, IsTaken
    <2>6. Inbox(p)' = u /\ Incoming(p, 1)' = Tail(v)
      BY <2>2
    <2>7. /\ \A m : OnWay(p, m)' <=> In(u, Tail(v), m)
          /\ \A a, b : InOrder(p, a, b)' <=> Along(u, Tail(v), a, b)
      BY <2>6, WayNext
    <2>8. /\ \A m : OnWay(p, m) <=> In(u, v, m)
          /\ \A a, b : InOrder(p, a, b) <=> Along(u, v, a, b)
      BY DEF OnWay, InOrder
    <2> HIDE DEF u, v
    <2>9. /\ \A m : OnWay(p, m)' => OnWay(p, m)
          /\ \A a, b : InOrder(p, a, b)' => InOrder(p, a, b)
      BY <2>5, <2>7, <2>8
    <2> QED BY <1>2, <1>5, <2>2, <2>3, <2>4, <2>9
  <1> QED BY <1>6, <1>7

LEMMA MakerHandlesInStep ==
    ASSUME TypeOK, TypeOK', InStep, NEW s \in Sessions, MakerHandlesProtocolMsg(s)
    PROVE  InStep'
  <1>1. /\ toMaker[s] # <<>> /\ Head(toMaker[s]) \in RollOverMsgs
        /\ toMaker' = [toMaker EXCEPT ![s] = Tail(toMaker[s])] /\ toTaker' = toTaker
        /\ Routed("maker", s, Head(toMaker[s])) \/ Dropped("maker", s)
        /\ UNCHANGED <<dlcs, rolling, proposed, offered, sess, linked, revealed>>
    BY DEF MakerHandlesProtocolMsg, MakerReceives, dbVars, actorVars, histVars
  <1>2. s = 1 /\ "maker" \in Parties
    BY <1>1 DEF InStep, OneLink, Parties
  <1>3. PICK msg \in RollOverMsgs : msg = Head(toMaker[s])
    BY <1>1
  <1>4. /\ toMaker'[1] = Tail(toMaker[1])
        /\ \A r \in Sessions : r # 1 => toMaker'[r] = toMaker[r]
    BY <1>1, <1>2 DEF TypeOK
  <1>5. /\ Incoming("maker", 1) = toMaker[1] /\ Incoming("maker", 1)' = toMaker'[1]
        /\ Incoming(Other("maker"), 1) = toTaker /\ Incoming(Other("maker"), 1)' = toTaker'
    BY DEF Incoming, Other
  <1>6. Routed("maker", 1, msg) \/ Dropped("maker", 1)
    BY <1>1, <1>2, <1>3
  <1> QED BY <1>1, <1>2, <1>3, <1>4, <1>5, <1>6, RoutedInStep

LEMMA TakerHandlesInStep ==
    ASSUME TypeOK, TypeOK', InStep, TakerHandlesProtocolMsg
    PROVE  InStep'
  <1>1. /\ toTaker # <<>> /\ Head(toTaker) \in RollOverMsgs
        /\ toTaker' = Tail(toTaker) /\ toMaker' = toMaker
        /\ Routed("taker", sess, Head(toTaker)) \/ Dropped("taker", sess)
        /\ UNCHANGED <<dlcs, rolling, proposed, offered, sess, linked, revealed>>
    BY DEF TakerHandlesProtocolMsg, TakerReceives, dbVars, actorVars, histVars
  <1>2. sess = 1 /\ "taker" \in Parties
    BY DEF InStep, OneLink, Parties
  <1>3. PICK msg \in RollOverMsgs : msg = Head(toTaker)
    BY <1>1
  <1>4. /\ Incoming("taker", 1) = toTaker /\ Incoming("taker", 1)' = toTaker'
        /\ Incoming(Other("taker"), 1) = toMaker[1] /\ Incoming(Other("taker"), 1)' = toMaker'[1]
    BY DEF Incoming, Other
  <1>5. Routed("taker", 1, msg) \/ Dropped("taker", 1)
    BY <1>1, <1>2, <1>3
  <1> QED BY <1>1, <1>2, <1>3, <1>4, <1>5, RoutedInStep

-----------------------------------------------------------------------------
(* Messages that are read.                                                 *)

(* p's attempt k reads the first message of its inbox and perhaps answers. *)
LEMMA ReadInStep ==
    ASSUME TypeOK, TypeOK', InStep, NEW p \in Parties, NEW k \in Attempts,
           Waiting(p, k), tasks[p][k].inbox # <<>>,
           NEW step \in Going, NEW other \in Keys, Moves(p, k, step, other),
           tasks'[p][k].inbox = Tail(tasks[p][k].inbox), other = k,
           \A q \in Parties, i \in Attempts : q # p \/ i # k => tasks'[q][i] = tasks[q][i],
           \/ tasks[p][k].step = "msg0" /\ step = "msg1"
           \/ tasks[p][k].step = "msg1" /\ step = "msg2"
           \/ tasks[p][k].step = "msg2" /\ step = "ok",
           IF step = "ok" THEN Incoming(Other(p), 1)' = Incoming(Other(p), 1)
           ELSE \E said \in RollOverMsgs :
                  /\ Rank(said) = HasSaid(p)
                  /\ said.kind = "msg1" => said.dlc["maker"] = said.dlc["taker"]
                  /\ Incoming(Other(p), 1)' = Append(Incoming(Other(p), 1), said),
           Incoming(p, 1)' = Incoming(p, 1),
           \A s \in Sessions : s # 1 => toMaker'[s] = toMaker[s],
           UNCHANGED <<dlcs, rolling, proposed, offered, sess, linked>>,
           \A q \in Parties : q # p => revealed'[q] = revealed[q],
           \A x \in revealed'[p] : x \in revealed[p] \/ (step = "msg2" /\ 3 * x + 5 < HasSaid(p) + 1)
    PROVE  InStep'
  <1> DEFINE u == Inbox(p)
             v == Incoming(p, 1)
             o == Other(p)
  <1>1. /\ Numbered /\ Placed /\ OneLink /\ Counts /\ Tokens /\ \A q \in Parties : Stream(q)
    BY DEF InStep
  <1>2. /\ v \in Seq(AnyMsg) /\ o \in Parties /\ o # p /\ Other(o) = p
        /\ \A q \in Parties : q = p \/ q = o
        /\ Incoming(o, 1) \in Seq(AnyMsg)
    BY QueueTypes DEF Other, Parties
  <1>3. tasks[p][k].step \in Going /\ tasks[p][k].step # "ok"
    BY DEF Waiting, Going
  <1>4. /\ k = Now(p) /\ Step(p) = tasks[p][k].step /\ tasks[p][k].sess = 1 /\ rolling[p] = k
        /\ tasks[p][k].from = dlcs[p] /\ Awaits(p) /\ u = tasks[p][k].inbox
        /\ u \in Seq(RollOverMsgs) /\ u # <<>>
    BY <1>1, <1>3, Running
  <1>5. /\ tasks'[p][k].step = step /\ tasks'[p][k].from = dlcs[p] /\ tasks'[p][k].sess = 1
        /\ tasks'[p][k].other = k /\ rolling'[p] = k
        /\ \A q \in Parties : q # p => rolling'[q] = rolling[q]
    BY <1>4 DEF Moves
  <1>6. /\ Placed' /\ Now(p)' = Now(p) /\ Step(p)' = step /\ Awaits(p)' = (step # "ok")
        /\ Inbox(p)' = IF step # "ok" THEN tasks'[p][k].inbox ELSE <<>>
        /\ Began(p)' = Now(p)
        /\ \A q \in Parties : q # p =>
             /\ Now(q)' = Now(q) /\ Step(q)' = Step(q) /\ Awaits(q)' = Awaits(q)
             /\ Inbox(q)' = Inbox(q) /\ HasRead(q)' = HasRead(q)
             /\ HasSaid(q)' = HasSaid(q) /\ Began(q)' = Began(q)
    BY <1>1, <1>4, <1>5, Arrives, ZenonT(40)
  <1>7. /\ Now(p) \in Nat /\ HasRead(p) \in Nat /\ HasSaid(p) \in Nat
        /\ HasRead(o) \in Nat /\ HasSaid(o) \in Nat
    BY <1>2, Numbers
  <1>8. /\ HasRead(p)' = HasRead(p) + 1 /\ Began(p)' = Began(p)
        /\ HasSaid(p)' = IF step = "ok" THEN HasSaid(p) ELSE HasSaid(p) + 1
    <2>1. HasRead(p)' = HasRead(p) + 1
      BY <1>4, <1>6, <1>7, SMTT(30) DEF HasRead
    <2>2. HasSaid(p)' = IF step = "ok" THEN HasSaid(p) ELSE HasSaid(p) + 1
      BY <1>4, <1>6, <1>7, SMTT(30) DEF HasSaid
    <2>3. Began(p) = Now(p)
      BY <1>3, <1>4 DEF Began, Going
    <2> QED BY <1>6, <2>1, <2>2, <2>3
  <1>9. PICK head \in RollOverMsgs : /\ head = Head(u) /\ Rank(head) = HasRead(p)
                                     /\ OnWay(p, head)
    BY <1>1, <1>4, FirstIsNext
  <1>10. HasRead(p) < HasSaid(o)
    BY <1>1, <1>9 DEF Stream
  <1>11. Stream(p)'
    <2>1. /\ \A m : In(Tail(u), v, m) => In(u, v, m) /\ Along(u, v, Head(u), m)
          /\ \A m : In(u, v, m) => m = Head(u) \/ In(Tail(u), v, m)
          /\ \A a, b : Along(Tail(u), v, a, b) => Along(u, v, a, b)
          /\ \A m : In(<<>>, v, m) => In(u, v, m) /\ Along(u, v, Head(u), m)
          /\ \A a, b : Along(<<>>, v, a, b) => Along(u, v, a, b)
      BY <1>4, IsRead
    <2>2. /\ \A m : OnWay(p, m)' <=> In(Inbox(p)', v, m)
          /\ \A a, b : InOrder(p, a, b)' <=> Along(Inbox(p)', v, a, b)
      BY WayNext
    <2>3. /\ \A m : OnWay(p, m) <=> In(u, v, m)
          /\ \A a, b : InOrder(p, a, b) <=> Along(u, v, a, b)
      BY DEF OnWay, InOrder
    <2>4. Inbox(p)' = IF step # "ok" THEN Tail(u) ELSE <<>>
      BY <1>4, <1>6
    <2> HIDE DEF u, v
    <2>5. /\ \A m : OnWay(p, m)' => OnWay(p, m) /\ InOrder(p, head, m)
          /\ \A a, b : InOrder(p, a, b)' => InOrder(p, a, b)
          /\ step # "ok" => \A m : OnWay(p, m) => m = head \/ OnWay(p, m)'
      BY <1>9, <2>1, <2>2, <2>3, <2>4
    <2>6. HasSaid(Other(p))' = HasSaid(Other(p)) /\ Stream(p)
      BY <1>1, <1>2, <1>6
    <2>7. Awaits(p)' => /\ Awaits(p)
                        /\ \A m \in RollOverMsgs : OnWay(p, m) => m = head \/ OnWay(p, m)'
      BY <1>4, <1>6, <2>5
    <2> QED BY <1>8, <1>9, <2>5, <2>6, <2>7, StreamRead
  <1>12. /\ HasRead(o)' = HasRead(o) /\ Awaits(o)' = Awaits(o) /\ Inbox(o)' = Inbox(o)
         /\ HasRead(o) <= HasSaid(Other(o)) /\ HasSaid(Other(o)) = HasSaid(p)
         /\ HasSaid(Other(o))' = HasSaid(p)' /\ Stream(o)
    BY <1>1, <1>2, <1>6 DEF Counts
  <1>13. Stream(o)' /\ Plain(Incoming(o, 1), Incoming(o, 1)')
    <2>1. CASE step = "ok"
      <3>1. Incoming(o, 1)' = Incoming(o, 1)
        BY <2>1
      <3>2. /\ \A m : OnWay(o, m)' <=> In(Inbox(o), Incoming(o, 1), m)
            /\ \A a, b : InOrder(o, a, b)' <=> Along(Inbox(o), Incoming(o, 1), a, b)
        BY <1>2, <1>12, <3>1, WayNext
      <3>3. /\ \A m : OnWay(o, m)' <=> OnWay(o, m)
            /\ \A a, b : InOrder(o, a, b)' <=> InOrder(o, a, b)
        BY <3>2 DEF OnWay, InOrder
      <3>4. HasSaid(Other(o))' = HasSaid(Other(o))
        BY <1>8, <1>12, <2>1
      <3> QED BY <1>2, <1>12, <3>1, <3>3, <3>4, StreamKept DEF Plain
    <2>2. CASE step # "ok"
      <3>1. PICK said \in RollOverMsgs :
              /\ Rank(said) = HasSaid(p)
              /\ said.kind = "msg1" => said.dlc["maker"] = said.dlc["taker"]
              /\ Incoming(o, 1)' = Append(Incoming(o, 1), said)
        BY <2>2
      <3>2. said \in AnyMsg
        BY Messages
      <3>3. /\ \A a : In(Inbox(o), Append(Incoming(o, 1), said), a) <=>
                        In(Inbox(o), Incoming(o, 1), a) \/ a = said
            /\ \A a, b : Along(Inbox(o), Append(Incoming(o, 1), said), a, b) =>
                 \/ Along(Inbox(o), Incoming(o, 1), a, b)
                 \/ In(Inbox(o), Incoming(o, 1), a) /\ b = said
        <4> DEFINE u1 == Inbox(o)
                   v1 == Incoming(o, 1)
        <4>1. v1 \in Seq(AnyMsg)
          BY <1>2
        <4> HIDE DEF u1, v1
        <4>2. /\ \A a : In(u1, Append(v1, said), a) <=> In(u1, v1, a) \/ a = said
              /\ \A a, b : Along(u1, Append(v1, said), a, b) =>
                   Along(u1, v1, a, b) \/ (In(u1, v1, a) /\ b = said)
          BY <4>1, IsSaid
        <4> QED BY <4>2 DEF u1, v1
      <3>4. /\ \A m : OnWay(o, m)' <=> In(Inbox(o), Append(Incoming(o, 1), said), m)
            /\ \A a, b : InOrder(o, a, b)' <=> Along(Inbox(o), Append(Incoming(o, 1), said), a, b)
        BY <1>2, <1>12, <3>1, WayNext
      <3>5. /\ \A m : OnWay(o, m) <=> In(Inbox(o), Incoming(o, 1), m)
            /\ \A a, b : InOrder(o, a, b) <=> Along(Inbox(o), Incoming(o, 1), a, b)
        BY DEF OnWay, InOrder
      <3>6. /\ \A m : OnWay(o, m)' <=> OnWay(o, m) \/ m = said
            /\ \A a, b : InOrder(o, a, b)' => InOrder(o, a, b) \/ (OnWay(o, a) /\ b = said)
        BY <3>3, <3>4, <3>5
      <3>7. HasSaid(Other(o))' = HasSaid(Other(o)) + 1 /\ Rank(said) = HasSaid(Other(o))
        BY <1>8, <1>12, <2>2, <3>1
      <3>8. Plain(Incoming(o, 1), Incoming(o, 1)')
        BY <3>1 DEF Plain
      <3> HIDE DEF o
      <3> QED BY <1>2, <1>12, <3>1, <3>6, <3>7, <3>8, StreamSaid
    <2> QED BY <2>1, <2>2
  <1>14. Plain(toMaker[1], toMaker'[1]) /\ Plain(toTaker, toTaker')
    <2>1. \A q \in Parties : Plain(Incoming(q, 1), Incoming(q, 1)')
      BY <1>2, <1>13 DEF Plain
    <2> QED BY <2>1, QueueTypes, NextQueues DEF Parties
  <1>15. \A q \in Parties : Began(q)' = Began(q)
    BY <1>6, <1>8
  <1>16. Tokens'
    BY <1>1, <1>14, <1>15, TokensKept
  <1>17. Counts'
    <2>1. \A q \in Parties : \A x \in revealed'[q] : x \in Nat
      BY BoundsAssumption DEF TypeOK, Keys
    <2>2. /\ HasRead(p)' <= HasSaid(Other(p))' /\ HasRead(o)' <= HasSaid(Other(o))'
      BY <1>2, <1>6, <1>7, <1>8, <1>10, <1>12
    <2>3. \A q \in Parties : HasRead(q)' <= HasSaid(Other(q))'
      BY <1>2, <2>2
    <2>4. Began("taker")' <= Began("maker")'
      BY <1>1, <1>15 DEF Counts, Parties
    <2>5. \A x \in revealed'[p] : 3 * x + 5 < HasSaid(p)'
      <3>1. \A x \in revealed[p] : 3 * x + 5 < HasSaid(p)
        BY <1>1 DEF Counts
      <3> QED BY <1>7, <1>8, <2>1, <3>1
    <2>6. \A x \in revealed'[o] : 3 * x + 5 < HasSaid(o)'
      BY <1>1, <1>2, <1>6 DEF Counts
    <2>7. \A q \in Parties : \A x \in revealed'[q] : 3 * x + 5 < HasSaid(q)'
      BY <1>2, <2>5, <2>6
    <2> QED BY <2>3, <2>4, <2>7 DEF Counts
  <1>18. Numbered' /\ OneLink'
    BY <1>1, NumberedKept DEF OneLink
  <1>19. \A q \in Parties : Stream(q)'
    BY <1>2, <1>11, <1>13
  <1> QED BY <1>6, <1>16, <1>17, <1>18, <1>19 DEF InStep

(* What a running attempt replaces.                                        *)
LEMMA Replaces ==
    ASSUME TypeOK, Counted, Numbered, Placed, NEW p \in Parties, NEW k \in Attempts,
           tasks[p][k].step \in Going
    PROVE  \A q \in Parties : Revokes(p, k, q) = k - 1
  <1>1. k = Now(p) /\ tasks[p][k].from = dlcs[p]
    BY Running
  <1>2. Now(p) \in Nat /\ Now(p) >= 1
    BY Numbers DEF Counted, Now
  <1>3. Last(tasks[p][k].from) = dlcs[p][Now(p)]
    BY <1>1 DEF Last, Now
  <1>4. dlcs[p][Now(p)] = Pair(Now(p) - 1)
    BY <1>2 DEF Numbered
  <1>5. \A q \in Parties : Pair(Now(p) - 1)[q] = Now(p) - 1
    BY DEF Pair
  <1> QED BY <1>1, <1>3, <1>4, <1>5 DEF Revokes

(* The first message of an inbox is of the attempt that reads it.          *)
LEMMA Fits ==
    ASSUME TypeOK, Counted, InStep, NEW p \in Parties, NEW k \in Attempts,
           Waiting(p, k), tasks[p][k].inbox # <<>>
    PROVE  LET h == Head(tasks[p][k].inbox) IN
             /\ h \in RollOverMsgs /\ h.kind = tasks[p][k].step
             /\ h.kind = "msg0" => h.key = k
             /\ h.kind = "msg1" => h.dlc = Built(p, k)
             /\ h.kind = "msg2" => h.key = Revokes(p, k, Other(p))
  <1> DEFINE h == Head(tasks[p][k].inbox)
  <1>1. Numbered /\ Placed /\ Stream(p)
    BY DEF InStep
  <1>2. tasks[p][k].step \in {"msg0", "msg1", "msg2"} /\ tasks[p][k].step \in Going
    BY DEF Waiting, Going
  <1>3. /\ k = Now(p) /\ Step(p) = tasks[p][k].step /\ Awaits(p)
        /\ Inbox(p) = tasks[p][k].inbox /\ Inbox(p) \in Seq(RollOverMsgs)
        /\ tasks[p][k].step \in {"msg1", "msg2", "ok"} => tasks[p][k].other = k
    BY <1>1, <1>2, Running
  <1>4. /\ h \in RollOverMsgs /\ Rank(h) = HasRead(p)
        /\ h.kind = "msg1" => h.dlc["maker"] = h.dlc["taker"]
    BY <1>1, <1>3, FirstIsNext
  <1> HIDE DEF h
  <1>5. k \in Nat /\ Other(p) \in Parties
    BY TypesOf
  <1>6. /\ h.kind \in {"msg0", "msg1", "msg2"}
        /\ h.kind = "msg0" => h.key \in Nat /\ Rank(h) = 3 * h.key
        /\ h.kind = "msg1" => h.dlc["maker"] \in Nat /\ Rank(h) = 3 * h.dlc["maker"] + 1
        /\ h.kind = "msg2" => h.key \in Nat /\ Rank(h) = 3 * h.key + 5
    BY <1>4, Ranks, Messages
  <1>7. HasRead(p) = IF tasks[p][k].step = "msg0" THEN 3 * k
                     ELSE IF tasks[p][k].step = "msg1" THEN 3 * k + 1 ELSE 3 * k + 2
    BY <1>2, <1>3, <1>5 DEF HasRead
  <1>8. /\ h.kind = tasks[p][k].step
        /\ h.kind = "msg0" => h.key = k
        /\ h.kind = "msg1" => h.dlc["maker"] = k
        /\ h.kind = "msg2" => h.key = k - 1
    BY <1>2, <1>4, <1>5, <1>6, <1>7, SMTT(30)
  <1>9. ASSUME h.kind = "msg1"
        PROVE  h.dlc = Built(p, k)
    <2>1. h.dlc \in Dlcs /\ h.dlc["maker"] = k /\ h.dlc["taker"] = k
      BY <1>4, <1>8, <1>9, Messages
    <2>2. Built(p, k) = [q \in Parties |-> k]
      BY <1>3, <1>8, <1>9 DEF Built, DlcOf
    <2>3. h.dlc = [q \in Parties |-> k]
      BY <2>1 DEF Dlcs, Parties
    <2> QED BY <2>2, <2>3
  <1>10. Revokes(p, k, Other(p)) = k - 1
    BY <1>1, <1>2, <1>5, Replaces
  <1> QED BY <1>4, <1>8, <1>9, <1>10 DEF h

LEMMA SendsTo ==
    ASSUME TypeOK, OneLink, NEW p \in Parties, NEW m \in RollOverMsgs, Send(p, 1, <<m>>)
    PROVE  /\ Incoming(Other(p), 1)' = Append(Incoming(Other(p), 1), m)
           /\ Incoming(p, 1)' = Incoming(p, 1)
           /\ \A s \in Sessions : s # 1 => toMaker'[s] = toMaker[s]
  <1>1. sess = 1 /\ linked
    BY DEF OneLink
  <1>2. /\ 1 \in Sessions /\ toMaker[1] \in Seq(AnyMsg) /\ toTaker \in Seq(AnyMsg) /\ m \in AnyMsg
        /\ toMaker \in [Sessions -> Seq(ToMaker)]
    BY QueueTypes, Messages DEF TypeOK
  <1>3. toMaker[1] \o <<m>> = Append(toMaker[1], m) /\ toTaker \o <<m>> = Append(toTaker, m)
    BY <1>2
  <1>4. CASE p = "maker"
    <2>1. toTaker' = Append(toTaker, m) /\ toMaker' = toMaker
      BY <1>1, <1>3, <1>4 DEF Send, Carried
    <2>2. Other(p) = "taker"
      BY <1>4 DEF Other
    <2> QED BY <1>4, <2>1, <2>2 DEF Incoming
  <1>5. CASE p = "taker"
    <2>1. toMaker' = [toMaker EXCEPT ![1] = Append(toMaker[1], m)] /\ toTaker' = toTaker
      BY <1>1, <1>3, <1>5 DEF Send, Carried
    <2>2. /\ toMaker'[1] = Append(toMaker[1], m)
          /\ \A s \in Sessions : s # 1 => toMaker'[s] = toMaker[s]
      BY <1>2, <2>1
    <2>3. Other(p) = "maker"
      BY <1>5 DEF Other
    <2> QED BY <1>5, <2>1, <2>2, <2>3 DEF Incoming
  <1> QED BY <1>4, <1>5 DEF Parties

LEMMA ReceiveMsg0InStep ==
    ASSUME TypeOK, TypeOK', Counted, InStep, NEW p \in Parties, NEW k \in Attempts,
           ReceiveMsg0(p, k)
    PROVE  InStep'
  <1> DEFINE q == tasks[p][k].inbox
             d == DlcOf(p, k, k)
  <1>1. /\ tasks[p][k].step = "msg0" /\ q # <<>> /\ Head(q).kind = "msg0"
        /\ tasks' = At(p, k, "msg1", Head(q).key, Tail(q))
        /\ Send(p, tasks[p][k].sess, <<Msg1(DlcOf(p, k, Head(q).key))>>)
        /\ UNCHANGED <<dlcs, rolling, proposed, offered, sess, linked>>
        /\ revealed' = revealed
    BY DEF ReceiveMsg0, Reads, taskUnchanged, dbVars, actorVars
  <1>2. Waiting(p, k) /\ tasks[p][k].step \in Going /\ Placed /\ OneLink
    BY <1>1 DEF Waiting, Going, InStep
  <1>3. Head(q).key = k
    BY <1>1, <1>2, Fits
  <1>4. /\ k = Now(p) /\ Step(p) = "msg0" /\ tasks[p][k].sess = 1 /\ q \in Seq(RollOverMsgs)
    BY <1>1, <1>2, Running
  <1>5. k \in Keys /\ k \in Nat /\ "msg1" \in Steps /\ "msg1" \in Going
    BY TypesOf DEF Steps, Going
  <1>6. PICK rest \in Seq(RollOverMsgs), other \in Keys : rest = Tail(q) /\ other = k
    BY <1>1, <1>4, <1>5, HasTail
  <1>7. tasks' = At(p, k, "msg1", other, rest)
    BY <1>1, <1>3, <1>6
  <1>8. /\ Moves(p, k, "msg1", other) /\ tasks'[p][k].inbox = rest
        /\ \A r \in Parties, i \in Attempts : r # p \/ i # k => tasks'[r][i] = tasks[r][i]
    BY <1>5, <1>7, AtMoves
  <1>9. /\ d \in Dlcs /\ d["maker"] = k /\ d["taker"] = k
    BY <1>5 DEF DlcOf, Dlcs, Parties
  <1>10. PICK said \in RollOverMsgs : said = Msg1(d)
    BY <1>9, Messages
  <1>11. said.kind = "msg1" /\ said.dlc = d
    BY <1>10 DEF Msg1
  <1>12. HasSaid(p) = 3 * k + 1
    BY <1>4 DEF HasSaid
  <1>13. Rank(said) = HasSaid(p) /\ said.dlc["maker"] = said.dlc["taker"]
    BY <1>9, <1>11, <1>12 DEF Rank
  <1>14. Send(p, 1, <<said>>)
    BY <1>1, <1>3, <1>4, <1>10
  <1>15. /\ Incoming(Other(p), 1)' = Append(Incoming(Other(p), 1), said)
         /\ Incoming(p, 1)' = Incoming(p, 1)
         /\ \A s \in Sessions : s # 1 => toMaker'[s] = toMaker[s]
    BY <1>2, <1>14, SendsTo
  <1>16. PICK step \in Going : step = "msg1"
    BY <1>5
  <1>17. Moves(p, k, step, other) /\ step # "ok"
    BY <1>8, <1>16
  <1>18. IF step = "ok" THEN Incoming(Other(p), 1)' = Incoming(Other(p), 1)
         ELSE \E m \in RollOverMsgs :
                /\ Rank(m) = HasSaid(p)
                /\ m.kind = "msg1" => m.dlc["maker"] = m.dlc["taker"]
                /\ Incoming(Other(p), 1)' = Append(Incoming(Other(p), 1), m)
    BY <1>13, <1>15, <1>17
  <1>19. tasks'[p][k].inbox = Tail(q) /\ other = k
    BY <1>6, <1>8
  <1>20. /\ tasks[p][k].step = "msg0" /\ step = "msg1"
    BY <1>1, <1>16
  <1>21. /\ \A r \in Parties : r # p => revealed'[r] = revealed[r]
         /\ \A x \in revealed'[p] : x \in revealed[p]
    BY <1>1
  <1> QED BY <1>1, <1>2, <1>8, <1>15, <1>17, <1>18, <1>19, <1>20, <1>21, ReadInStep

LEMMA ReceiveMsg1InStep ==
    ASSUME TypeOK, TypeOK', Counted, InStep, NEW p \in Parties, NEW k \in Attempts,
           ReceiveMsg1(p, k)
    PROVE  InStep'
  <1> DEFINE q == tasks[p][k].inbox
             x == Revokes(p, k, p)
  <1>1. /\ tasks[p][k].step = "msg1" /\ q # <<>>
        /\ tasks' = At(p, k, "msg2", tasks[p][k].other, Tail(q))
        /\ revealed' = [revealed EXCEPT ![p] = revealed[p] \cup {x}]
        /\ Send(p, tasks[p][k].sess, <<Msg2(x)>>)
        /\ UNCHANGED <<dlcs, rolling, proposed, offered, sess, linked>>
    BY DEF ReceiveMsg1, Reads, Goes, Revokes, taskUnchanged, dbVars, actorVars
  <1>2. /\ Waiting(p, k) /\ tasks[p][k].step \in Going
        /\ Placed /\ OneLink /\ Numbered
    BY <1>1 DEF Waiting, Going, InStep
  <1>3. x = k - 1 /\ x \in Keys
    BY <1>2, Replaces, RevokesType
  <1>4. /\ k = Now(p) /\ Step(p) = "msg1" /\ tasks[p][k].sess = 1 /\ q \in Seq(RollOverMsgs)
        /\ tasks[p][k].other = k
    BY <1>1, <1>2, Running
  <1> HIDE DEF x
  <1>5. k \in Keys /\ k \in Nat /\ "msg2" \in Steps /\ "msg2" \in Going
    BY TypesOf DEF Steps, Going
  <1>6. PICK rest \in Seq(RollOverMsgs), other \in Keys : rest = Tail(q) /\ other = k
    BY <1>1, <1>4, <1>5, HasTail
  <1>7. tasks' = At(p, k, "msg2", other, rest)
    BY <1>1, <1>4, <1>6
  <1>8. /\ Moves(p, k, "msg2", other) /\ tasks'[p][k].inbox = rest
        /\ \A r \in Parties, i \in Attempts : r # p \/ i # k => tasks'[r][i] = tasks[r][i]
    BY <1>5, <1>7, AtMoves
  <1>10. PICK said \in RollOverMsgs : said = Msg2(x)
    BY <1>3, Messages
  <1>11. said.kind = "msg2" /\ said.key = x
    BY <1>10 DEF Msg2
  <1>12. HasSaid(p) = 3 * k + 2
    BY <1>4 DEF HasSaid
  <1>13. Rank(said) = HasSaid(p) /\ said.kind # "msg1"
    BY <1>3, <1>5, <1>11, <1>12 DEF Rank
  <1>14. Send(p, 1, <<said>>)
    BY <1>1, <1>4, <1>10
  <1>15. /\ Incoming(Other(p), 1)' = Append(Incoming(Other(p), 1), said)
         /\ Incoming(p, 1)' = Incoming(p, 1)
         /\ \A s \in Sessions : s # 1 => toMaker'[s] = toMaker[s]
    BY <1>2, <1>14, SendsTo
  <1>16. PICK step \in Going : step = "msg2"
    BY <1>5
  <1>17. Moves(p, k, step, other) /\ step # "ok"
    BY <1>8, <1>16
  <1>18. IF step = "ok" THEN Incoming(Other(p), 1)' = Incoming(Other(p), 1)
         ELSE \E m \in RollOverMsgs :
                /\ Rank(m) = HasSaid(p)
                /\ m.kind = "msg1" => m.dlc["maker"] = m.dlc["taker"]
                /\ Incoming(Other(p), 1)' = Append(Incoming(Other(p), 1), m)
    BY <1>13, <1>15, <1>17
  <1>19. tasks'[p][k].inbox = Tail(q) /\ other = k
    BY <1>6, <1>8
  <1>20. /\ tasks[p][k].step = "msg1" /\ step = "msg2"
    BY <1>1, <1>16
  <1>21. /\ \A r \in Parties : r # p => revealed'[r] = revealed[r]
         /\ \A y \in revealed'[p] : y \in revealed[p] \/ y = x
    BY <1>1 DEF TypeOK
  <1>22. \A y \in revealed'[p] : y \in revealed[p] \/ (step = "msg2" /\ 3 * y + 5 < HasSaid(p) + 1)
    BY <1>3, <1>5, <1>12, <1>20, <1>21
  <1> QED BY <1>1, <1>2, <1>8, <1>15, <1>17, <1>18, <1>19, <1>20, <1>21, <1>22, ReadInStep

LEMMA ReceiveMsg2InStep ==
    ASSUME TypeOK, TypeOK', Counted, InStep, NEW p \in Parties, NEW k \in Attempts,
           ReceiveMsg2(p, k)
    PROVE  InStep'
  <1> DEFINE q == tasks[p][k].inbox
  <1>1. /\ tasks[p][k].step = "msg2" /\ q # <<>>
        /\ tasks' = At(p, k, "ok", tasks[p][k].other, Tail(q))
        /\ UNCHANGED <<dlcs, rolling, proposed, offered, sess, linked, toMaker, toTaker>>
        /\ revealed' = revealed
    BY DEF ReceiveMsg2, Reads, Goes, taskUnchanged, dbVars, actorVars
  <1>2. Waiting(p, k) /\ tasks[p][k].step \in Going /\ Placed
    BY <1>1 DEF Waiting, Going, InStep
  <1>4. q \in Seq(RollOverMsgs) /\ tasks[p][k].other = k
    BY <1>1, <1>2, Running
  <1>5. k \in Keys /\ "ok" \in Steps /\ "ok" \in Going
    BY TypesOf DEF Steps, Going
  <1>6. PICK rest \in Seq(RollOverMsgs), other \in Keys : rest = Tail(q) /\ other = k
    BY <1>1, <1>4, <1>5, HasTail
  <1>7. tasks' = At(p, k, "ok", other, rest)
    BY <1>1, <1>4, <1>6
  <1>8. /\ Moves(p, k, "ok", other) /\ tasks'[p][k].inbox = rest
        /\ \A r \in Parties, i \in Attempts : r # p \/ i # k => tasks'[r][i] = tasks[r][i]
    BY <1>5, <1>7, AtMoves
  <1>15. /\ Incoming(Other(p), 1)' = Incoming(Other(p), 1)
         /\ Incoming(p, 1)' = Incoming(p, 1)
         /\ \A s \in Sessions : s # 1 => toMaker'[s] = toMaker[s]
    BY <1>1 DEF Incoming
  <1>16. PICK step \in Going : step = "ok"
    BY <1>5
  <1>17. Moves(p, k, step, other)
    BY <1>8, <1>16
  <1>18. IF step = "ok" THEN Incoming(Other(p), 1)' = Incoming(Other(p), 1)
         ELSE \E m \in RollOverMsgs :
                /\ Rank(m) = HasSaid(p)
                /\ m.kind = "msg1" => m.dlc["maker"] = m.dlc["taker"]
                /\ Incoming(Other(p), 1)' = Append(Incoming(Other(p), 1), m)
    BY <1>15, <1>16
  <1>19. tasks'[p][k].inbox = Tail(q) /\ other = k
    BY <1>6, <1>8
  <1>20. /\ tasks[p][k].step = "msg2" /\ step = "ok"
    BY <1>1, <1>16
  <1>21. /\ \A r \in Parties : r # p => revealed'[r] = revealed[r]
         /\ \A x \in revealed'[p] : x \in revealed[p]
    BY <1>1
  <1> QED BY <1>1, <1>2, <1>8, <1>15, <1>17, <1>18, <1>19, <1>20, <1>21, ReadInStep

(* Nothing wrong is read, and no attempt loses its sender.                 *)
LEMMA NoneFails ==
    ASSUME TypeOK, Counted, InStep, NEW p \in Parties, NEW k \in Attempts
    PROVE  ~ReceiveWrong(p, k) /\ ~LosesSender(p, k)
  <1>1. ASSUME Waiting(p, k)
        PROVE  rolling[p] = k
    <2>1. tasks[p][k].step \in Going /\ Placed
      BY <1>1 DEF Waiting, Going, InStep
    <2> QED BY <2>1, Running
  <1>2. ~LosesSender(p, k)
    BY <1>1 DEF LosesSender
  <1>3. ~ReceiveWrong(p, k)
    BY Fits DEF ReceiveWrong, Revokes
  <1> QED BY <1>2, <1>3

-----------------------------------------------------------------------------
(* Roll-overs that are completed, and the rest.                            *)

LEMMA CompletedInStep ==
    ASSUME TypeOK, TypeOK', Counted, InStep, NEW p \in Parties, NEW k \in Attempts,
           RollOverCompleted(p, k)
    PROVE  InStep'
  <1> DEFINE o == Other(p)
  <1>1. /\ tasks[p][k].step = "ok"
        /\ tasks' = At(p, k, "done", tasks[p][k].other, tasks[p][k].inbox)
        /\ rolling' = [rolling EXCEPT ![p] = None]
        /\ dlcs' = [dlcs EXCEPT ![p] = Append(tasks[p][k].from, Built(p, k))]
        /\ UNCHANGED <<proposed, offered, sess, linked, toMaker, toTaker, revealed>>
    BY DEF RollOverCompleted, Ends, wireVars, histVars
  <1>2. /\ Numbered /\ Placed /\ OneLink /\ Counts /\ Tokens /\ \A q \in Parties : Stream(q)
        /\ tasks[p][k].step \in Going
    BY <1>1 DEF InStep, Going
  <1>3. /\ k = Now(p) /\ Step(p) = "ok" /\ tasks[p][k].from = dlcs[p] /\ tasks[p][k].other = k
        /\ ~Awaits(p) /\ Inbox(p) = <<>>
    <2>1. /\ k = Now(p) /\ Step(p) = "ok" /\ tasks[p][k].from = dlcs[p]
          /\ tasks[p][k].other = k /\ ~Awaits(p)
      BY <1>1, <1>2, Running
    <2> QED BY <2>1 DEF Inbox
  <1>4. k \in Keys /\ k \in Nat /\ "done" \in Steps
    BY TypesOf DEF Steps
  <1>5. PICK inbox \in Seq(RollOverMsgs), other \in Keys :
          inbox = tasks[p][k].inbox /\ other = tasks[p][k].other
    BY TypesOf
  <1>6. tasks' = At(p, k, "done", other, inbox)
    BY <1>1, <1>5
  <1>7. /\ Moves(p, k, "done", other)
        /\ \A q \in Parties, i \in Attempts : q # p \/ i # k => tasks'[q][i] = tasks[q][i]
    BY <1>4, <1>6, AtMoves
  <1>8. Built(p, k) = Pair(k)
    BY <1>3 DEF Built, DlcOf, Pair
  <1>9. /\ dlcs'[p] = Append(dlcs[p], Pair(k)) /\ \A q \in Parties : q # p => dlcs'[q] = dlcs[q]
        /\ rolling'[p] = None /\ \A q \in Parties : q # p => rolling'[q] = rolling[q]
    BY <1>1, <1>3, <1>8 DEF TypeOK
  <1>10. /\ dlcs[p] \in Seq(Dlcs) /\ Len(dlcs[p]) = k
         /\ Now(p)' = k + 1 /\ dlcs'[p][k + 1] = Pair(k)
         /\ \A i \in 1..k : dlcs'[p][i] = dlcs[p][i]
    <2>1. dlcs[p] \in Seq(Dlcs) /\ Len(dlcs[p]) = k
      BY <1>3, TypesOf DEF Now
    <2> DEFINE d == Pair(k)
    <2> HIDE DEF d
    <2>2. /\ Len(Append(dlcs[p], d)) = k + 1 /\ Append(dlcs[p], d)[k + 1] = d
          /\ \A i \in 1..k : Append(dlcs[p], d)[i] = dlcs[p][i]
      BY <1>4, <2>1
    <2> QED BY <1>9, <2>1, <2>2 DEF Now, d
  <1>11. Step(p)' = "none"
    <2>1. CASE k + 1 \in Attempts
      <3>1. tasks[p][k + 1].step = "none"
        BY <1>2, <1>3, <1>4, <2>1 DEF Placed
      <3>2. tasks'[p][k + 1] = tasks[p][k + 1]
        BY <1>4, <1>7, <2>1
      <3> QED BY <1>10, <3>1, <3>2 DEF Step
    <2>2. CASE k + 1 \notin Attempts
      BY <1>10, <2>2 DEF Step
    <2> QED BY <2>1, <2>2
  <1>12. /\ ~Awaits(p)' /\ Inbox(p)' = <<>>
         /\ HasRead(p)' = HasRead(p) /\ HasSaid(p)' = HasSaid(p) /\ Began(p)' = Began(p)
    <2>1. ~Awaits(p)'
      BY <1>11 DEF Awaits
    <2>2. HasRead(p)' = HasRead(p) /\ HasSaid(p)' = HasSaid(p) /\ Began(p)' = Began(p)
      BY <1>3, <1>4, <1>10, <1>11 DEF HasRead, HasSaid, Began
    <2> QED BY <2>1, <2>2 DEF Inbox
  <1>13. \A q \in Parties : q # p =>
           /\ Now(q)' = Now(q) /\ Awaits(q)' = Awaits(q)
           /\ Inbox(q)' = Inbox(q) /\ HasRead(q)' = HasRead(q)
           /\ HasSaid(q)' = HasSaid(q) /\ Began(q)' = Began(q)
    BY <1>7, <1>9, Frozen
  <1>14. \A q \in Parties :
           /\ Awaits(q)' = Awaits(q) /\ Inbox(q)' = Inbox(q) /\ HasRead(q)' = HasRead(q)
           /\ HasSaid(q)' = HasSaid(q) /\ Began(q)' = Began(q)
    <2>1. Awaits(p) = FALSE /\ Awaits(p)' = FALSE
      BY <1>3, <1>12 DEF Awaits
    <2> QED BY <1>3, <1>12, <1>13, <2>1
  <1>15. Numbered'
    <2>1. ASSUME NEW q \in Parties, NEW i \in 1..Now(q)'
          PROVE  dlcs'[q][i] = Pair(i - 1)
      <3>1. CASE q = p /\ i = k + 1
        BY <1>4, <1>10, <3>1
      <3>2. CASE q = p /\ i # k + 1
        <4>1. i \in 1..k
          BY <1>4, <1>10, <3>2
        <4> QED BY <1>2, <1>3, <1>10, <3>2, <4>1 DEF Numbered
      <3>3. CASE q # p
        BY <1>2, <1>9, <1>13, <3>3 DEF Numbered
      <3> QED BY <3>1, <3>2, <3>3
    <2> QED BY <2>1 DEF Numbered, Pair
  <1>16. Placed'
    <2>1. SUFFICES ASSUME NEW q \in Parties, NEW i \in Attempts
                   PROVE  /\ i < Now(q)' => tasks'[q][i].step = "done"
                          /\ i > Now(q)' => tasks'[q][i].step = "none"
                          /\ i = Now(q)' =>
                               /\ tasks'[q][i].step \in {"none", "msg0", "msg1", "msg2", "ok"}
                               /\ tasks'[q][i].step # "none" =>
                                    /\ rolling'[q] = i /\ tasks'[q][i].sess = 1
                                    /\ tasks'[q][i].from = dlcs'[q]
                               /\ tasks'[q][i].step \in {"msg1", "msg2", "ok"} =>
                                    tasks'[q][i].other = i
      BY DEF Placed
    <2>2. i \in Nat
      BY TypesOf
    <2>3. CASE q = p /\ i = k
      BY <1>4, <1>7, <1>10, <2>3 DEF Moves
    <2>4. CASE q = p /\ i # k
      <3>1. tasks'[q][i] = tasks[q][i]
        BY <1>7, <2>4
      <3>2. i < k => tasks[q][i].step = "done"
        BY <1>2, <1>3, <2>4 DEF Placed
      <3>3. i > k => tasks[q][i].step = "none"
        BY <1>2, <1>3, <2>4 DEF Placed
      <3> QED BY <1>4, <1>10, <2>2, <2>4, <3>1, <3>2, <3>3
    <2>5. CASE q # p
      <3>1. /\ tasks'[q][i] = tasks[q][i] /\ Now(q)' = Now(q) /\ dlcs'[q] = dlcs[q]
            /\ rolling'[q] = rolling[q]
        BY <1>7, <1>9, <1>13, <2>5
      <3> QED BY <1>2, <3>1 DEF Placed
    <2> QED BY <2>3, <2>4, <2>5
  <1>17. ASSUME NEW q \in Parties
         PROVE  Stream(q)'
    <2>1. Incoming(q, 1)' = Incoming(q, 1)
      BY <1>1 DEF Incoming
    <2>2. /\ \A m : OnWay(q, m)' <=> In(Inbox(q), Incoming(q, 1), m)
          /\ \A a, b : InOrder(q, a, b)' <=> Along(Inbox(q), Incoming(q, 1), a, b)
      BY <1>14, <2>1, WayNext
    <2>3. /\ \A m : OnWay(q, m)' <=> OnWay(q, m)
          /\ \A a, b : InOrder(q, a, b)' <=> InOrder(q, a, b)
      BY <2>2 DEF OnWay, InOrder
    <2>4. /\ Stream(q) /\ HasRead(q)' = HasRead(q) /\ Awaits(q)' = Awaits(q)
          /\ HasSaid(Other(q))' = HasSaid(Other(q))
      BY <1>2, <1>14, TypesOf
    <2> QED BY <2>3, <2>4, StreamKept
  <1>18. Tokens'
    <2>1. Plain(toMaker[1], toMaker'[1]) /\ Plain(toTaker, toTaker')
      BY <1>1 DEF Plain
    <2> QED BY <1>1, <1>2, <1>14, <2>1, TokensKept
  <1>19. Counts'
    <2>1. \A q \in Parties : HasRead(q)' = HasRead(q) /\ HasSaid(Other(q))' = HasSaid(Other(q))
      BY <1>14, TypesOf
    <2>2. Began("taker")' = Began("taker") /\ Began("maker")' = Began("maker")
      BY <1>14 DEF Parties
    <2>3. \A q \in Parties : revealed'[q] = revealed[q] /\ HasSaid(q)' = HasSaid(q)
      BY <1>1, <1>14
    <2> QED BY <1>2, <2>1, <2>2, <2>3 DEF Counts
  <1>20. OneLink'
    BY <1>1, <1>2 DEF OneLink
  <1> QED BY <1>15, <1>16, <1>17, <1>18, <1>19, <1>20 DEF InStep

LEMMA ElsewhereInStep ==
    ASSUME TypeOK, InStep, UNCHANGED <<dlcs, rolling, tasks, proposed, offered, sess, linked,
                                       toMaker, toTaker, revealed>>
    PROVE  InStep'
  <1>1. \A p \in Parties : Noted(Incoming(p, 1), Incoming(p, 1)')
    BY DEF Noted, Incoming
  <1>2. /\ offered' \in {None, 1}
        /\ TokensIn(toMaker'[1], toTaker', proposed', offered', Began("taker"), Began("maker"))
    BY DEF InStep, OneLink, Tokens
  <1> QED BY <1>1, <1>2, Courteous

-----------------------------------------------------------------------------
(* A calm state comes of a calm one.                                       *)
LEMMA CalmBefore ==
    ASSUME TypeOK, Counted, [Next]_vars, Calm'
    PROVE  /\ Calm
           /\ \A p \in Parties, k \in Attempts : ~TimesOut(p, k)
           /\ \A p \in Parties : ~RevokedFound(p)
           /\ ~MakerRestarts /\ ~TakerRestarts
  <1>1. /\ ~overlapped' /\ timeouts' = 0 /\ \A p \in Parties : restarts'[p] = 0 /\ alive'[p]
    BY DEF Calm
  <1>2. ASSUME NEW p \in Parties, Restarts(p)
        PROVE  FALSE
    <2>1. restarts'[p] = restarts[p] + 1 /\ restarts[p] \in Nat
      BY <1>2 DEF Restarts, TypeOK
    <2> QED BY <1>1, <2>1
  <1>3. ~MakerRestarts /\ ~TakerRestarts
    BY <1>2 DEF MakerRestarts, TakerRestarts, Parties
  <1>4. ASSUME NEW p \in Parties, NEW k \in Attempts, TimesOut(p, k)
        PROVE  FALSE
    <2>1. timeouts' = timeouts + 1 /\ timeouts \in Nat
      BY <1>4 DEF TimesOut, TypeOK
    <2> QED BY <1>1, <2>1
  <1>5. ASSUME NEW p \in Parties, RevokedFound(p)
        PROVE  FALSE
    <2>1. ~alive'[p]
      BY <1>5 DEF RevokedFound, TypeOK
    <2> QED BY <1>1, <2>1
  <1>6. UNCHANGED <<alive, restarts, timeouts>>
    <2>1. CASE UNCHANGED vars
      BY <2>1 DEF vars, actorVars, histVars
    <2>2. CASE ProposalStep
      BY <2>2 DEF ProposalStep, ProposeRollOver, AcceptRollOver, RejectRollOver,
                  HandleProposeRollOver, HandleRollOverAccepted, HandleRollOverRejected,
                  RefuseRollOver, actorVars, histVars
    <2>3. ASSUME NEW s \in Sessions, MakerHandlesProtocolMsg(s)
          PROVE  UNCHANGED <<alive, restarts, timeouts>>
      BY <2>3 DEF MakerHandlesProtocolMsg, actorVars, histVars
    <2>4. CASE TakerHandlesProtocolMsg
      BY <2>4 DEF TakerHandlesProtocolMsg, actorVars, histVars
    <2>5. ASSUME NEW p \in Parties, NEW k \in Attempts, AttemptStep(p, k)
          PROVE  UNCHANGED <<alive, restarts, timeouts>>
      BY <1>4, <2>5 DEF AttemptStep, ReceiveMsg0, ReceiveMsg1, ReceiveMsg2, ReceiveWrong,
                        LosesSender, RollOverCompleted, taskUnchanged, actorVars, histVars
    <2>6. ASSUME NEW p \in Parties, PartyStep(p)
          PROVE  UNCHANGED <<alive, restarts, timeouts>>
      BY <1>5, <2>6 DEF PartyStep, Commit, CommitSeen, actorVars, histVars
    <2> QED BY <1>3, <2>1, <2>2, <2>3, <2>4, <2>5, <2>6 DEF Next
  <1>7. overlapped => overlapped'
    BY StepShape, Grows
  <1> QED BY <1>1, <1>3, <1>4, <1>5, <1>6, <1>7 DEF Calm

LEMMA InitInStep == Init => InStep
  <1> SUFFICES ASSUME Init
               PROVE  InStep
    OBVIOUS
  <1>1. /\ TypeOK
        /\ \A p \in Parties : dlcs[p] = <<Signed>> /\ revealed[p] = {}
        /\ \A p \in Parties, k \in Attempts : tasks[p][k].step = "none"
        /\ offered = None /\ sess = 1 /\ linked
        /\ \A s \in Sessions : toMaker[s] = <<>>
        /\ toTaker = <<>> /\ toMaker[1] = <<>>
    <2>1. IInv
      BY InitHolds
    <2>2. 1 \in Sessions
      BY <2>1, QueueTypes DEF IInv
    <2> QED BY <2>1, <2>2 DEF Init, IInv, Task
  <1>2. Signed = Pair(0)
    BY DEF Signed, Pair
  <1>3. \A p \in Parties : Now(p) = 1
    <2>1. \A pair : Len(<<pair>>) = 1
      OBVIOUS
    <2>2. ASSUME NEW p \in Parties
          PROVE  Now(p) = 1
      <3>1. dlcs[p] = <<Signed>>
        BY <1>1
      <3>2. Len(<<Signed>>) = 1
        BY <2>1
      <3> QED BY <3>1, <3>2 DEF Now
    <2> QED BY <2>2
  <1>4. \A p \in Parties : Step(p) = "none" /\ ~Awaits(p) /\ Inbox(p) = <<>>
    BY <1>1 DEF Step, Awaits, Inbox
  <1>5. \A p \in Parties : HasRead(p) = 3 /\ HasSaid(p) = 3 /\ Began(p) = 0
    BY <1>3, <1>4 DEF HasRead, HasSaid, Began
  <1>6. Numbered
    <2>1. \A p \in Parties : \A i \in 1..Now(p) : i = 1 /\ dlcs[p][i] = Pair(0)
      <3> HIDE DEF Signed
      <3> QED BY <1>1, <1>2, <1>3
    <2> QED BY <2>1 DEF Numbered
  <1>7. Placed
    <2>1. \A k \in Attempts : k \in Nat /\ ~(k < 1)
      BY BoundsAssumption DEF Attempts
    <2> QED BY <1>1, <1>3, <2>1 DEF Placed
  <1>8. OneLink
    BY <1>1 DEF OneLink
  <1>9. ASSUME NEW p \in Parties
        PROVE  Stream(p)
    <2>1. Incoming(p, 1) = <<>> /\ Inbox(p) = <<>>
      BY <1>1, <1>4 DEF Incoming
    <2>2. \A a, b : ~OnWay(p, a) /\ ~InOrder(p, a, b)
      BY <2>1, EmptyHas DEF OnWay, InOrder, In, Along
    <2> QED BY <1>4, <2>2 DEF Stream
  <1>10. Counts
    <2>1. "maker" \in Parties /\ "taker" \in Parties /\ \A p \in Parties : Other(p) \in Parties
      BY DEF Parties, Other
    <2> QED BY <1>1, <1>5, <2>1 DEF Counts
  <1>11. Tokens
    <2>1. Began("maker") = 0 /\ Began("taker") = 0
      BY <1>5 DEF Parties
    <2> QED BY <1>1, <2>1, EmptyHas DEF Tokens, TokensIn
  <1> QED BY <1>6, <1>7, <1>8, <1>9, <1>10, <1>11 DEF InStep

LEMMA NextInStep ==
    ASSUME IInv, Calm => InStep, [Next]_vars
    PROVE  Calm' => InStep'
  <1> SUFFICES ASSUME Calm'
               PROVE  InStep'
    OBVIOUS
  <1>1. TypeOK /\ TypeOK' /\ Counted
    BY NextHolds DEF IInv
  <1>2. /\ Calm
        /\ \A p \in Parties, k \in Attempts : ~TimesOut(p, k)
        /\ \A p \in Parties : ~RevokedFound(p)
        /\ ~MakerRestarts /\ ~TakerRestarts
    BY <1>1, CalmBefore
  <1>3. InStep /\ ~overlapped'
    BY <1>2 DEF Calm
  <1>4. CASE UNCHANGED vars
    <2>1. UNCHANGED <<dlcs, rolling, tasks, proposed, offered, sess, linked, toMaker, toTaker,
                      revealed>>
      BY <1>4 DEF vars, dbVars, actorVars, wireVars, histVars
    <2> QED BY <1>1, <1>3, <2>1, ElsewhereInStep
  <1>5. CASE ProposalStep
    <2>1. CASE ProposeRollOver
      BY <1>1, <1>3, <2>1, ProposeInStep
    <2>2. CASE AcceptRollOver
      BY <1>1, <1>3, <2>2, AcceptInStep
    <2>3. CASE RejectRollOver
      BY <1>1, <1>3, <2>3, RejectInStep
    <2>4. CASE \E s \in Sessions : HandleProposeRollOver(s)
      BY <1>1, <1>3, <2>4, HandleProposeInStep
    <2>5. CASE HandleRollOverAccepted
      BY <1>1, <1>3, <2>5, AcceptedInStep
    <2>6. CASE HandleRollOverRejected
      BY <1>1, <1>3, <2>6, HandleRejectedInStep
    <2>7. CASE \E announced \in BOOLEAN : RefuseRollOver(announced)
      BY <1>1, <1>3, <2>7, RefuseInStep
    <2> QED BY <1>5, <2>1, <2>2, <2>3, <2>4, <2>5, <2>6, <2>7 DEF ProposalStep
  <1>6. CASE \E s \in Sessions : MakerHandlesProtocolMsg(s)
    BY <1>1, <1>3, <1>6, MakerHandlesInStep
  <1>7. CASE TakerHandlesProtocolMsg
    BY <1>1, <1>3, <1>7, TakerHandlesInStep
  <1>8. ASSUME NEW p \in Parties, NEW k \in Attempts, AttemptStep(p, k)
        PROVE  InStep'
    <2>1. CASE ReceiveMsg0(p, k)
      BY <1>1, <1>3, <2>1, ReceiveMsg0InStep
    <2>2. CASE ReceiveMsg1(p, k)
      BY <1>1, <1>3, <2>2, ReceiveMsg1InStep
    <2>3. CASE ReceiveMsg2(p, k)
      BY <1>1, <1>3, <2>3, ReceiveMsg2InStep
    <2>4. CASE ReceiveWrong(p, k) \/ LosesSender(p, k)
      BY <1>1, <1>3, <2>4, NoneFails
    <2>5. CASE RollOverCompleted(p, k)
      BY <1>1, <1>3, <2>5, CompletedInStep
    <2> QED BY <1>2, <1>8, <2>1, <2>2, <2>3, <2>4, <2>5 DEF AttemptStep
  <1>9. ASSUME NEW p \in Parties, PartyStep(p)
        PROVE  InStep'
    <2>1. UNCHANGED <<dlcs, rolling, tasks, proposed, offered, sess, linked, toMaker, toTaker,
                      revealed>>
      BY <1>2, <1>9 DEF PartyStep, Commit, CommitSeen, actorVars, wireVars, histVars
    <2> QED BY <1>1, <1>3, <2>1, ElsewhereInStep
  <1> QED BY <1>2, <1>4, <1>5, <1>6, <1>7, <1>8, <1>9 DEF Next

(* Roll-overs in a calm run: once all attempts of both have ended, maker   *)
(* and taker hold the same contract, however their messages and the        *)
(* proposals interleaved, and neither gave away the secret of it.          *)
THEOREM RollOversAgree == Spec => []RollOverAgreed
  <1>1. Init => IInv /\ (Calm => InStep)
    BY InitHolds, InitInStep
  <1>2. IInv /\ (Calm => InStep) /\ [Next]_vars => IInv' /\ (Calm => InStep)'
    BY NextHolds, NextInStep
  <1>3. IInv /\ (Calm => InStep) => RollOverAgreed
    <2> SUFFICES ASSUME IInv, Calm, InStep,
                        \A p \in Parties, k \in Attempts :
                          tasks[p][k].step \in {"none", "done", "failed"}
                 PROVE  /\ Dlc("maker") = Dlc("taker")
                        /\ \A p \in Parties : Dlc(p)[p] \notin revealed[p]
      BY DEF RollOverAgreed, Calm
    <2>1. TypeOK /\ Counted /\ Numbered /\ Placed /\ Counts
      BY DEF IInv, InStep
    <2>2. \A p \in Parties : Step(p) = "none"
      BY <2>1 DEF Step, Placed
    <2>3. \A p \in Parties : /\ Now(p) \in Nat /\ Now(p) >= 1
                             /\ HasRead(p) = 3 * Now(p) /\ HasSaid(p) = 3 * Now(p)
      <3>1. \A p \in Parties : Now(p) \in Nat
        BY <2>1, Numbers
      <3>2. \A p \in Parties : Now(p) >= 1
        BY <2>1 DEF Counted, Now
      <3> QED BY <2>2, <3>1, <3>2 DEF HasRead, HasSaid
    <2>4. "maker" \in Parties /\ "taker" \in Parties /\ Other("maker") = "taker" /\ Other("taker") = "maker"
      BY DEF Parties, Other
    <2>5. HasRead("maker") <= HasSaid("taker") /\ HasRead("taker") <= HasSaid("maker")
      BY <2>1, <2>4 DEF Counts
    <2>6. Now("maker") = Now("taker")
      BY <2>3, <2>4, <2>5
    <2>7. \A p \in Parties : Dlc(p) = Pair(Now(p) - 1)
      <3>1. \A p \in Parties : dlcs[p][Now(p)] = Pair(Now(p) - 1)
        BY <2>1, <2>3 DEF Numbered
      <3> QED BY <3>1 DEF Dlc, Last, Now
    <2>8. ASSUME NEW p \in Parties, Dlc(p)[p] \in revealed[p]
          PROVE  FALSE
      <3>1. Dlc(p)[p] = Now(p) - 1
        BY <2>7 DEF Pair
      <3>2. 3 * (Now(p) - 1) + 5 < HasSaid(p)
        BY <2>1, <2>8, <3>1 DEF Counts
      <3> QED BY <2>3, <3>2
    <2> QED BY <2>4, <2>6, <2>7, <2>8
  <1> QED BY <1>1, <1>2, <1>3, PTL DEF Spec

=============================================================================
