------------------------------ MODULE RollOver ------------------------------
(***************************************************************************)
(* Rolling one open CFD over: maker and taker replace the contract by a    *)
(* new one on the same lock output, exchange the keys that revoke the old  *)
(* one, and each stores the new one.                                       *)
(*                                                                         *)
(* A contract is the pair of key numbers its commit tx was made from, one  *)
(* of each party; whoever rolls over makes up a fresh key.  A signature    *)
(* verifies if both sides built the same pair, and a revocation secret is  *)
(* the number of the key it revokes.                                       *)
(*                                                                         *)
(* Each roll-over is a task of its own (`tasks') beside the cfd actor: it  *)
(* waits for Msg0, Msg1 and Msg2, at most 60 s each, and what it ends with *)
(* is a message to the cfd actor.  Messages carry neither the order nor    *)
(* the attempt they belong to.                                             *)
(***************************************************************************)

EXTENDS Naturals, SequencesExt

CONSTANTS
    None,
    MaxKeys,      \* bound: roll-overs each party takes part in
    MaxRestarts,  \* bound: restarts of each daemon
    MaxTimeouts   \* bound: waits that are given up

ASSUME BoundsAssumption ==
    /\ MaxKeys \in Nat \ {0} /\ MaxRestarts \in Nat /\ MaxTimeouts \in Nat

VARIABLES
    \* the two databases
    dlcs,      \* each party's Dlc: the contracts it replaced, then its own
    state,     \* Open, PendingCommit, or Committed for every later state
    \* the two cfd actors
    alive,     \* the actor runs
    proposed,  \* the taker has a pending proposal
    offered,   \* the session the maker's pending proposal came from, or None
    rolling,   \* roll_over_state: the attempt its sender belongs to, or None
    tasks,     \* each attempt of each party
    \* the two monitors
    watch,     \* contracts whose commit tx it awaits
    spy,       \* revoked contracts whose commit tx it awaits
    \* the wire
    sess,      \* number of the taker's connection
    linked,    \* the connection is up
    toMaker,   \* per connection: messages not handled yet
    toTaker,
    \* the chain
    onChain,   \* the contract whose commit tx spent the lock output, or None
    \* history
    revealed,  \* keys each party sent the revocation secret of
    overlapped, \* an attempt began while another of that party had not ended
    restarts, timeouts

dbVars    == <<dlcs, state>>
actorVars == <<alive, proposed, offered, rolling>>
wireVars  == <<sess, linked, toMaker, toTaker>>
monVars   == <<watch, spy>>
histVars  == <<revealed, overlapped, restarts, timeouts>>
vars == <<dbVars, actorVars, tasks, monVars, wireVars, onChain, histVars>>

Parties  == {"maker", "taker"}
Other(p) == IF p = "maker" THEN "taker" ELSE "maker"

Attempts == 1..MaxKeys
Keys     == 0..MaxKeys
Sessions == 1..(MaxRestarts + 1)
Dlcs     == [Parties -> Keys]

(* None is neither an attempt nor a contract.                              *)
ASSUME NoneAssumption == None \notin Attempts /\ None \notin Dlcs

(* The contract of p's key k and the other party's key.                    *)
DlcOf(p, k, other) == [q \in Parties |-> IF q = p THEN k ELSE other]

Signed == [q \in Parties |-> 0]      \* what the set-up left behind
Dlc(p) == Last(dlcs[p])

Notice(kind) == [kind |-> kind]
Msg0(key)    == [kind |-> "msg0", key |-> key]
Msg1(dlc)    == [kind |-> "msg1", dlc |-> dlc]
Msg2(key)    == [kind |-> "msg2", key |-> key]

RollOverMsgs ==
    [kind : {"msg0", "msg2"}, key : Keys] \cup [kind : {"msg1"}, dlc : Dlcs]
ToMaker == [kind : {"propose"}] \cup RollOverMsgs
ToTaker == [kind : {"confirm", "reject"}] \cup RollOverMsgs

(* An attempt: what it waits for or how it ended, the Dlc it was given and *)
(* the connection it began on, the other party's key, unread messages.     *)
Task(step, from, s) ==
    [step |-> step, from |-> from, sess |-> s, other |-> 0, inbox |-> <<>>]

Tasks == [step  : {"none", "msg0", "msg1", "msg2", "ok", "done", "failed"},
          from  : Seq(Dlcs), sess : Sessions, other : Keys, inbox : Seq(RollOverMsgs)]

Waiting(p, k) == tasks[p][k].step \in {"msg0", "msg1", "msg2"}

(* p's attempt k gets on; where it began from stays.                       *)
Moved(p, k, step, other, inbox) ==
    [step |-> step, from |-> tasks[p][k].from, sess |-> tasks[p][k].sess,
     other |-> other, inbox |-> inbox]
At(p, k, step, other, inbox) ==
    [tasks EXCEPT ![p][k] = Moved(p, k, step, other, inbox)]

Init ==
    /\ dlcs = [p \in Parties |-> <<Signed>>]
    /\ state = [p \in Parties |-> "Open"]
    /\ alive = [p \in Parties |-> TRUE]
    /\ proposed = FALSE /\ offered = None
    /\ rolling = [p \in Parties |-> None]
    /\ tasks = [p \in Parties |-> [k \in Attempts |-> Task("none", <<Signed>>, 1)]]
    /\ watch = [p \in Parties |-> {Signed}]
    /\ spy = [p \in Parties |-> {}]
    /\ sess = 1 /\ linked = TRUE
    /\ toMaker = [s \in Sessions |-> <<>>] /\ toTaker = <<>>
    /\ onChain = None
    /\ revealed = [p \in Parties |-> {}]
    /\ overlapped = FALSE
    /\ restarts = [p \in Parties |-> 0] /\ timeouts = 0

-----------------------------------------------------------------------------
(* The wire.  What is sent on a connection that has ended is lost.         *)

Carried(s, ms) == IF linked /\ s = sess THEN ms ELSE <<>>

(* Messages of p, on the connection s, to the other party.                 *)
Send(p, s, ms) ==
    IF p = "maker"
    THEN /\ toTaker' = toTaker \o Carried(s, ms)
         /\ UNCHANGED toMaker
    ELSE /\ toMaker' = [toMaker EXCEPT ![s] = @ \o Carried(s, ms)]
         /\ UNCHANGED toTaker

(* The maker's cfd actor handles the next message of connection s.         *)
MakerReceives(s) ==
    /\ alive["maker"] /\ toMaker[s] # <<>>
    /\ toMaker' = [toMaker EXCEPT ![s] = Tail(@)]
    /\ UNCHANGED toTaker

TakerReceives ==
    /\ alive["taker"] /\ toTaker # <<>>
    /\ toTaker' = Tail(toTaker)
    /\ UNCHANGED toMaker

-----------------------------------------------------------------------------
(* Proposals.                                                              *)

(* handle_propose_roll_over of the taker, on the user's request.           *)
ProposeRollOver ==
    /\ alive["taker"] /\ ~proposed
    /\ proposed' = TRUE
    /\ Send("taker", sess, <<Notice("propose")>>)
    /\ UNCHANGED <<dbVars, alive, offered, rolling, tasks, monVars, sess, linked,
                   onChain, histVars>>

(* handle_propose_roll_over of the maker.                                  *)
HandleProposeRollOver(s) ==
    /\ MakerReceives(s) /\ Head(toMaker[s]).kind = "propose"
    /\ offered' = IF state["maker"] = "Open" THEN s ELSE offered
    /\ UNCHANGED <<dbVars, alive, proposed, rolling, tasks, monVars, sess,
                   linked, onChain, histVars>>

Unfinished(p) == \E k \in Attempts : Waiting(p, k) \/ tasks[p][k].step = "ok"

(* p's attempt k is its next one.                                          *)
NextAttempt(p, k) ==
    /\ tasks[p][k].step = "none"
    /\ \A i \in 1..(k - 1) : tasks[p][i].step # "none"

(* Mutant: the stored sender is the one of an attempt that does not run.   *)
BeginNext(p, s, greetings, k) ==
    /\ NextAttempt(p, k)
    /\ tasks' = [tasks EXCEPT ![p][k] = Task("msg0", dlcs[p], s)]
    /\ rolling' = [rolling EXCEPT ![p] = k + 1]
    /\ overlapped' = (overlapped \/ Unfinished(p))
    /\ Send(p, s, Append(greetings, Msg0(k)))

(* p begins its attempt k on connection s, and says `greetings' first.     *)
Begin(p, s, greetings, k) ==
    /\ NextAttempt(p, k)
    /\ tasks' = [tasks EXCEPT ![p][k] = Task("msg0", dlcs[p], s)]
    /\ rolling' = [rolling EXCEPT ![p] = k]
    /\ overlapped' = (overlapped \/ Unfinished(p))
    /\ Send(p, s, Append(greetings, Msg0(k)))

(* handle_accept_roll_over: a roll-over that still runs is no obstacle.    *)
(* On a connection known to be dead, or with no announcement, nothing      *)
(* happens.                                                                *)
AcceptRollOver == \E k \in Attempts :
    /\ alive["maker"] /\ offered # None /\ state["maker"] = "Open"
    /\ Begin("maker", offered, <<Notice("confirm")>>, k)
    /\ offered' = None
    /\ UNCHANGED <<dbVars, alive, proposed, monVars, sess, linked, onChain,
                   revealed, restarts, timeouts>>

(* handle_reject_roll_over.                                                *)
RejectRollOver ==
    /\ alive["maker"] /\ offered # None
    /\ Send("maker", offered, <<Notice("reject")>>)
    /\ offered' = None
    /\ UNCHANGED <<dbVars, alive, proposed, rolling, tasks, monVars, sess, linked,
                   onChain, histVars>>

HandleRollOverRejected ==
    /\ TakerReceives /\ Head(toTaker).kind = "reject"
    /\ proposed' = FALSE
    /\ UNCHANGED <<dbVars, alive, offered, rolling, tasks, monVars, sess, linked,
                   onChain, histVars>>

MayRollOver == rolling["taker"] = None /\ state["taker"] = "Open"

(* handle_roll_over_accepted: it refuses a second roll-over, and one that  *)
(* the taker's oracle has no announcement for; the proposal stays pending. *)
RefuseRollOver(announced) ==
    /\ TakerReceives /\ Head(toTaker).kind = "confirm"
    /\ ~MayRollOver \/ ~announced
    /\ UNCHANGED <<dbVars, actorVars, tasks, monVars, sess, linked, onChain, histVars>>

HandleRollOverAccepted == \E k \in Attempts :
    /\ alive["taker"] /\ toTaker # <<>> /\ Head(toTaker).kind = "confirm"
    /\ MayRollOver /\ NextAttempt("taker", k)
    /\ tasks' = [tasks EXCEPT !["taker"][k] = Task("msg0", dlcs["taker"], sess)]
    /\ rolling' = [rolling EXCEPT !["taker"] = k]
    /\ proposed' = FALSE
    /\ toTaker' = Tail(toTaker)
    /\ toMaker' = [toMaker EXCEPT ![sess] = @ \o Carried(sess, <<Msg0(k)>>)]
    /\ UNCHANGED <<dbVars, alive, offered, monVars, sess, linked, onChain,
                   revealed, overlapped, restarts, timeouts>>

-----------------------------------------------------------------------------
(* The attempts.  A protocol message goes to the attempt whose sender is   *)
(* stored; the maker asks that its taker id fits.  A message for no        *)
(* attempt, or for one that has ended, is dropped.                         *)

Routed(p, s, msg) == \E k \in Attempts :
    /\ rolling[p] = k /\ Waiting(p, k) /\ (p = "maker" => tasks[p][k].sess = s)
    /\ tasks' = At(p, k, tasks[p][k].step, tasks[p][k].other,
                   Append(tasks[p][k].inbox, msg))

Dropped(p, s) ==
    /\ ~\E k \in Attempts :
         rolling[p] = k /\ Waiting(p, k) /\ (p = "maker" => tasks[p][k].sess = s)
    /\ UNCHANGED tasks

MakerHandlesProtocolMsg(s) ==
    /\ MakerReceives(s) /\ Head(toMaker[s]) \in RollOverMsgs
    /\ Routed("maker", s, Head(toMaker[s])) \/ Dropped("maker", s)
    /\ UNCHANGED <<dbVars, actorVars, monVars, sess, linked, onChain, histVars>>

TakerHandlesProtocolMsg ==
    /\ TakerReceives /\ Head(toTaker) \in RollOverMsgs
    /\ Routed("taker", sess, Head(toTaker)) \/ Dropped("taker", sess)
    /\ UNCHANGED <<dbVars, actorVars, monVars, sess, linked, onChain, histVars>>

(* The contract an attempt builds, once it has the other party's key.      *)
Built(p, k) == DlcOf(p, k, tasks[p][k].other)

(* p's attempt k waits for a message of this kind and it is the next one.  *)
Reads(p, k, kind) ==
    /\ tasks[p][k].step = kind /\ tasks[p][k].inbox # <<>>
    /\ Head(tasks[p][k].inbox).kind = kind

Goes(p, k, step) ==
    tasks' = At(p, k, step, tasks[p][k].other, Tail(tasks[p][k].inbox))
Ends(p, k, step) ==
    tasks' = At(p, k, step, tasks[p][k].other, tasks[p][k].inbox)

taskUnchanged == <<dbVars, actorVars, monVars, sess, linked, onChain, overlapped,
                   restarts, timeouts>>

(* Msg0 is the other party's key; Msg1 signs the contract with it.         *)
ReceiveMsg0(p, k) ==
    /\ Reads(p, k, "msg0")
    /\ LET key == Head(tasks[p][k].inbox).key IN
         /\ tasks' = At(p, k, "msg1", key, Tail(tasks[p][k].inbox))
         /\ Send(p, tasks[p][k].sess, <<Msg1(DlcOf(p, k, key))>>)
    /\ UNCHANGED <<taskUnchanged, revealed>>

(* Mutant: the contract counts as replaced before the other party's secret *)
(* has come.                                                               *)
ReceiveMsg1Only(p, k) ==
    /\ Reads(p, k, "msg1")
    /\ Head(tasks[p][k].inbox).dlc = Built(p, k)
    /\ Goes(p, k, "ok")
    /\ revealed' = [revealed EXCEPT ![p] = @ \cup {Last(tasks[p][k].from)[p]}]
    /\ Send(p, tasks[p][k].sess, <<Msg2(Last(tasks[p][k].from)[p])>>)
    /\ UNCHANGED taskUnchanged

(* Msg1: its signatures verify on the contract both built.  Msg2 gives the *)
(* old contract away.                                                      *)
ReceiveMsg1(p, k) ==
    /\ Reads(p, k, "msg1")
    /\ Head(tasks[p][k].inbox).dlc = Built(p, k)
    /\ Goes(p, k, "msg2")
    /\ revealed' = [revealed EXCEPT ![p] = @ \cup {Last(tasks[p][k].from)[p]}]
    /\ Send(p, tasks[p][k].sess, <<Msg2(Last(tasks[p][k].from)[p])>>)
    /\ UNCHANGED taskUnchanged

(* Mutant: the revocation secret is not looked at.                         *)
ReceiveAnyMsg2(p, k) ==
    /\ Reads(p, k, "msg2")
    /\ Goes(p, k, "ok")
    /\ UNCHANGED <<taskUnchanged, toMaker, toTaker, revealed>>

(* Msg2 revokes the other party's old contract.                            *)
ReceiveMsg2(p, k) ==
    /\ Reads(p, k, "msg2")
    /\ Head(tasks[p][k].inbox).key = Last(tasks[p][k].from)[Other(p)]
    /\ Goes(p, k, "ok")
    /\ UNCHANGED <<taskUnchanged, toMaker, toTaker, revealed>>

(* A message of another kind, a signature that does not verify, a secret   *)
(* of another key.                                                         *)
ReceiveWrong(p, k) ==
    /\ Waiting(p, k) /\ tasks[p][k].inbox # <<>>
    /\ LET msg == Head(tasks[p][k].inbox) IN
         \/ msg.kind # tasks[p][k].step
         \/ msg.kind = "msg1" /\ msg.dlc # Built(p, k)
         \/ msg.kind = "msg2" /\ msg.key # Last(tasks[p][k].from)[Other(p)]
    /\ Goes(p, k, "failed")
    /\ UNCHANGED <<taskUnchanged, toMaker, toTaker, revealed>>

(* An attempt whose sender was replaced or dropped, when it has read the   *)
(* rest: select_next_some on a channel that has ended.                     *)
LosesSender(p, k) ==
    /\ Waiting(p, k) /\ tasks[p][k].inbox = <<>> /\ rolling[p] # k
    /\ Ends(p, k, "failed")
    /\ UNCHANGED <<taskUnchanged, toMaker, toTaker, revealed>>

TimesOut(p, k) ==
    /\ Waiting(p, k) /\ tasks[p][k].inbox = <<>> /\ timeouts < MaxTimeouts
    /\ timeouts' = timeouts + 1
    /\ Ends(p, k, "failed")
    /\ UNCHANGED <<dbVars, actorVars, monVars, wireVars, onChain, revealed,
                   overlapped, restarts>>

(* Mutant: the CFD keeps the contract it had.                              *)
KeepOldContract(p, k) ==
    /\ alive[p] /\ tasks[p][k].step = "ok"
    /\ Ends(p, k, "done")
    /\ rolling' = [rolling EXCEPT ![p] = None]
    /\ dlcs' = [dlcs EXCEPT ![p] = Append(@, Last(tasks[p][k].from))]
    /\ state' = [state EXCEPT ![p] = "Open"]
    /\ UNCHANGED <<alive, proposed, offered, monVars, wireVars, onChain, histVars>>

(* Mutant: the new contract replaces the old ones without a trace.         *)
ForgetReplaced(p, k) ==
    /\ alive[p] /\ tasks[p][k].step = "ok"
    /\ Ends(p, k, "done")
    /\ rolling' = [rolling EXCEPT ![p] = None]
    /\ dlcs' = [dlcs EXCEPT ![p] = <<Built(p, k)>>]
    /\ state' = [state EXCEPT ![p] = "Open"]
    /\ watch' = [watch EXCEPT ![p] = @ \cup {Built(p, k)}]
    /\ spy' = [spy EXCEPT ![p] = @ \cup Range(tasks[p][k].from)]
    /\ UNCHANGED <<alive, proposed, offered, wireVars, onChain, histVars>>

(* handle_cfd_roll_over_completed: whatever state the CFD has reached and  *)
(* whatever attempt runs now, the CFD is Open with the new contract.  The  *)
(* completion of an attempt that failed is an error and changes nothing:   *)
(* its sender stays stored.                                                *)
RollOverCompleted(p, k) ==
    /\ alive[p] /\ tasks[p][k].step = "ok"
    /\ Ends(p, k, "done")
    /\ rolling' = [rolling EXCEPT ![p] = None]
    /\ dlcs' = [dlcs EXCEPT ![p] = Append(tasks[p][k].from, Built(p, k))]
    /\ state' = [state EXCEPT ![p] = "Open"]
    /\ watch' = [watch EXCEPT ![p] = @ \cup {Built(p, k)}]
    /\ spy' = [spy EXCEPT ![p] = @ \cup Range(tasks[p][k].from)]
    /\ UNCHANGED <<alive, proposed, offered, wireVars, onChain, histVars>>

-----------------------------------------------------------------------------
(* The chain and the monitors.                                             *)

(* handle_commit: only one commit tx can spend the lock output.            *)
Commit(p) ==
    /\ alive[p] /\ state[p] = "Open" /\ onChain \in {None, Dlc(p)}
    /\ onChain' = Dlc(p)
    /\ state' = [state EXCEPT ![p] = "PendingCommit"]
    /\ UNCHANGED <<dlcs, actorVars, tasks, monVars, wireVars, histVars>>

(* CommitFinality or a time lock of a commit tx the monitor still awaits,  *)
(* of whichever contract it was given.                                     *)
CommitSeen(p) ==
    /\ alive[p] /\ onChain \in watch[p] /\ state[p] # "Committed"
    /\ state' = [state EXCEPT ![p] = "Committed"]
    /\ UNCHANGED <<dlcs, actorVars, tasks, monVars, wireVars, onChain, histVars>>

(* RevokedTransactionFound is a todo!(), the cfd actor dies of it.         *)
RevokedFound(p) ==
    /\ alive[p] /\ onChain \in spy[p]
    /\ alive' = [alive EXCEPT ![p] = FALSE]
    /\ rolling' = [rolling EXCEPT ![p] = None]
    /\ UNCHANGED <<dbVars, proposed, offered, tasks, monVars, wireVars, onChain, histVars>>

-----------------------------------------------------------------------------
(* Restarts: what is not in the database is gone, attempts end, and the    *)
(* monitor is told of the latest contract only, of no revoked one.         *)

Restarts(p) ==
    /\ restarts[p] < MaxRestarts
    /\ restarts' = [restarts EXCEPT ![p] = @ + 1]
    /\ alive' = [alive EXCEPT ![p] = TRUE]
    /\ rolling' = [rolling EXCEPT ![p] = None]
    /\ tasks' = [tasks EXCEPT ![p] = [k \in Attempts |->
           IF Waiting(p, k) \/ tasks[p][k].step = "ok"
           THEN Moved(p, k, "failed", tasks[p][k].other, <<>>) ELSE tasks[p][k]]]
    /\ watch' = [watch EXCEPT ![p] = IF state[p] = "Committed" THEN {} ELSE {Dlc(p)}]
    /\ spy' = [spy EXCEPT ![p] = {}]

MakerRestarts ==
    /\ Restarts("maker")
    /\ offered' = None
    /\ linked' = FALSE
    /\ toMaker' = [s \in Sessions |-> <<>>]
    /\ UNCHANGED <<dbVars, proposed, sess, toTaker, onChain, revealed,
                   overlapped, timeouts>>

TakerRestarts ==
    /\ Restarts("taker")
    /\ proposed' = FALSE
    /\ sess' = sess + 1 /\ linked' = TRUE
    /\ toTaker' = <<>>
    /\ UNCHANGED <<dbVars, offered, toMaker, onChain, revealed,
                   overlapped, timeouts>>

-----------------------------------------------------------------------------
ProposalStep ==
    \/ ProposeRollOver \/ AcceptRollOver \/ RejectRollOver
    \/ \E s \in Sessions : HandleProposeRollOver(s)
    \/ HandleRollOverAccepted \/ HandleRollOverRejected
    \/ \E announced \in BOOLEAN : RefuseRollOver(announced)

AttemptStep(p, k) ==
    \/ ReceiveMsg0(p, k) \/ ReceiveMsg1(p, k) \/ ReceiveMsg2(p, k)
    \/ ReceiveWrong(p, k) \/ LosesSender(p, k) \/ TimesOut(p, k)
    \/ RollOverCompleted(p, k)

PartyStep(p) == Commit(p) \/ CommitSeen(p) \/ RevokedFound(p)

Next ==
    \/ ProposalStep
    \/ \E s \in Sessions : MakerHandlesProtocolMsg(s)
    \/ TakerHandlesProtocolMsg
    \/ \E p \in Parties, k \in Attempts : AttemptStep(p, k)
    \/ \E p \in Parties : PartyStep(p)
    \/ MakerRestarts \/ TakerRestarts

Spec == Init /\ [][Next]_vars

-----------------------------------------------------------------------------
(* Types; a stored sender belongs to an attempt that began.                *)
TypeOK ==
    /\ dlcs \in [Parties -> Seq(Dlcs)]
    /\ state \in [Parties -> {"Open", "PendingCommit", "Committed"}]
    /\ alive \in [Parties -> BOOLEAN] /\ proposed \in BOOLEAN
    /\ offered \in Sessions \cup {None}
    /\ rolling \in [Parties -> Attempts \cup {None}]
    /\ \A p \in Parties, k \in Attempts :
         rolling[p] = k => tasks[p][k].step # "none"
    /\ tasks \in [Parties -> [Attempts -> Tasks]]
    /\ watch \in [Parties -> SUBSET Dlcs] /\ spy \in [Parties -> SUBSET Dlcs]
    /\ sess \in Sessions /\ linked \in BOOLEAN
    /\ toMaker \in [Sessions -> Seq(ToMaker)] /\ toTaker \in Seq(ToTaker)
    /\ onChain \in Dlcs \cup {None}
    /\ revealed \in [Parties -> SUBSET Keys] /\ overlapped \in BOOLEAN
    /\ restarts \in [Parties -> 0..MaxRestarts] /\ timeouts \in 0..MaxTimeouts

(* Whatever fails, the parties' contracts are one history, and one party   *)
(* is at most one roll-over ahead: a roll-over from different contracts    *)
(* never completes, because the other's revocation secret does not fit.    *)
(* (Unless one is accepted before the result of another is stored.)        *)
SameHistory == overlapped \/
    /\ IsPrefix(dlcs["maker"], dlcs["taker"]) \/ IsPrefix(dlcs["taker"], dlcs["maker"])
    /\ Len(dlcs["maker"]) <= Len(dlcs["taker"]) + 1
    /\ Len(dlcs["taker"]) <= Len(dlcs["maker"]) + 1

(* Of every contract a party has replaced it holds the other party's       *)
(* revocation secret: should the other publish it, it can be punished.     *)
RevocationsHeld == \A p \in Parties : \A i \in 1..(Len(dlcs[p]) - 1) :
    dlcs[p][i][Other(p)] \in revealed[Other(p)]

(* When no wait was given up, no daemon restarted or died, no attempt      *)
(* began while another ran, and all have ended, maker and taker hold the   *)
(* same contract and neither gave away the secret that lets the other      *)
(* punish its use.  The maker accepts a proposal while it rolls over and   *)
(* the messages name no attempt: without ~overlapped this does not hold.   *)
RollOverAgreed ==
    (/\ ~overlapped /\ timeouts = 0 /\ \A p \in Parties : restarts[p] = 0 /\ alive[p]
     /\ \A p \in Parties, k \in Attempts : tasks[p][k].step \in {"none", "done", "failed"})
    => /\ Dlc("maker") = Dlc("taker")
       /\ \A p \in Parties : Dlc(p)[p] \notin revealed[p]

(* The commit tx a party records as final is of a contract it holds or     *)
(* held, so it has what it takes to go on from it or to punish it; which   *)
(* of them it is the state does not say: a roll-over may complete after    *)
(* the old commit tx was published, and the CFD then is Open and committed *)
(* with the new contract while the old one is on chain (maker_cfd.rs:846). *)
CommitIsOfItsHistory == overlapped \/ \A p \in Parties :
    state[p] = "Committed" => onChain \in Range(dlcs[p])

=============================================================================
