------------------------------ MODULE Updates ------------------------------
(***************************************************************************)
(* Updating one open CFD: the taker proposes to settle it or to roll it    *)
(* over, the maker accepts or rejects, and what was agreed is carried out  *)
(* by both.  The two cfd actors with their tables of proposals, the pages  *)
(* of the two users, the wire between them, and the lock output.           *)
(*                                                                         *)
(* Proposals are numbered, and the number names what becomes of one: the   *)
(* close transaction a settlement is paid by (its amounts and price are    *)
(* the proposal's), or the contract a roll-over ends in.  Contract 0 is    *)
(* the one the set-up made.  How a roll-over runs is RollOver's, what      *)
(* follows a commit CfdDaemon's.                                           *)
(***************************************************************************)

EXTENDS Naturals, Sequences, FiniteSets

CONSTANTS
    None,
    MaxProposals,    \* bound: proposals the taker makes
    MaxSessions,     \* bound: connections, one more than restarts of the taker
    MaxMakerRestarts \* bound

ASSUME BoundsAssumption ==
    /\ MaxProposals \in Nat /\ MaxSessions \in Nat \ {0} /\ MaxMakerRestarts \in Nat

Numbers  == 1..MaxProposals
Sessions == 1..MaxSessions
Parties  == {"maker", "taker"}
CommitTx == 0

INSTANCE CfdState WITH
    Dlcs <- {0} \cup Numbers, Settlements <- Numbers, Attestations <- {"attested"},
    Cets <- [d \in {0} \cup Numbers |-> {}]

VARIABLES
    cfd,       \* the state of the CFD in each party's database
    pending,   \* current_pending_proposals of each party: a proposal or None
    agreed,    \* current_agreed_proposals of the maker: [n, sess] or None
    tasks,     \* roll-overs each party runs
    rolling,   \* roll_over_state of the taker is Active
    watched,   \* closes each party's monitor waits for
    \* the wire
    sess,      \* number of the taker's connection, its TakerId
    linked,    \* the connection is up
    toMaker,   \* per connection: messages not handled yet
    toTaker,
    \* the chain
    spent,     \* what was broadcast to spend the lock output: a close,
               \* CommitTx or None
    \* history
    proposals, \* proposals made so far
    joined,    \* roll-overs the taker takes part in
    signed,    \* closes the taker sent its signature of
    forgot,    \* parties whose CFD lost a close they had signed
    dropped,   \* proposals lost without an answer
    makerRestarts

actorVars == <<cfd, pending, agreed, tasks, rolling, watched>>
wireVars  == <<sess, linked, toMaker, toTaker>>
histVars  == <<proposals, joined, signed, forgot, dropped, makerRestarts>>
vars == <<actorVars, wireVars, spent, histVars>>

Proposal(kind, n, s) == [kind |-> kind, n |-> n, sess |-> s]
Proposals == [kind : {"settlement", "rollOver"}, n : Numbers, sess : Sessions]
Agreements == [n : Numbers, sess : Sessions]

(* None is neither of them, and no contract, close or attestation.         *)
ASSUME ApartAssumption ==
    /\ None \notin {CommitTx} \cup Numbers /\ None # "attested"
    /\ None \notin Proposals /\ None \notin Agreements

(* The two RollOver messages carry the number for the run they begin; the  *)
(* answer to a settlement names the order and nothing else.                *)
Msg(kind, n) == [kind |-> kind, n |-> n]
ToMaker == [kind : {"settlement", "rollOver", "signature"}, n : Numbers]
ToTaker == [kind : {"confirmSettlement", "reject"}, n : {None}]
           \cup [kind : {"confirmRollOver"}, n : Numbers]

NumberOf(proposal) == IF proposal = None THEN {} ELSE {proposal.n}
Is(proposal, kind) == proposal # None /\ proposal.kind = kind
IsOpen(p) == cfd[p].kind = "Open"

Init ==
    /\ cfd = [p \in Parties |-> Open(0, None, None)]
    /\ pending = [p \in Parties |-> None] /\ agreed = None
    /\ tasks = [p \in Parties |-> {}] /\ rolling = FALSE
    /\ watched = [p \in Parties |-> {}]
    /\ sess = 1 /\ linked = TRUE
    /\ toMaker = [s \in Sessions |-> <<>>] /\ toTaker = <<>>
    /\ spent = None
    /\ proposals = 0 /\ joined = {} /\ signed = {} /\ forgot = {} /\ dropped = {}
    /\ makerRestarts = 0

-----------------------------------------------------------------------------
(* What a user sees of the CFD and may ask for.                            *)

(* Mutant: a close that was signed does not show.                          *)
ShownWithoutClose(p) ==
    CASE Is(pending[p], "settlement") ->
            IF p = "taker" THEN "OutgoingSettlementProposal" ELSE "IncomingSettlementProposal"
      [] Is(pending[p], "rollOver") ->
            IF p = "taker" THEN "OutgoingRollOverProposal" ELSE "IncomingRollOverProposal"
      [] OTHER -> cfd[p].kind

(* to_cfd_state: a proposal hides the state of the CFD.                    *)
Shown(p) ==
    CASE Is(pending[p], "settlement") ->
            IF p = "taker" THEN "OutgoingSettlementProposal" ELSE "IncomingSettlementProposal"
      [] Is(pending[p], "rollOver") ->
            IF p = "taker" THEN "OutgoingRollOverProposal" ELSE "IncomingRollOverProposal"
      [] pending[p] = None /\ IsOpen(p) /\ HasCollaborativeClose(cfd[p]) -> "PendingClose"
      [] OTHER -> cfd[p].kind

(* The arm for an outgoing settlement proposal asks for the maker, who has *)
(* none: with a proposal under way the taker is offered nothing.           *)
AvailableActions(p) ==
    CASE Shown(p) = "IncomingSettlementProposal" -> {"AcceptSettlement", "RejectSettlement"}
      [] Shown(p) = "IncomingRollOverProposal"   -> {"AcceptRollOver", "RejectRollOver"}
      [] Shown(p) = "PendingClose"               -> {"Commit"}
      [] Shown(p) = "Open" /\ p = "taker"        -> {"RollOver", "Commit", "Settle"}
      [] Shown(p) = "Open" /\ p = "maker"        -> {"Commit"}
      [] OTHER                                   -> {}

-----------------------------------------------------------------------------
(* The wire.  What is sent on a connection that has ended is lost.         *)

SendToMaker(m) ==
    toMaker' = IF linked THEN [toMaker EXCEPT ![sess] = Append(@, m)] ELSE toMaker

SendToTaker(s, m) ==
    toTaker' = IF linked /\ s = sess THEN Append(toTaker, m) ELSE toTaker

MakerReceives(s, kind) ==
    /\ toMaker[s] # <<>> /\ Head(toMaker[s]).kind = kind
    /\ toMaker' = [toMaker EXCEPT ![s] = Tail(@)]
    /\ UNCHANGED <<sess, linked, toTaker>>

TakerReceives(kind) ==
    /\ toTaker # <<>> /\ Head(toTaker).kind = kind
    /\ toTaker' = Tail(toTaker)

SetPending(p, proposal) == pending' = [pending EXCEPT ![p] = proposal]
SetCfd(p, state) == cfd' = [cfd EXCEPT ![p] = state]
Watch(p, n) == watched' = [watched EXCEPT ![p] = @ \cup {n}]

-----------------------------------------------------------------------------
(* Proposals.                                                              *)

(* The taker proposes what its page offers, one update at a time.          *)
Propose(kind, action) ==
    /\ action \in AvailableActions("taker")
    /\ pending["taker"] = None
    /\ proposals < MaxProposals /\ proposals' = proposals + 1
    /\ SetPending("taker", Proposal(kind, proposals + 1, sess))
    /\ SendToMaker(Msg(kind, proposals + 1))
    /\ UNCHANGED <<cfd, agreed, tasks, rolling, watched, sess, linked, toTaker, spent,
                   joined, signed, forgot, dropped, makerRestarts>>

ProposeSettlement == Propose("settlement", "Settle")
ProposeRollOver   == Propose("rollOver", "RollOver")

(* A proposal takes the place of the one the maker has, which can be of    *)
(* another connection of the taker, and older or newer.                    *)
Insert(kind, s) ==
    /\ SetPending("maker", Proposal(kind, Head(toMaker[s]).n, s))
    /\ dropped' = dropped \cup NumberOf(pending["maker"])

HandleProposeSettlement(s) ==
    /\ MakerReceives(s, "settlement")
    /\ Insert("settlement", s)
    /\ UNCHANGED <<cfd, agreed, tasks, rolling, watched, spent,
                   proposals, joined, signed, forgot, makerRestarts>>

(* Only an open CFD is rolled over; the taker is not told.                 *)
HandleProposeRollOver(s) ==
    /\ MakerReceives(s, "rollOver")
    /\ IF IsOpen("maker") THEN Insert("rollOver", s)
       ELSE dropped' = dropped \cup {Head(toMaker[s]).n} /\ UNCHANGED pending
    /\ UNCHANGED <<cfd, agreed, tasks, rolling, watched, spent,
                   proposals, joined, signed, forgot, makerRestarts>>

-----------------------------------------------------------------------------
(* The maker answers.  Its user may click on a page that is out of date,   *)
(* so the handlers are on their own.                                       *)

(* The answer is out before the kind of the proposal is looked at.  Bound: *)
(* a roll-over is taken for a settlement when no answer is on its way yet. *)
AcceptSettlement ==
    /\ pending["maker"] # None
    /\ Is(pending["maker"], "settlement") \/ toTaker = <<>>
    /\ SendToTaker(pending["maker"].sess, Msg("confirmSettlement", None))
    /\ IF Is(pending["maker"], "settlement")
       THEN /\ agreed' = [n |-> pending["maker"].n, sess |-> pending["maker"].sess]
            /\ SetPending("maker", None)
       ELSE UNCHANGED <<agreed, pending>>
    /\ UNCHANGED <<cfd, tasks, rolling, watched, sess, linked, toMaker, spent, histVars>>

RejectSettlement ==
    /\ pending["maker"] # None
    /\ SendToTaker(pending["maker"].sess, Msg("reject", None))
    /\ SetPending("maker", None)
    /\ UNCHANGED <<cfd, agreed, tasks, rolling, watched, sess, linked, toMaker, spent, histVars>>

RejectRollOver ==
    /\ Is(pending["maker"], "rollOver")
    /\ SendToTaker(pending["maker"].sess, Msg("reject", None))
    /\ SetPending("maker", None)
    /\ UNCHANGED <<cfd, agreed, tasks, rolling, watched, sess, linked, toMaker, spent, histVars>>

(* Mutant: the proposal is removed before the CFD is looked at.            *)
AcceptRollOverRemoveFirst ==
    /\ Is(pending["maker"], "rollOver")
    /\ SetPending("maker", None)
    /\ IF IsOpen("maker")
       THEN /\ SendToTaker(pending["maker"].sess, Msg("confirmRollOver", pending["maker"].n))
            /\ tasks' = [tasks EXCEPT !["maker"] = @ \cup {pending["maker"].n}]
       ELSE UNCHANGED <<toTaker, tasks>>
    /\ UNCHANGED <<cfd, agreed, rolling, watched, sess, linked, toMaker, spent, histVars>>

(* Nothing changes when the CFD is not open.                               *)
AcceptRollOver ==
    /\ Is(pending["maker"], "rollOver") /\ IsOpen("maker")
    /\ SendToTaker(pending["maker"].sess, Msg("confirmRollOver", pending["maker"].n))
    /\ tasks' = [tasks EXCEPT !["maker"] = @ \cup {pending["maker"].n}]
    /\ SetPending("maker", None)
    /\ UNCHANGED <<cfd, agreed, rolling, watched, sess, linked, toMaker, spent, histVars>>

-----------------------------------------------------------------------------
(* The taker takes the answer.                                             *)

Rejected ==
    /\ TakerReceives("reject")
    /\ SetPending("taker", None)
    /\ UNCHANGED <<cfd, agreed, tasks, rolling, watched, sess, linked, toMaker, spent, histVars>>

(* An acceptance that fails leaves the proposal where it is, for good.     *)
FailsToAccept ==
    /\ dropped' = dropped \cup NumberOf(pending["taker"])
    /\ UNCHANGED <<cfd, pending, tasks, rolling, watched, toMaker, joined, signed>>

CanSign == IsOpen("taker") /\ Is(pending["taker"], "settlement")

(* Mutant: the proposal is removed before it is read.                      *)
SettlementAcceptedRemoveFirst ==
    /\ TakerReceives("confirmSettlement")
    /\ IF IsOpen("taker") THEN SetPending("taker", None) ELSE UNCHANGED pending
    /\ UNCHANGED <<cfd, agreed, tasks, rolling, watched, sess, linked, toMaker, spent, histVars>>

(* The signature goes out, then the close is recorded.                     *)
SettlementAccepted ==
    /\ TakerReceives("confirmSettlement")
    /\ \/ /\ CanSign
          /\ LET n == pending["taker"].n
             IN  /\ SendToMaker(Msg("signature", n))
                 /\ signed' = signed \cup {n}
                 /\ SetCfd("taker", AfterProposalSigned(cfd["taker"], n))
                 /\ SetPending("taker", None)
                 /\ Watch("taker", n)
          /\ UNCHANGED <<tasks, rolling, joined, dropped>>
       \/ ~CanSign /\ Is(pending["taker"], "settlement") /\ FailsToAccept
       \/ ~CanSign /\ ~Is(pending["taker"], "settlement")
          /\ UNCHANGED <<cfd, pending, tasks, rolling, watched, toMaker, joined, signed, dropped>>
       \/ CanSign /\ ~linked /\ FailsToAccept      \* do_send fails
    /\ UNCHANGED <<agreed, sess, linked, spent, proposals, forgot, makerRestarts>>

RollOverAccepted ==
    /\ TakerReceives("confirmRollOver")
    /\ IF ~rolling /\ IsOpen("taker")
       THEN /\ rolling' = TRUE
            /\ tasks' = [tasks EXCEPT !["taker"] = @ \cup {Head(toTaker).n}]
            /\ joined' = joined \cup {Head(toTaker).n}
            /\ SetPending("taker", None)
            /\ UNCHANGED <<cfd, watched, toMaker, signed, dropped>>
       ELSE FailsToAccept
    /\ UNCHANGED <<agreed, sess, linked, spent, proposals, forgot, makerRestarts>>

-----------------------------------------------------------------------------
(* A roll-over that runs, and its end.                                     *)

Forgets(p, after) ==
    forgot' = IF HasCollaborativeClose(cfd[p]) /\ ~HasCollaborativeClose(after)
              THEN forgot \cup {p} ELSE forgot

(* The new contract replaces whatever state the CFD has by now.            *)
RollOverCompleted(p, n) ==
    /\ n \in tasks[p] /\ n \in joined
    /\ tasks' = [tasks EXCEPT ![p] = @ \ {n}]
    /\ SetCfd(p, Open(n, None, None))
    /\ rolling' = (rolling /\ p = "maker")
    /\ Forgets(p, Open(n, None, None))
    /\ UNCHANGED <<pending, agreed, watched, wireVars, spent,
                   proposals, joined, signed, dropped, makerRestarts>>

(* The error returns before roll_over_state is reset.                      *)
RollOverFailed(p, n) ==
    /\ n \in tasks[p]
    /\ tasks' = [tasks EXCEPT ![p] = @ \ {n}]
    /\ UNCHANGED <<cfd, pending, agreed, rolling, watched, wireVars, spent, histVars>>

-----------------------------------------------------------------------------
(* The maker completes a settlement.                                       *)

(* Mutant: the new state of the CFD is not written to the database.        *)
InitiateSettlementUnrecorded(s) ==
    /\ MakerReceives(s, "signature")
    /\ IF agreed # None /\ agreed.sess = s /\ IsOpen("maker")
       THEN \/ /\ Head(toMaker[s]).n = agreed.n /\ spent = None
               /\ spent' = agreed.n
               /\ Watch("maker", agreed.n) /\ agreed' = None
            \/ UNCHANGED <<spent, watched, agreed>>
       ELSE UNCHANGED <<spent, watched, agreed>>
    /\ UNCHANGED <<cfd, pending, tasks, rolling, histVars>>

(* Mutant: the sender of the signature is not compared with the agreement. *)
InitiateSettlementFromAnyone(s) ==
    /\ MakerReceives(s, "signature")
    /\ IF agreed # None /\ IsOpen("maker")
       THEN /\ SetCfd("maker", AfterProposalSigned(cfd["maker"], agreed.n))
            /\ \/ /\ Head(toMaker[s]).n = agreed.n /\ spent = None
                  /\ spent' = agreed.n
                  /\ Watch("maker", agreed.n) /\ agreed' = None
               \/ UNCHANGED <<spent, watched, agreed>>
       ELSE UNCHANGED <<cfd, spent, watched, agreed>>
    /\ UNCHANGED <<pending, tasks, rolling, histVars>>

(* The close is recorded, then broadcast, which fails with a signature of  *)
(* another close, or with the lock output spent, or for the node's own     *)
(* reasons.  The agreement stays then.                                     *)
InitiateSettlement(s) ==
    /\ MakerReceives(s, "signature")
    /\ IF agreed # None /\ agreed.sess = s /\ IsOpen("maker")
       THEN /\ SetCfd("maker", AfterProposalSigned(cfd["maker"], agreed.n))
            /\ \/ /\ Head(toMaker[s]).n = agreed.n /\ spent = None
                  /\ spent' = agreed.n
                  /\ Watch("maker", agreed.n) /\ agreed' = None
               \/ UNCHANGED <<spent, watched, agreed>>
       ELSE UNCHANGED <<cfd, spent, watched, agreed>>
    /\ UNCHANGED <<pending, tasks, rolling, histVars>>

-----------------------------------------------------------------------------
(* What happens to the CFD besides.                                        *)

Commit(p) ==
    /\ "Commit" \in AvailableActions(p)
    /\ spent \in {None, CommitTx} /\ spent' = CommitTx
    /\ SetCfd(p, AfterCommitTxSent(cfd[p])) /\ Forgets(p, AfterCommitTxSent(cfd[p]))
    /\ UNCHANGED <<pending, agreed, tasks, rolling, watched, wireVars,
                   proposals, joined, signed, dropped, makerRestarts>>

(* An event that cannot be handled changes nothing.                        *)
Happens(p, after) ==
    /\ Changed(Handle(cfd[p], after)) /\ cfd' = [cfd EXCEPT ![p] = after]
    /\ Forgets(p, after)
    /\ UNCHANGED <<pending, agreed, tasks, rolling, watched, wireVars, spent,
                   proposals, joined, signed, dropped, makerRestarts>>

CommitFinality(p) == spent = CommitTx /\ Happens(p, AfterCommitFinality(cfd[p]))

CloseFinality(p) == spent \in watched[p] /\ Happens(p, AfterCloseFinality(cfd[p]))

(* The oracle attests the price; a close under way is gone from the state. *)
OracleAttestation(p) ==
    cfd[p].att = None /\ Happens(p, AfterOracleAttestation(cfd[p], "attested"))

-----------------------------------------------------------------------------
(* Connections and restarts.                                               *)

LinkDrops ==
    /\ linked /\ linked' = FALSE
    /\ UNCHANGED <<actorVars, sess, toMaker, toTaker, spent, histVars>>

(* The actor and the monitor start from the database.                      *)
StartsAnew(p) ==
    /\ SetPending(p, None)
    /\ tasks' = [tasks EXCEPT ![p] = {}]
    /\ watched' = [watched EXCEPT ![p] = {cfd[p].cc} \ {None}]

MakerRestarts ==
    /\ makerRestarts < MaxMakerRestarts /\ makerRestarts' = makerRestarts + 1
    /\ StartsAnew("maker") /\ agreed' = None
    /\ linked' = FALSE /\ toMaker' = [s \in Sessions |-> <<>>]
    /\ UNCHANGED <<cfd, rolling, sess, toTaker, spent,
                   proposals, joined, signed, forgot, dropped>>

(* Only a taker that starts connects, as a new taker to the maker, who may *)
(* handle the rest of the old connection later, or never.                  *)
TakerConnects ==
    /\ sess < MaxSessions /\ sess' = sess + 1 /\ linked' = TRUE
    /\ StartsAnew("taker") /\ rolling' = FALSE
    /\ toTaker' = <<>>

TakerRestarts ==
    /\ TakerConnects
    /\ UNCHANGED <<cfd, agreed, toMaker, spent, histVars>>

(* The taker stops between sending its signature and recording the close.  *)
TakerDiesSigning ==
    /\ toTaker # <<>> /\ Head(toTaker).kind = "confirmSettlement" /\ CanSign
    /\ SendToMaker(Msg("signature", pending["taker"].n))
    /\ signed' = signed \cup {pending["taker"].n}
    /\ forgot' = forgot \cup {"taker"}
    /\ TakerConnects
    /\ UNCHANGED <<cfd, agreed, spent, proposals, joined, dropped, makerRestarts>>

-----------------------------------------------------------------------------

MakerHandles(s) ==
    HandleProposeSettlement(s) \/ HandleProposeRollOver(s) \/ InitiateSettlement(s)

TakerHandles == Rejected \/ SettlementAccepted \/ RollOverAccepted

Next ==
    \/ ProposeSettlement \/ ProposeRollOver
    \/ AcceptSettlement \/ RejectSettlement \/ AcceptRollOver \/ RejectRollOver
    \/ \E s \in Sessions : MakerHandles(s)
    \/ TakerHandles
    \/ \E p \in Parties :
        \/ \E n \in Numbers : RollOverCompleted(p, n) \/ RollOverFailed(p, n)
        \/ Commit(p) \/ CommitFinality(p) \/ CloseFinality(p) \/ OracleAttestation(p)
    \/ LinkDrops \/ MakerRestarts \/ TakerRestarts \/ TakerDiesSigning

Spec == Init /\ [][Next]_vars

(* Each actor handles its messages; the users owe nobody an answer, and    *)
(* what is left of an old connection need not be read.                     *)
FairSpec ==
    /\ Spec
    /\ WF_vars(TakerHandles)
    /\ \A s \in Sessions : WF_vars(s = sess /\ MakerHandles(s))

-----------------------------------------------------------------------------
(* Properties.                                                             *)

TypeOK ==
    /\ cfd \in [Parties -> CfdStates]
    /\ pending \in [Parties -> Option(Proposals)]
    /\ agreed \in Option(Agreements)
    /\ tasks \in [Parties -> SUBSET Numbers] /\ rolling \in BOOLEAN
    /\ watched \in [Parties -> SUBSET Numbers]
    /\ sess \in Sessions /\ linked \in BOOLEAN
    /\ toMaker \in [Sessions -> Seq(ToMaker)] /\ toTaker \in Seq(ToTaker)
    /\ spent \in Option({CommitTx} \cup Numbers)
    /\ proposals \in 0..MaxProposals
    /\ joined \subseteq Numbers /\ signed \subseteq Numbers /\ dropped \subseteq Numbers
    /\ forgot \subseteq Parties /\ makerRestarts \in 0..MaxMakerRestarts

(* The maker waits for no close but one the taker has signed: the price it *)
(* records, from its own table, is that of the signature, also when the    *)
(* signature comes late, from a connection before the one it has agreed a  *)
(* settlement with since.                                                  *)
AwaitedIsSigned ==
    \A p \in Parties : HasCollaborativeClose(cfd[p]) => cfd[p].cc \in signed

(* A close that was published is in the database of both parties, so that  *)
(* each recognises it when it confirms, unless one of the four things      *)
(* happened to that party that lose a close: an attestation, a commit or   *)
(* the end of a roll-over replaced the state, or the taker stopped in      *)
(* between.  A taker that lost it may agree on another, which replaces the *)
(* maker's.                                                                *)
CloseRemembered ==
    spent \in Numbers =>
        \A p \in Parties : cfd[p].cc = spent \/ {p, "taker"} \cap forgot # {}

(* The taker signs one close only, though each signature stays good for    *)
(* ever: the maker cannot choose.  A taker that lost one may sign another. *)
OneClose == Cardinality(signed) <= 1 \/ "taker" \in forgot

Under(n) ==
    \/ \E i \in DOMAIN toMaker[sess] :
        toMaker[sess][i].n = n /\ toMaker[sess][i].kind # "signature"
    \/ pending["maker"] # None /\ pending["maker"].n = n
    \/ toTaker # <<>>

(* While its proposal is pending the taker is offered nothing at all, not  *)
(* even to commit.  On a connection that is up the proposal is on its way  *)
(* to the maker, with the maker, or answered; it is lost in two ways only: *)
(* the maker cannot take it (not open, or replaced by another), or the     *)
(* taker cannot carry out what was accepted.                               *)
TakerWaits ==
    linked /\ pending["taker"] # None =>
        Under(pending["taker"].n) \/ pending["taker"].n \in dropped

(* An acceptance the taker on connection s has still to sign for.          *)
ToBeSigned(n, s) ==
    agreed = [n |-> n, sess |-> s] /\ n \notin signed /\ s = sess /\ linked

(* A settlement the maker accepted is signed by the taker and recorded by  *)
(* the maker, while the connection stays up and both CFDs stay open, unless *)
(* the taker could not sign when it was told, or a proposal of an older    *)
(* connection is accepted in its place.                                    *)
AgreedGoesThrough ==
    \A n \in Numbers, s \in Sessions :
        ToBeSigned(n, s) ~> \/ cfd["maker"].cc = n
                            \/ ~linked \/ sess # s
                            \/ ~IsOpen("maker") \/ ~IsOpen("taker") \/ n \in dropped
                            \/ agreed # None /\ agreed.sess # s

=============================================================================
