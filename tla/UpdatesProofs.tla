--------------------------- MODULE UpdatesProofs ---------------------------
(***************************************************************************)
(* Proofs about Updates, for any number of proposals, connections and      *)
(* restarts: TypeOK, AwaitedIsSigned, CloseRemembered, OneClose and        *)
(* TakerWaits.                                                             *)
(***************************************************************************)

EXTENDS Updates, SequenceTheorems, FiniteSetTheorems, TLAPS

(***************************************************************************)
(* The inductive invariant                                                 *)
(***************************************************************************)

(* The proposals on their way to the maker on connection s.                *)
Asked(s) == {i \in 1..Len(toMaker[s]) : toMaker[s][i].kind # "signature"}

(* The maker has a proposal of the connection the taker has now.           *)
AtMaker == pending["maker"] # None /\ pending["maker"].sess = sess

(* A proposal is in one place only: on its way, or with the maker.         *)
OnePlace ==
    /\ pending["taker"] # None =>
         pending["taker"].sess = sess /\ pending["taker"].n <= proposals
    /\ \A i \in Asked(sess) :
         /\ pending["taker"] = Proposal(toMaker[sess][i].kind, toMaker[sess][i].n, sess)
         /\ ~AtMaker
         /\ \A j \in Asked(sess) : i = j
    /\ AtMaker => pending["maker"] = pending["taker"]

(* An answer that ends the matter for the maker is the last one.           *)
Answers ==
    /\ toTaker # <<>> => pending["taker"] # None
    /\ \A i \in 1..Len(toTaker) : toTaker[i].kind \in {"reject", "confirmRollOver"} =>
         i = Len(toTaker) /\ Asked(sess) = {} /\ ~AtMaker
    /\ Is(pending["taker"], "settlement") /\ toTaker # <<>> =>
         Len(toTaker) = 1 /\ Asked(sess) = {} /\ ~AtMaker

(* What the maker agreed with the connection the taker has now waits for   *)
(* the signature of the taker, who has not been told otherwise.            *)
Agreement ==
    agreed # None /\ agreed.sess = sess /\ agreed.n \notin signed =>
        /\ Is(pending["taker"], "settlement") /\ pending["taker"].n = agreed.n
        /\ Asked(sess) = {} /\ ~AtMaker
        /\ \A i \in 1..Len(toTaker) : toTaker[i].kind = "confirmSettlement"

(* Behind a signature nothing of its connection is left that could be      *)
(* completed without having been signed.                                   *)
Signatures == \A s \in Sessions : \A i \in 1..Len(toMaker[s]) :
    toMaker[s][i].kind = "signature" =>
        /\ toMaker[s][i].n \in signed
        /\ agreed # None /\ agreed.sess = s => agreed.n \in signed
        /\ Is(pending["maker"], "settlement") /\ pending["maker"].sess = s =>
             pending["maker"].n \in signed
        /\ \A j \in 1..Len(toMaker[s]) :
             j < i /\ toMaker[s][j].kind = "settlement" => toMaker[s][j].n \in signed

(* What is left of an older connection is about older proposals.           *)
OlderConnections ==
    /\ \A s \in Sessions :
         /\ s > sess => toMaker[s] = <<>>
         /\ \A i \in 1..Len(toMaker[s]) :
              /\ toMaker[s][i].n <= proposals
              /\ s # sess /\ toMaker[s][i].kind # "signature" =>
                   toMaker[s][i].n \notin NumberOf(pending["taker"])
    /\ pending["maker"] # None =>
         /\ pending["maker"].sess <= sess /\ pending["maker"].n <= proposals
         /\ pending["maker"].sess # sess =>
              pending["maker"].n \notin NumberOf(pending["taker"])
    /\ agreed # None => agreed.sess <= sess

(* A taker that forgot nothing has signed one close, and has it still.     *)
OneSigned ==
    "taker" \notin forgot /\ signed # {} =>
        \E c \in Numbers : signed = {c} /\ cfd["taker"].cc = c /\ pending["taker"] = None

Published == spent \in Numbers => spent \in signed

(* Where the proposal of the taker is while the connection is up.          *)
TakerIsUnder ==
    linked /\ pending["taker"] # None =>
        \/ pending["taker"].n \in dropped
        \/ Asked(sess) # {}
        \/ AtMaker
        \/ \E i \in 1..Len(toTaker) :
             \/ toTaker[i].kind \in {"reject", "confirmRollOver"}
             \/ pending["taker"].kind = "settlement"

IInv ==
    /\ TypeOK /\ OnePlace /\ Answers /\ Agreement /\ Signatures /\ OlderConnections
    /\ OneSigned /\ Published /\ TakerIsUnder /\ AwaitedIsSigned /\ CloseRemembered

-----------------------------------------------------------------------------
(* States of the CFD.                                                      *)

LEMMA Carries ==
    ASSUME NEW s \in CfdStates
    PROVE  /\ s.cc \in Option(Numbers)
           /\ s.kind \in {"PendingOpen", "Open", "PendingCommit", "OpenCommitted"} =>
                s.dlc \in {0} \cup Numbers /\ s.att \in Option({"attested"})
           /\ s.cet \in {"Unprepared", "TimelockExpired"} => s.kind = "OpenCommitted"
           /\ s.kind # "PendingClose"
  BY DEF NoCet, CfdStates, Bare, PendingOpen, Open, PendingCommit, OpenCommitted, PendingCet,
         ClosedCollaboratively, ClosedByCet, PendingRefund, Refunded, Variant, Option,
         BareKinds, CleanupKinds

LEMMA IsState ==
    /\ \A d \in {0} \cup Numbers, a \in Option({"attested"}), c \in Option(Numbers) :
         Open(d, a, c) \in CfdStates /\ Open(d, a, c).cc = c
    /\ \A d \in {0} \cup Numbers, a \in Option({"attested"}) :
         /\ PendingOpen(d, a) \in CfdStates /\ PendingOpen(d, a).cc = None
         /\ PendingCommit(d, a) \in CfdStates /\ PendingCommit(d, a).cc = None
    /\ \A d \in {0} \cup Numbers, st \in {"Unprepared", "TimelockExpired"} :
         OpenCommitted(d, st, None) \in CfdStates /\ OpenCommitted(d, st, None).cc = None
    /\ \A d \in {0} \cup Numbers, st \in {"OracleSigned", "Ready"} :
         /\ OpenCommitted(d, st, "attested") \in CfdStates
         /\ OpenCommitted(d, st, "attested").cc = None
    /\ \A n \in Numbers :
         ClosedCollaboratively(n) \in CfdStates /\ ClosedCollaboratively(n).cc = n
  <1> USE DEF CfdStates
  <1>1. \A d \in {0} \cup Numbers, a \in Option({"attested"}), c \in Option(Numbers) :
          Open(d, a, c) \in CfdStates /\ Open(d, a, c).cc = c
    <2>1. \A d, a, c : Open(d, a, c).cc = c
      BY DEF Open, Variant
    <2> QED BY <2>1
  <1>2. \A d \in {0} \cup Numbers, a \in Option({"attested"}) :
          /\ PendingOpen(d, a) \in CfdStates /\ PendingOpen(d, a).cc = None
          /\ PendingCommit(d, a) \in CfdStates /\ PendingCommit(d, a).cc = None
    <2>1. \A d, a : PendingOpen(d, a).cc = None /\ PendingCommit(d, a).cc = None
      BY DEF PendingOpen, PendingCommit, Variant
    <2> QED BY <2>1
  <1>3. \A d \in {0} \cup Numbers, st \in {"Unprepared", "TimelockExpired"} :
          OpenCommitted(d, st, None) \in CfdStates /\ OpenCommitted(d, st, None).cc = None
    <2>1. \A d, st : OpenCommitted(d, st, None).cc = None
      BY DEF OpenCommitted, Variant
    <2> QED BY <2>1
  <1>4. \A d \in {0} \cup Numbers, st \in {"OracleSigned", "Ready"} :
          /\ OpenCommitted(d, st, "attested") \in CfdStates
          /\ OpenCommitted(d, st, "attested").cc = None
    <2>1. \A d, st : OpenCommitted(d, st, "attested").cc = None
      BY DEF OpenCommitted, Variant
    <2> QED BY <2>1
  <1>5. \A n \in Numbers :
          ClosedCollaboratively(n) \in CfdStates /\ ClosedCollaboratively(n).cc = n
    <2>1. \A n : ClosedCollaboratively(n).cc = n
      BY DEF ClosedCollaboratively, Variant
    <2> QED BY <2>1
  <1> QED BY <1>1, <1>2, <1>3, <1>4, <1>5

(* An event keeps the close that was signed, or loses it.                  *)
LEMMA AfterEvents ==
    ASSUME NEW s \in CfdStates, NEW after,
           \/ after = AfterCommitFinality(s)
           \/ after = AfterCloseFinality(s)
           \/ after = AfterOracleAttestation(s, "attested")
           \/ after = AfterCommitTxSent(s) /\ s.kind = "Open",
           after # Bail
    PROVE  after \in CfdStates /\ (after.cc = None \/ after.cc = s.cc)
  <1>1. CASE after = AfterCommitFinality(s)
    <2>1. s.kind \in {"PendingCommit", "PendingOpen", "Open"}
      BY <1>1 DEF AfterCommitFinality
    <2>2. s.dlc \in {0} \cup Numbers /\ s.att \in {None, "attested"}
      BY <2>1, Carries DEF Option
    <2>3. CASE s.att = None
      <3>1. after = OpenCommitted(s.dlc, "Unprepared", None)
        BY <1>1, <2>1, <2>3 DEF AfterCommitFinality
      <3> QED BY <2>2, <3>1, IsState
    <2>4. CASE s.att = "attested"
      <3>1. after = OpenCommitted(s.dlc, "OracleSigned", "attested")
        BY <1>1, <2>1, <2>4, ApartAssumption DEF AfterCommitFinality
      <3> QED BY <2>2, <3>1, IsState
    <2> QED BY <2>2, <2>3, <2>4
  <1>2. CASE after = AfterCloseFinality(s)
    <2>1. s.cc \in Numbers /\ after = ClosedCollaboratively(s.cc)
      BY <1>2, Carries DEF AfterCloseFinality, HasCollaborativeClose, Option
    <2> QED BY <2>1, IsState
  <1>3. CASE after = AfterOracleAttestation(s, "attested")
    <2>1. \/ s.kind = "PendingOpen" /\ after = PendingOpen(s.dlc, "attested")
          \/ s.kind = "Open" /\ after = Open(s.dlc, "attested", None)
          \/ s.kind = "PendingCommit" /\ after = PendingCommit(s.dlc, "attested")
          \/ s.cet = "Unprepared" /\ after = OpenCommitted(s.dlc, "OracleSigned", "attested")
          \/ s.cet = "TimelockExpired" /\ after = OpenCommitted(s.dlc, "Ready", "attested")
      BY <1>3 DEF AfterOracleAttestation
    <2>2. s.dlc \in {0} \cup Numbers
      BY <2>1, Carries
    <2>3. "attested" \in Option({"attested"}) /\ None \in Option(Numbers)
      BY DEF Option
    <2>4. /\ PendingOpen(s.dlc, "attested") \in CfdStates
          /\ PendingOpen(s.dlc, "attested").cc = None
          /\ PendingCommit(s.dlc, "attested") \in CfdStates
          /\ PendingCommit(s.dlc, "attested").cc = None
          /\ Open(s.dlc, "attested", None) \in CfdStates
          /\ Open(s.dlc, "attested", None).cc = None
      BY <2>2, <2>3, IsState, Zenon
    <2>5. /\ OpenCommitted(s.dlc, "OracleSigned", "attested") \in CfdStates
          /\ OpenCommitted(s.dlc, "OracleSigned", "attested").cc = None
          /\ OpenCommitted(s.dlc, "Ready", "attested") \in CfdStates
          /\ OpenCommitted(s.dlc, "Ready", "attested").cc = None
      BY <2>2, IsState
    <2> QED BY <2>1, <2>4, <2>5, Zenon
  <1>4. CASE after = AfterCommitTxSent(s) /\ s.kind = "Open"
    <2>1. after = PendingCommit(s.dlc, s.att)
      BY <1>4 DEF AfterCommitTxSent
    <2>2. s.dlc \in {0} \cup Numbers /\ s.att \in Option({"attested"})
      BY <1>4, Carries
    <2>3. /\ PendingCommit(s.dlc, s.att) \in CfdStates
          /\ PendingCommit(s.dlc, s.att).cc = None
      BY <2>2, IsState, Zenon
    <2> QED BY <2>1, <2>3
  <1> QED BY <1>1, <1>2, <1>3, <1>4

LEMMA Changes ==
    ASSUME NEW s, NEW after, Changed(Handle(s, after))
    PROVE  after # Bail
  BY DEF Changed, Handle

-----------------------------------------------------------------------------
(* What a step does to the wire.                                           *)

MakerPops(s) ==
    /\ 1 \in 1..Len(toMaker[s])
    /\ Len(toMaker'[s]) = Len(toMaker[s]) - 1
    /\ \A i \in 1..Len(toMaker'[s]) :
         i + 1 \in 1..Len(toMaker[s]) /\ toMaker'[s][i] = toMaker[s][i + 1]
    /\ \A r \in Sessions : r # s => toMaker'[r] = toMaker[r]

MakerGets(m) ==
    IF linked
    THEN /\ Len(toMaker'[sess]) = Len(toMaker[sess]) + 1
         /\ toMaker'[sess][Len(toMaker[sess]) + 1] = m
         /\ \A i \in 1..Len(toMaker[sess]) : toMaker'[sess][i] = toMaker[sess][i]
         /\ \A r \in Sessions : r # sess => toMaker'[r] = toMaker[r]
    ELSE toMaker' = toMaker

TakerPops ==
    /\ 1 \in 1..Len(toTaker) /\ Len(toTaker') = Len(toTaker) - 1
    /\ \A i \in 1..Len(toTaker') :
         i + 1 \in 1..Len(toTaker) /\ toTaker'[i] = toTaker[i + 1]

TakerGets(s, m) ==
    IF linked /\ s = sess
    THEN /\ Len(toTaker') = Len(toTaker) + 1
         /\ toTaker'[Len(toTaker) + 1] = m
         /\ \A i \in 1..Len(toTaker) : toTaker'[i] = toTaker[i]
    ELSE toTaker' = toTaker

LEMMA TailOf ==
    ASSUME NEW S, NEW q \in Seq(S), q # <<>>
    PROVE  /\ Tail(q) \in Seq(S) /\ Len(Tail(q)) = Len(q) - 1 /\ Len(q) \in Nat
           /\ Head(q) = q[1] /\ 1 \in 1..Len(q)
           /\ \A i \in 1..Len(Tail(q)) : i + 1 \in 1..Len(q) /\ Tail(q)[i] = q[i + 1]
  OBVIOUS

LEMMA AppendOf ==
    ASSUME NEW S, NEW q \in Seq(S), NEW m \in S
    PROVE  /\ Append(q, m) \in Seq(S) /\ Len(Append(q, m)) = Len(q) + 1 /\ Len(q) \in Nat
           /\ Append(q, m)[Len(q) + 1] = m
           /\ \A i \in 1..Len(q) : Append(q, m)[i] = q[i]
  OBVIOUS

LEMMA Receiving ==
    ASSUME TypeOK, NEW s \in Sessions, NEW k, MakerReceives(s, k)
    PROVE  /\ MakerPops(s) /\ Head(toMaker[s]) = toMaker[s][1]
           /\ toMaker[s][1].kind = k /\ toMaker[s][1] \in ToMaker
           /\ toMaker' \in [Sessions -> Seq(ToMaker)]
           /\ UNCHANGED <<sess, linked, toTaker>>
  <1>1. toMaker[s] \in Seq(ToMaker) /\ toMaker[s] # <<>>
    BY DEF TypeOK, MakerReceives
  <1>2. toMaker' = [toMaker EXCEPT ![s] = Tail(toMaker[s])] /\ Head(toMaker[s]).kind = k
    BY DEF MakerReceives
  <1>3. /\ Tail(toMaker[s]) \in Seq(ToMaker) /\ Head(toMaker[s]) = toMaker[s][1]
        /\ toMaker'[s] = Tail(toMaker[s])
        /\ \A r \in Sessions : r # s => toMaker'[r] = toMaker[r]
    BY <1>1, <1>2, TailOf DEF TypeOK
  <1>4. MakerPops(s)
    BY <1>1, <1>3, TailOf DEF MakerPops
  <1> QED BY <1>1, <1>2, <1>3, <1>4 DEF MakerReceives, TypeOK

LEMMA Sending ==
    ASSUME TypeOK, NEW m \in ToMaker, SendToMaker(m)
    PROVE  MakerGets(m) /\ toMaker' \in [Sessions -> Seq(ToMaker)]
  <1>1. toMaker[sess] \in Seq(ToMaker) /\ sess \in Sessions
    BY DEF TypeOK
  <1>2. CASE linked
    <2>1. toMaker' = [toMaker EXCEPT ![sess] = Append(toMaker[sess], m)]
      BY <1>2 DEF SendToMaker
    <2>2. /\ toMaker'[sess] = Append(toMaker[sess], m)
          /\ \A r \in Sessions : r # sess => toMaker'[r] = toMaker[r]
          /\ Append(toMaker[sess], m) \in Seq(ToMaker)
      BY <1>1, <2>1, AppendOf DEF TypeOK
    <2> QED BY <1>1, <1>2, <2>1, <2>2, AppendOf DEF MakerGets, TypeOK
  <1>3. CASE ~linked
    BY <1>3 DEF SendToMaker, MakerGets, TypeOK
  <1> QED BY <1>2, <1>3

LEMMA Answering ==
    ASSUME TypeOK, NEW s \in Sessions, NEW m \in ToTaker, SendToTaker(s, m)
    PROVE  TakerGets(s, m) /\ toTaker' \in Seq(ToTaker)
  <1>1. toTaker \in Seq(ToTaker)
    BY DEF TypeOK
  <1> QED BY <1>1, AppendOf DEF SendToTaker, TakerGets

LEMMA Hearing ==
    ASSUME TypeOK, NEW k, TakerReceives(k)
    PROVE  /\ TakerPops /\ toTaker' \in Seq(ToTaker) /\ Head(toTaker) = toTaker[1]
           /\ toTaker[1].kind = k /\ toTaker[1] \in ToTaker
  <1>1. toTaker \in Seq(ToTaker) /\ toTaker # <<>>
    BY DEF TypeOK, TakerReceives
  <1> QED BY <1>1, TailOf DEF TakerReceives, TakerPops

-----------------------------------------------------------------------------
(* TypeOK                                                                  *)

LEMMA MsgTypes ==
    /\ \A k \in {"settlement", "rollOver", "signature"}, n \in Numbers :
         Msg(k, n) \in ToMaker /\ Msg(k, n).kind = k /\ Msg(k, n).n = n
    /\ \A k \in {"confirmSettlement", "reject"} :
         Msg(k, None) \in ToTaker /\ Msg(k, None).kind = k
    /\ \A n \in Numbers : /\ Msg("confirmRollOver", n) \in ToTaker
                          /\ Msg("confirmRollOver", n).kind = "confirmRollOver"
    /\ \A m \in ToMaker : m.kind \in {"settlement", "rollOver", "signature"} /\ m.n \in Numbers
    /\ \A m \in ToTaker : /\ m.kind \in {"confirmSettlement", "reject", "confirmRollOver"}
                          /\ m.kind = "confirmRollOver" => m.n \in Numbers
  BY DEF Msg, ToMaker, ToTaker

LEMMA ProposalTypes ==
    /\ \A k \in {"settlement", "rollOver"}, n \in Numbers, s \in Sessions :
         /\ Proposal(k, n, s) \in Proposals /\ Proposal(k, n, s) # None
         /\ Proposal(k, n, s).kind = k /\ Proposal(k, n, s).n = n /\ Proposal(k, n, s).sess = s
    /\ \A q \in Proposals : /\ q.kind \in {"settlement", "rollOver"} /\ q.n \in Numbers
                            /\ q.sess \in Sessions /\ q # None
                            /\ q = Proposal(q.kind, q.n, q.sess)
  BY ApartAssumption DEF Proposal, Proposals

LEMMA SetOne ==
    ASSUME NEW S, NEW f \in [Parties -> S], NEW p \in Parties, NEW v \in S, NEW g,
           g = [f EXCEPT ![p] = v]
    PROVE  /\ g \in [Parties -> S] /\ g[p] = v
           /\ \A q \in Parties : q # p => g[q] = f[q]
  OBVIOUS

LEMMA NumberType ==
    ASSUME NEW q \in Option(Proposals)
    PROVE  NumberOf(q) \subseteq Numbers /\ (q # None => NumberOf(q) = {q.n})
  BY ProposalTypes DEF NumberOf, Option

LEMMA TypesOf ==
    ASSUME TypeOK
    PROVE  /\ \A p \in Parties : cfd[p] \in CfdStates /\ pending[p] \in Option(Proposals)
           /\ "maker" \in Parties /\ "taker" \in Parties
           /\ sess \in Sessions /\ sess \in Nat /\ proposals \in Nat
           /\ toTaker \in Seq(ToTaker) /\ \A s \in Sessions : toMaker[s] \in Seq(ToMaker)
           /\ agreed \in Option(Agreements)
  BY BoundsAssumption DEF TypeOK, Parties, Sessions

LEMMA CommitsOpen ==
    ASSUME TypeOK, NEW p \in Parties, "Commit" \in AvailableActions(p)
    PROVE  IsOpen(p)
  <1>1. Shown(p) \in {"PendingClose", "Open"}
    BY Zenon DEF AvailableActions
  <1>2. cfd[p].kind # "PendingClose"
    BY TypesOf, Carries
  <1> QED BY <1>1, <1>2 DEF Shown, IsOpen

LEMMA MovesState ==
    ASSUME TypeOK, NEW p \in Parties, NEW after,
           \/ after = AfterCommitFinality(cfd[p])
           \/ after = AfterCloseFinality(cfd[p])
           \/ after = AfterOracleAttestation(cfd[p], "attested"),
           Happens(p, after)
    PROVE  /\ cfd' \in [Parties -> CfdStates] /\ cfd' = [cfd EXCEPT ![p] = after]
           /\ after \in CfdStates /\ (after.cc = None \/ after.cc = cfd[p].cc)
  <1>1. cfd[p] \in CfdStates /\ after # Bail
    BY TypesOf, Changes DEF Happens
  <1>2. after \in CfdStates /\ (after.cc = None \/ after.cc = cfd[p].cc)
    BY <1>1, AfterEvents
  <1> QED BY <1>2 DEF Happens, TypeOK

LEMMA Commits ==
    ASSUME TypeOK, NEW p \in Parties, Commit(p)
    PROVE  /\ AfterCommitTxSent(cfd[p]) \in CfdStates /\ AfterCommitTxSent(cfd[p]).cc = None
           /\ cfd' = [cfd EXCEPT ![p] = AfterCommitTxSent(cfd[p])]
           /\ cfd' \in [Parties -> CfdStates]
  <1>1. cfd[p] \in CfdStates /\ cfd[p].kind = "Open"
    BY TypesOf, CommitsOpen DEF Commit, IsOpen
  <1>2. AfterCommitTxSent(cfd[p]) \in CfdStates /\ AfterCommitTxSent(cfd[p]).cc = None
    <2>1. AfterCommitTxSent(cfd[p]) = PendingCommit(cfd[p].dlc, cfd[p].att)
      BY <1>1 DEF AfterCommitTxSent
    <2>2. cfd[p].dlc \in {0} \cup Numbers /\ cfd[p].att \in Option({"attested"})
      BY <1>1, Carries
    <2>3. /\ PendingCommit(cfd[p].dlc, cfd[p].att) \in CfdStates
          /\ PendingCommit(cfd[p].dlc, cfd[p].att).cc = None
      BY <2>2, IsState, Zenon
    <2> QED BY <2>1, <2>3, Zenon
  <1>3. cfd \in [Parties -> CfdStates] /\ cfd' = [cfd EXCEPT ![p] = AfterCommitTxSent(cfd[p])]
    BY DEF Commit, SetCfd, TypeOK
  <1> QED BY <1>2, <1>3

LEMMA Records ==
    ASSUME TypeOK, NEW p \in Parties, IsOpen(p), NEW n \in Numbers,
           SetCfd(p, AfterProposalSigned(cfd[p], n))
    PROVE  /\ cfd' \in [Parties -> CfdStates] /\ cfd'[p].cc = n
           /\ \A q \in Parties : q # p => cfd'[q] = cfd[q]
  <1>1. cfd[p] \in CfdStates /\ cfd[p].kind = "Open"
    BY TypesOf DEF IsOpen
  <1>2. AfterProposalSigned(cfd[p], n) = Open(cfd[p].dlc, cfd[p].att, n)
    BY <1>1 DEF AfterProposalSigned
  <1>3. /\ cfd[p].dlc \in {0} \cup Numbers /\ cfd[p].att \in Option({"attested"})
        /\ n \in Option(Numbers)
    BY <1>1, Carries DEF Option
  <1>4. AfterProposalSigned(cfd[p], n) \in CfdStates /\ AfterProposalSigned(cfd[p], n).cc = n
    <2>1. /\ Open(cfd[p].dlc, cfd[p].att, n) \in CfdStates
          /\ Open(cfd[p].dlc, cfd[p].att, n).cc = n
      BY <1>3, IsState, Zenon
    <2> QED BY <1>2, <2>1
  <1> QED BY <1>4 DEF SetCfd, TypeOK

LEMMA ForgetsType ==
    ASSUME TypeOK, NEW p \in Parties, NEW after, Forgets(p, after)
    PROVE  forgot' \subseteq Parties
  BY DEF TypeOK, Forgets

LEMMA NextCases ==
    ASSUME [Next]_vars
    PROVE  \/ ProposeSettlement \/ ProposeRollOver
           \/ AcceptSettlement \/ RejectSettlement \/ AcceptRollOver \/ RejectRollOver
           \/ \E s \in Sessions : HandleProposeSettlement(s)
           \/ \E s \in Sessions : HandleProposeRollOver(s)
           \/ \E s \in Sessions : InitiateSettlement(s)
           \/ Rejected \/ SettlementAccepted \/ RollOverAccepted
           \/ \E p \in Parties, n \in Numbers : RollOverCompleted(p, n)
           \/ \E p \in Parties, n \in Numbers : RollOverFailed(p, n)
           \/ \E p \in Parties : Commit(p)
           \/ \E p \in Parties : CommitFinality(p)
           \/ \E p \in Parties : CloseFinality(p)
           \/ \E p \in Parties : OracleAttestation(p)
           \/ LinkDrops \/ MakerRestarts \/ TakerRestarts \/ TakerDiesSigning
           \/ UNCHANGED vars
  BY DEF Next, MakerHandles, TakerHandles

-----------------------------------------------------------------------------
(* What a step does, as far as the invariant goes.                         *)

closeVars == <<cfd, spent, signed, forgot>>

Asks(k) ==
    /\ cfd["taker"].cc = None /\ pending["taker"] = None
    /\ proposals' = proposals + 1 /\ proposals + 1 \in Numbers
    /\ pending'["taker"] = Proposal(k, proposals + 1, sess)
    /\ pending'["maker"] = pending["maker"]
    /\ MakerGets(Msg(k, proposals + 1))
    /\ UNCHANGED <<closeVars, agreed, sess, linked, toTaker, dropped>>

Inserts(s) ==
    /\ MakerPops(s) /\ toMaker[s][1].kind \in {"settlement", "rollOver"}
    /\ pending'["maker"] = Proposal(toMaker[s][1].kind, toMaker[s][1].n, s)
    /\ pending'["taker"] = pending["taker"]
    /\ dropped' = dropped \cup NumberOf(pending["maker"])
    /\ UNCHANGED <<closeVars, agreed, sess, linked, toTaker, proposals>>

Drops(s) ==
    /\ MakerPops(s) /\ toMaker[s][1].kind = "rollOver"
    /\ dropped' = dropped \cup {toMaker[s][1].n}
    /\ UNCHANGED <<closeVars, pending, agreed, sess, linked, toTaker, proposals>>

Agrees ==
    /\ Is(pending["maker"], "settlement")
    /\ TakerGets(pending["maker"].sess, Msg("confirmSettlement", None))
    /\ agreed' # None /\ agreed'.n = pending["maker"].n
    /\ agreed'.sess = pending["maker"].sess
    /\ pending'["maker"] = None /\ pending'["taker"] = pending["taker"]
    /\ UNCHANGED <<closeVars, sess, linked, toMaker, dropped, proposals>>

(* A roll-over is taken for a settlement.                                  *)
Mistakes ==
    /\ Is(pending["maker"], "rollOver") /\ toTaker = <<>>
    /\ TakerGets(pending["maker"].sess, Msg("confirmSettlement", None))
    /\ UNCHANGED <<closeVars, pending, agreed, sess, linked, toMaker, dropped, proposals>>

Replies(m) ==
    /\ pending["maker"] # None
    /\ m.kind \in {"reject", "confirmRollOver"}
    /\ m.kind = "confirmRollOver" => pending["maker"].kind = "rollOver"
    /\ TakerGets(pending["maker"].sess, m)
    /\ pending'["maker"] = None /\ pending'["taker"] = pending["taker"]
    /\ UNCHANGED <<closeVars, agreed, sess, linked, toMaker, dropped, proposals>>

(* The taker's proposal is answered, and gone.                             *)
Ends ==
    /\ TakerPops /\ toTaker[1].kind \in {"reject", "confirmRollOver"}
    /\ pending'["taker"] = None /\ pending'["maker"] = pending["maker"]
    /\ UNCHANGED <<closeVars, agreed, sess, linked, toMaker, dropped, proposals>>

(* An answer the taker can do nothing with.                                *)
Fails ==
    /\ TakerPops /\ toTaker[1].kind \in {"confirmSettlement", "confirmRollOver"}
    /\ \/ dropped' = dropped \cup NumberOf(pending["taker"])
       \/ /\ toTaker[1].kind = "confirmSettlement" /\ ~Is(pending["taker"], "settlement")
          /\ dropped' = dropped
    /\ UNCHANGED <<closeVars, pending, agreed, sess, linked, toMaker, proposals>>

Signs ==
    /\ TakerPops /\ toTaker[1].kind = "confirmSettlement"
    /\ Is(pending["taker"], "settlement")
    /\ MakerGets(Msg("signature", pending["taker"].n))
    /\ signed' = signed \cup {pending["taker"].n}
    /\ cfd'["taker"].cc = pending["taker"].n /\ cfd'["maker"] = cfd["maker"]
    /\ pending'["taker"] = None /\ pending'["maker"] = pending["maker"]
    /\ UNCHANGED <<agreed, sess, linked, dropped, proposals, spent, forgot>>

(* The CFD of one party changes; a close is kept, or lost for good.        *)
Moves(p) ==
    /\ cfd'[p].cc \in {None, cfd[p].cc}
    /\ cfd'[p].cc # cfd[p].cc => p \in forgot'
    /\ \A q \in Parties : q # p => cfd'[q] = cfd[q]
    /\ forgot \subseteq forgot'
    /\ spent' = spent \/ spent' = CommitTx
    /\ UNCHANGED <<pending, agreed, sess, linked, toMaker, toTaker, signed, dropped, proposals>>

Completes(s) ==
    /\ MakerPops(s) /\ toMaker[s][1].kind = "signature"
    /\ UNCHANGED <<pending, sess, linked, toTaker, signed, forgot, dropped, proposals>>
    /\ \/ UNCHANGED <<cfd, spent, agreed>>
       \/ /\ agreed # None /\ agreed.sess = s
          /\ cfd'["maker"].cc = agreed.n /\ cfd'["taker"] = cfd["taker"]
          /\ \/ UNCHANGED <<spent, agreed>>
             \/ spent = None /\ spent' = agreed.n /\ agreed' = None

Idles ==
    /\ linked' \in {linked, FALSE}
    /\ UNCHANGED <<closeVars, pending, agreed, sess, toMaker, toTaker, dropped, proposals>>

MakerBegins ==
    /\ pending'["maker"] = None /\ pending'["taker"] = pending["taker"] /\ agreed' = None
    /\ linked' = FALSE /\ \A s \in Sessions : toMaker'[s] = <<>>
    /\ UNCHANGED <<closeVars, sess, toTaker, dropped, proposals>>

(* The taker begins anew, perhaps after it sent a signature.               *)
TakerBegins ==
    /\ sess' = sess + 1 /\ toTaker' = <<>>
    /\ pending'["taker"] = None /\ pending'["maker"] = pending["maker"]
    /\ \/ UNCHANGED <<signed, forgot, toMaker>>
       \/ /\ toTaker # <<>> /\ Is(pending["taker"], "settlement")
          /\ MakerGets(Msg("signature", pending["taker"].n))
          /\ signed' = signed \cup {pending["taker"].n} /\ forgot' = forgot \cup {"taker"}
    /\ UNCHANGED <<cfd, spent, agreed, dropped, proposals>>

LEMMA Asking ==
    ASSUME TypeOK, NEW k \in {"settlement", "rollOver"}, NEW action \in {"Settle", "RollOver"},
           Propose(k, action)
    PROVE  TypeOK' /\ Asks(k)
  <1> USE TypesOf
  <1>1. proposals + 1 \in Numbers /\ proposals' = proposals + 1 /\ proposals' \in 0..MaxProposals
    BY BoundsAssumption DEF Propose, TypeOK, Numbers
  <1>2. /\ Proposal(k, proposals + 1, sess) \in Proposals
        /\ Msg(k, proposals + 1) \in ToMaker
    BY <1>1, ProposalTypes, MsgTypes
  <1>3. /\ pending' \in [Parties -> Option(Proposals)]
        /\ pending'["taker"] = Proposal(k, proposals + 1, sess)
        /\ pending'["maker"] = pending["maker"]
    BY <1>2 DEF Propose, SetPending, TypeOK, Option, Parties
  <1>4. MakerGets(Msg(k, proposals + 1)) /\ toMaker' \in [Sessions -> Seq(ToMaker)]
    BY <1>2, Sending DEF Propose
  <1>5. cfd["taker"].cc = None
    <2>1. Shown("taker") = "Open"
      BY Zenon DEF Propose, AvailableActions
    <2>2. pending["taker"] = None
      BY DEF Propose
    <2>3. cfd["taker"].kind = "Open"
      BY <2>1, <2>2 DEF Shown, Is
    <2> QED BY <2>1, <2>2, <2>3 DEF Shown, Is, IsOpen, HasCollaborativeClose
  <1>6. TypeOK'
    BY <1>1, <1>3, <1>4 DEF Propose, TypeOK
  <1> QED BY <1>1, <1>3, <1>4, <1>5, <1>6 DEF Propose, Asks, closeVars

LEMMA Inserting ==
    ASSUME TypeOK, NEW s \in Sessions,
           HandleProposeSettlement(s) \/ HandleProposeRollOver(s)
    PROVE  TypeOK' /\ (Inserts(s) \/ Drops(s))
  <1> USE TypesOf
  <1> DEFINE head == toMaker[s][1]
  <1>1. /\ MakerPops(s) /\ Head(toMaker[s]) = head /\ head.n \in Numbers
        /\ head.kind \in {"settlement", "rollOver"}
        /\ toMaker' \in [Sessions -> Seq(ToMaker)] /\ UNCHANGED <<sess, linked, toTaker>>
    BY Receiving, MsgTypes DEF HandleProposeSettlement, HandleProposeRollOver
  <1>2. \/ Insert(head.kind, s)
        \/ head.kind = "rollOver" /\ dropped' = dropped \cup {head.n} /\ UNCHANGED pending
    BY <1>1, Receiving DEF HandleProposeSettlement, HandleProposeRollOver
  <1>3. UNCHANGED <<cfd, agreed, tasks, rolling, watched, spent, proposals, joined, signed,
                    forgot, makerRestarts>>
    BY DEF HandleProposeSettlement, HandleProposeRollOver
  <1>4. CASE Insert(head.kind, s)
    <2>1. Proposal(head.kind, head.n, s) \in Proposals
      BY <1>1, ProposalTypes
    <2>2. /\ pending' \in [Parties -> Option(Proposals)]
          /\ pending'["taker"] = pending["taker"]
          /\ pending'["maker"] = Proposal(head.kind, head.n, s)
      BY <1>1, <1>4, <2>1 DEF Insert, SetPending, TypeOK, Option, Parties
    <2>3. /\ dropped' = dropped \cup NumberOf(pending["maker"])
          /\ NumberOf(pending["maker"]) \subseteq Numbers
      BY <1>4, NumberType DEF Insert
    <2>4. TypeOK'
      BY <1>1, <1>3, <2>2, <2>3 DEF TypeOK
    <2> QED BY <1>1, <1>3, <2>2, <2>3, <2>4 DEF Inserts, closeVars
  <1>5. CASE head.kind = "rollOver" /\ dropped' = dropped \cup {head.n} /\ UNCHANGED pending
    <2>1. TypeOK'
      BY <1>1, <1>3, <1>5 DEF TypeOK
    <2> QED BY <1>1, <1>3, <1>5, <2>1 DEF Drops, closeVars
  <1> QED BY <1>2, <1>4, <1>5

LEMMA Accepting ==
    ASSUME TypeOK, AcceptSettlement
    PROVE  TypeOK' /\ (Agrees \/ Mistakes)
  <1> USE TypesOf
  <1> DEFINE q == pending["maker"]
  <1>1. q \in Proposals /\ q # None /\ q.sess \in Sessions /\ q.n \in Numbers
        /\ q.kind \in {"settlement", "rollOver"}
    BY ProposalTypes DEF AcceptSettlement, Option
  <1>2. Msg("confirmSettlement", None) \in ToTaker
    BY MsgTypes
  <1>3. /\ TakerGets(q.sess, Msg("confirmSettlement", None)) /\ toTaker' \in Seq(ToTaker)
    BY <1>1, <1>2, Answering DEF AcceptSettlement
  <1>4. UNCHANGED <<cfd, tasks, rolling, watched, sess, linked, toMaker, spent, histVars>>
    BY DEF AcceptSettlement
  <1>5. CASE Is(q, "settlement")
    <2>1. /\ agreed' \in Agreements /\ agreed' # None
          /\ agreed'.n = q.n /\ agreed'.sess = q.sess
      BY <1>1, <1>5, ApartAssumption DEF AcceptSettlement, Agreements
    <2>2. /\ pending' \in [Parties -> Option(Proposals)]
          /\ pending'["taker"] = pending["taker"] /\ pending'["maker"] = None
      BY <1>5 DEF AcceptSettlement, SetPending, TypeOK, Option, Parties
    <2>3. TypeOK'
      BY <1>3, <1>4, <2>1, <2>2 DEF TypeOK, histVars, Option
    <2> QED BY <1>3, <1>4, <1>5, <2>1, <2>2, <2>3 DEF Agrees, closeVars, histVars
  <1>6. CASE ~Is(q, "settlement")
    <2>1. UNCHANGED <<agreed, pending>> /\ toTaker = <<>> /\ Is(q, "rollOver")
      BY <1>1, <1>6 DEF AcceptSettlement, Is
    <2>2. TypeOK'
      BY <1>3, <1>4, <2>1 DEF TypeOK, histVars
    <2> QED BY <1>3, <1>4, <2>1, <2>2 DEF Mistakes, closeVars, histVars
  <1> QED BY <1>5, <1>6

LEMMA Replying ==
    ASSUME TypeOK, RejectSettlement \/ AcceptRollOver \/ RejectRollOver
    PROVE  TypeOK' /\ \E m \in ToTaker : Replies(m)
  <1> USE TypesOf
  <1> DEFINE q == pending["maker"]
  <1>1. q \in Proposals /\ q # None /\ q.sess \in Sessions /\ q.n \in Numbers
    BY ProposalTypes DEF RejectSettlement, AcceptRollOver, RejectRollOver, Is, Option
  <1>2. PICK m \in ToTaker :
          /\ SendToTaker(q.sess, m) /\ m.kind \in {"reject", "confirmRollOver"}
          /\ m.kind = "confirmRollOver" => q.kind = "rollOver"
    <2>1. CASE RejectSettlement \/ RejectRollOver
      <3>1. Msg("reject", None) \in ToTaker /\ Msg("reject", None).kind = "reject"
        BY MsgTypes
      <3> QED BY <2>1, <3>1 DEF RejectSettlement, RejectRollOver
    <2>2. CASE AcceptRollOver
      <3>1. /\ Msg("confirmRollOver", q.n) \in ToTaker
            /\ Msg("confirmRollOver", q.n).kind = "confirmRollOver"
        BY <1>1, MsgTypes
      <3> QED BY <2>2, <3>1 DEF AcceptRollOver, Is
    <2> QED BY <2>1, <2>2
  <1>3. TakerGets(q.sess, m) /\ toTaker' \in Seq(ToTaker)
    BY <1>1, <1>2, Answering
  <1>4. /\ pending' \in [Parties -> Option(Proposals)]
        /\ pending'["taker"] = pending["taker"] /\ pending'["maker"] = None
    BY DEF RejectSettlement, AcceptRollOver, RejectRollOver, SetPending, TypeOK, Option, Parties
  <1>5. tasks' \in [Parties -> SUBSET Numbers]
    <2>1. tasks["maker"] \cup {q.n} \in SUBSET Numbers /\ tasks \in [Parties -> SUBSET Numbers]
      BY <1>1 DEF TypeOK
    <2>2. \/ tasks' = tasks
          \/ tasks' = [tasks EXCEPT !["maker"] = tasks["maker"] \cup {q.n}]
      BY DEF RejectSettlement, AcceptRollOver, RejectRollOver
    <2> QED BY <2>1, <2>2, SetOne
  <1>6. UNCHANGED <<cfd, agreed, rolling, watched, sess, linked, toMaker, spent, histVars>>
    BY DEF RejectSettlement, AcceptRollOver, RejectRollOver
  <1>7. TypeOK'
    BY <1>3, <1>4, <1>5, <1>6 DEF TypeOK, histVars
  <1>8. Replies(m)
    BY <1>1, <1>2, <1>3, <1>4, <1>6 DEF Replies, closeVars, histVars
  <1> QED BY <1>7, <1>8

LEMMA Ending ==
    ASSUME TypeOK, Rejected \/ RollOverAccepted
    PROVE  TypeOK' /\ (Ends \/ Fails)
  <1> USE TypesOf
  <1>1. /\ TakerPops /\ toTaker' \in Seq(ToTaker) /\ Head(toTaker) = toTaker[1]
        /\ toTaker[1].kind \in {"reject", "confirmRollOver"}
        /\ toTaker[1].kind = "confirmRollOver" => toTaker[1].n \in Numbers
    BY Hearing, MsgTypes DEF Rejected, RollOverAccepted
  <1>2. UNCHANGED <<agreed, sess, linked, spent, proposals, forgot, makerRestarts, cfd,
                    watched, toMaker, signed>>
    BY DEF Rejected, RollOverAccepted, FailsToAccept, histVars
  <1>3. CASE Rejected
    <2>1. /\ pending' \in [Parties -> Option(Proposals)]
          /\ pending'["taker"] = None /\ pending'["maker"] = pending["maker"]
          /\ UNCHANGED <<tasks, rolling, joined, dropped>>
      BY <1>3 DEF Rejected, SetPending, TypeOK, Option, Parties, histVars
    <2>2. TypeOK'
      BY <1>1, <1>2, <2>1 DEF TypeOK
    <2> QED BY <1>1, <1>2, <2>1, <2>2 DEF Ends, closeVars
  <1>4. CASE RollOverAccepted /\ ~rolling /\ IsOpen("taker")
    <2>1. /\ pending' \in [Parties -> Option(Proposals)]
          /\ pending'["taker"] = None /\ pending'["maker"] = pending["maker"]
      BY <1>4 DEF RollOverAccepted, SetPending, TypeOK, Option, Parties
    <2>2. toTaker[1].n \in Numbers
      BY <1>1, <1>4, Hearing DEF RollOverAccepted
    <2>3. /\ tasks' = [tasks EXCEPT !["taker"] = tasks["taker"] \cup {toTaker[1].n}]
          /\ tasks \in [Parties -> SUBSET Numbers]
          /\ tasks["taker"] \cup {toTaker[1].n} \in SUBSET Numbers
      BY <1>1, <1>4, <2>2 DEF RollOverAccepted, TypeOK
    <2>4. tasks' \in [Parties -> SUBSET Numbers]
      BY <2>3, SetOne
    <2>5. /\ joined' = joined \cup {toTaker[1].n} /\ rolling' = TRUE /\ dropped' = dropped
      BY <1>1, <1>4 DEF RollOverAccepted
    <2>6. TypeOK'
      BY <1>1, <1>2, <2>1, <2>2, <2>4, <2>5 DEF TypeOK
    <2> QED BY <1>1, <1>2, <2>1, <2>5, <2>6 DEF Ends, closeVars
  <1>5. CASE RollOverAccepted /\ ~(~rolling /\ IsOpen("taker"))
    <2>1. /\ dropped' = dropped \cup NumberOf(pending["taker"])
          /\ UNCHANGED <<pending, tasks, rolling, joined>>
      BY <1>5 DEF RollOverAccepted, FailsToAccept
    <2>2. NumberOf(pending["taker"]) \subseteq Numbers
      BY NumberType
    <2>3. TypeOK'
      BY <1>1, <1>2, <2>1, <2>2 DEF TypeOK
    <2>4. toTaker[1].kind = "confirmRollOver"
      BY <1>5, Hearing DEF RollOverAccepted
    <2> QED BY <1>1, <1>2, <2>1, <2>3, <2>4 DEF Fails, closeVars
  <1> QED BY <1>3, <1>4, <1>5

LEMMA Signing ==
    ASSUME TypeOK, SettlementAccepted
    PROVE  TypeOK' /\ (Signs \/ Fails)
  <1> USE TypesOf
  <1> DEFINE q == pending["taker"]
  <1>1. /\ TakerPops /\ toTaker' \in Seq(ToTaker) /\ toTaker[1].kind = "confirmSettlement"
    BY Hearing DEF SettlementAccepted
  <1>2. UNCHANGED <<agreed, sess, linked, spent, proposals, forgot, makerRestarts>>
    BY DEF SettlementAccepted
  <1>3. \/ /\ CanSign
           /\ SendToMaker(Msg("signature", q.n)) /\ signed' = signed \cup {q.n}
           /\ SetCfd("taker", AfterProposalSigned(cfd["taker"], q.n))
           /\ SetPending("taker", None) /\ Watch("taker", q.n)
           /\ UNCHANGED <<tasks, rolling, joined, dropped>>
        \/ /\ \/ dropped' = dropped \cup NumberOf(q)
              \/ ~Is(q, "settlement") /\ dropped' = dropped
           /\ UNCHANGED <<cfd, pending, tasks, rolling, watched, toMaker, joined, signed>>
    BY DEF SettlementAccepted, FailsToAccept
  <1>4. CASE /\ CanSign
             /\ SendToMaker(Msg("signature", q.n)) /\ signed' = signed \cup {q.n}
             /\ SetCfd("taker", AfterProposalSigned(cfd["taker"], q.n))
             /\ SetPending("taker", None) /\ Watch("taker", q.n)
             /\ UNCHANGED <<tasks, rolling, joined, dropped>>
    <2>1. q.n \in Numbers /\ Msg("signature", q.n) \in ToMaker /\ Is(q, "settlement")
          /\ IsOpen("taker")
      BY <1>4, ProposalTypes, MsgTypes DEF CanSign, Is, Option
    <2>2. MakerGets(Msg("signature", q.n)) /\ toMaker' \in [Sessions -> Seq(ToMaker)]
      BY <1>4, <2>1, Sending
    <2>3. /\ cfd' \in [Parties -> CfdStates] /\ cfd'["taker"].cc = q.n
          /\ cfd'["maker"] = cfd["maker"]
      BY <1>4, <2>1, Records
    <2>4. /\ pending' \in [Parties -> Option(Proposals)]
          /\ pending'["taker"] = None /\ pending'["maker"] = pending["maker"]
      BY <1>4 DEF SetPending, TypeOK, Option, Parties
    <2>5. watched' \in [Parties -> SUBSET Numbers]
      <3>1. /\ watched' = [watched EXCEPT !["taker"] = watched["taker"] \cup {q.n}]
            /\ watched \in [Parties -> SUBSET Numbers]
            /\ watched["taker"] \cup {q.n} \in SUBSET Numbers
        BY <1>4, <2>1 DEF Watch, TypeOK
      <3> QED BY <3>1, SetOne
    <2>6. TypeOK'
      BY <1>1, <1>2, <1>4, <2>1, <2>2, <2>3, <2>4, <2>5 DEF TypeOK
    <2> QED BY <1>1, <1>2, <1>4, <2>1, <2>2, <2>3, <2>4, <2>6 DEF Signs
  <1>5. CASE /\ \/ dropped' = dropped \cup NumberOf(q)
                \/ ~Is(q, "settlement") /\ dropped' = dropped
             /\ UNCHANGED <<cfd, pending, tasks, rolling, watched, toMaker, joined, signed>>
    <2>1. NumberOf(q) \subseteq Numbers
      BY NumberType
    <2>2. TypeOK'
      BY <1>1, <1>2, <1>5, <2>1 DEF TypeOK
    <2> QED BY <1>1, <1>2, <1>5, <2>2 DEF Fails, closeVars
  <1> QED BY <1>3, <1>4, <1>5

LEMMA Moving ==
    ASSUME TypeOK, NEW p \in Parties,
           \/ \E n \in Numbers : RollOverCompleted(p, n)
           \/ Commit(p) \/ CommitFinality(p) \/ CloseFinality(p) \/ OracleAttestation(p)
    PROVE  TypeOK' /\ Moves(p)
  <1>1. PICK after \in CfdStates :
          /\ cfd' = [cfd EXCEPT ![p] = after] /\ after.cc \in {None, cfd[p].cc}
          /\ Forgets(p, after)
    <2>1. CASE \E n \in Numbers : RollOverCompleted(p, n)
      <3>1. PICK n \in Numbers : RollOverCompleted(p, n)
        BY <2>1
      <3>2. n \in {0} \cup Numbers /\ None \in Option({"attested"}) /\ None \in Option(Numbers)
        BY DEF Option
      <3>3. Open(n, None, None) \in CfdStates /\ Open(n, None, None).cc = None
        BY <3>2, IsState, Zenon
      <3> QED BY <3>1, <3>3 DEF RollOverCompleted, SetCfd
    <2>2. CASE Commit(p)
      BY <2>2, Commits DEF Commit
    <2>3. CASE CommitFinality(p)
      BY <2>3, MovesState DEF CommitFinality, Happens
    <2>4. CASE CloseFinality(p)
      BY <2>4, MovesState DEF CloseFinality, Happens
    <2>5. CASE OracleAttestation(p)
      BY <2>5, MovesState DEF OracleAttestation, Happens
    <2> QED BY <2>1, <2>2, <2>3, <2>4, <2>5
  <1>2. UNCHANGED <<pending, agreed, watched, wireVars, proposals, joined, signed, dropped,
                    makerRestarts>>
    BY DEF RollOverCompleted, Commit, CommitFinality, CloseFinality, OracleAttestation, Happens
  <1>3. spent' = spent \/ spent' = CommitTx
    BY DEF RollOverCompleted, Commit, CommitFinality, CloseFinality, OracleAttestation, Happens
  <1>4. tasks' \in [Parties -> SUBSET Numbers] /\ rolling' \in BOOLEAN
    <2>1. CASE \E n \in Numbers : RollOverCompleted(p, n)
      <3>1. PICK n \in Numbers : RollOverCompleted(p, n)
        BY <2>1
      <3>2. /\ tasks' = [tasks EXCEPT ![p] = tasks[p] \ {n}]
            /\ tasks \in [Parties -> SUBSET Numbers]
            /\ tasks[p] \ {n} \in SUBSET Numbers
        BY <3>1 DEF RollOverCompleted, TypeOK
      <3>3. rolling' \in BOOLEAN
        BY <3>1 DEF RollOverCompleted
      <3> QED BY <3>2, <3>3, SetOne
    <2>2. CASE Commit(p) \/ CommitFinality(p) \/ CloseFinality(p) \/ OracleAttestation(p)
      BY <2>2 DEF Commit, CommitFinality, CloseFinality, OracleAttestation, Happens, TypeOK
    <2> QED BY <2>1, <2>2
  <1>5. /\ cfd' \in [Parties -> CfdStates] /\ cfd'[p] = after
        /\ \A q \in Parties : q # p => cfd'[q] = cfd[q]
    BY <1>1, SetOne DEF TypeOK
  <1>6. /\ forgot \subseteq forgot' /\ forgot' \subseteq Parties
        /\ after.cc # cfd[p].cc => p \in forgot'
    BY <1>1 DEF Forgets, HasCollaborativeClose, TypeOK
  <1>7. TypeOK'
    BY <1>2, <1>3, <1>4, <1>5, <1>6 DEF TypeOK, wireVars, Option
  <1>8. Moves(p)
    BY <1>1, <1>2, <1>3, <1>5, <1>6 DEF Moves, wireVars
  <1> QED BY <1>7, <1>8

LEMMA Completing ==
    ASSUME TypeOK, NEW s \in Sessions, InitiateSettlement(s)
    PROVE  TypeOK' /\ Completes(s)
  <1> USE TypesOf
  <1>1. /\ MakerPops(s) /\ toMaker[s][1].kind = "signature"
        /\ toMaker' \in [Sessions -> Seq(ToMaker)] /\ UNCHANGED <<sess, linked, toTaker>>
    BY Receiving DEF InitiateSettlement
  <1>2. UNCHANGED <<pending, tasks, rolling, histVars>>
    BY DEF InitiateSettlement
  <1>3. \/ UNCHANGED <<cfd, spent, watched, agreed>>
        \/ /\ agreed # None /\ agreed.sess = s /\ IsOpen("maker")
           /\ SetCfd("maker", AfterProposalSigned(cfd["maker"], agreed.n))
           /\ \/ spent = None /\ spent' = agreed.n /\ agreed' = None /\ Watch("maker", agreed.n)
              \/ UNCHANGED <<spent, watched, agreed>>
    BY DEF InitiateSettlement
  <1>4. CASE UNCHANGED <<cfd, spent, watched, agreed>>
    <2>1. TypeOK'
      BY <1>1, <1>2, <1>4 DEF TypeOK, histVars
    <2> QED BY <1>1, <1>2, <1>4, <2>1 DEF Completes, histVars
  <1>5. CASE /\ agreed # None /\ agreed.sess = s /\ IsOpen("maker")
             /\ SetCfd("maker", AfterProposalSigned(cfd["maker"], agreed.n))
             /\ \/ spent = None /\ spent' = agreed.n /\ agreed' = None /\ Watch("maker", agreed.n)
                \/ UNCHANGED <<spent, watched, agreed>>
    <2>1. agreed.n \in Numbers
      BY <1>5 DEF Option, Agreements
    <2>2. /\ cfd' \in [Parties -> CfdStates] /\ cfd'["maker"].cc = agreed.n
          /\ cfd'["taker"] = cfd["taker"]
      BY <1>5, <2>1, Records
    <2>3. watched' \in [Parties -> SUBSET Numbers]
      <3>1. /\ \/ watched' = watched
               \/ watched' = [watched EXCEPT !["maker"] = watched["maker"] \cup {agreed.n}]
            /\ watched \in [Parties -> SUBSET Numbers]
            /\ watched["maker"] \cup {agreed.n} \in SUBSET Numbers
        BY <1>5, <2>1 DEF Watch, TypeOK
      <3> QED BY <3>1, SetOne
    <2>4. /\ \/ UNCHANGED <<spent, agreed>>
             \/ spent = None /\ spent' = agreed.n /\ agreed' = None
          /\ agreed' \in Option(Agreements) /\ spent' \in Option({CommitTx} \cup Numbers)
      BY <1>5, <2>1 DEF TypeOK, Option
    <2>5. TypeOK'
      BY <1>1, <1>2, <2>2, <2>3, <2>4 DEF TypeOK, histVars
    <2>6. Completes(s)
      BY <1>1, <1>2, <1>5, <2>2, <2>4 DEF Completes, histVars
    <2> QED BY <2>5, <2>6
  <1> QED BY <1>3, <1>4, <1>5

LEMMA Idling ==
    ASSUME TypeOK,
           \/ \E p \in Parties, n \in Numbers : RollOverFailed(p, n)
           \/ LinkDrops \/ UNCHANGED vars
    PROVE  TypeOK' /\ Idles
  <1>1. CASE LinkDrops
    BY <1>1 DEF LinkDrops, actorVars, histVars, TypeOK, Idles, closeVars
  <1>2. CASE UNCHANGED vars
    BY <1>2 DEF vars, actorVars, wireVars, histVars, TypeOK, Idles, closeVars
  <1>3. CASE \E p \in Parties, n \in Numbers : RollOverFailed(p, n)
    <2>1. PICK p \in Parties, n \in Numbers : RollOverFailed(p, n)
      BY <1>3
    <2>2. /\ tasks' = [tasks EXCEPT ![p] = tasks[p] \ {n}]
          /\ tasks \in [Parties -> SUBSET Numbers]
          /\ tasks[p] \ {n} \in SUBSET Numbers
      BY <2>1 DEF RollOverFailed, TypeOK
    <2>3. tasks' \in [Parties -> SUBSET Numbers]
      BY <2>2, SetOne
    <2> QED BY <2>1, <2>3 DEF RollOverFailed, wireVars, histVars, TypeOK, Idles, closeVars
  <1> QED BY <1>1, <1>2, <1>3

LEMMA Starting ==
    ASSUME TypeOK, NEW p \in Parties, StartsAnew(p)
    PROVE  /\ pending' \in [Parties -> Option(Proposals)] /\ pending'[p] = None
           /\ \A q \in Parties : q # p => pending'[q] = pending[q]
           /\ tasks' \in [Parties -> SUBSET Numbers]
           /\ watched' \in [Parties -> SUBSET Numbers]
  <1>1. /\ pending' = [pending EXCEPT ![p] = None] /\ None \in Option(Proposals)
        /\ tasks' = [tasks EXCEPT ![p] = {}]
        /\ watched' = [watched EXCEPT ![p] = {cfd[p].cc} \ {None}]
    BY DEF StartsAnew, SetPending, Option
  <1>2. {cfd[p].cc} \ {None} \in SUBSET Numbers
    BY TypesOf, Carries DEF Option
  <1> QED BY <1>1, <1>2, SetOne DEF TypeOK

LEMMA MakerStarting ==
    ASSUME TypeOK, MakerRestarts
    PROVE  TypeOK' /\ MakerBegins
  <1> USE TypesOf
  <1>1. /\ pending' \in [Parties -> Option(Proposals)] /\ pending'["maker"] = None
        /\ pending'["taker"] = pending["taker"]
        /\ tasks' \in [Parties -> SUBSET Numbers]
        /\ watched' \in [Parties -> SUBSET Numbers]
    BY Starting DEF MakerRestarts
  <1>2. /\ toMaker' \in [Sessions -> Seq(ToMaker)] /\ \A s \in Sessions : toMaker'[s] = <<>>
    BY DEF MakerRestarts
  <1>3. makerRestarts' \in 0..MaxMakerRestarts
    BY BoundsAssumption DEF MakerRestarts, TypeOK
  <1>4. /\ agreed' = None /\ linked' = FALSE
        /\ UNCHANGED <<cfd, rolling, sess, toTaker, spent, proposals, joined, signed, forgot,
                       dropped>>
    BY DEF MakerRestarts
  <1>5. TypeOK'
    BY <1>1, <1>2, <1>3, <1>4 DEF TypeOK, Option
  <1> QED BY <1>1, <1>2, <1>4, <1>5 DEF MakerBegins, closeVars

LEMMA TakerStarting ==
    ASSUME TypeOK, TakerRestarts \/ TakerDiesSigning
    PROVE  TypeOK' /\ TakerBegins
  <1> USE TypesOf
  <1> DEFINE q == pending["taker"]
  <1>1. /\ pending' \in [Parties -> Option(Proposals)] /\ pending'["taker"] = None
        /\ pending'["maker"] = pending["maker"]
        /\ tasks' \in [Parties -> SUBSET Numbers]
        /\ watched' \in [Parties -> SUBSET Numbers]
    BY Starting DEF TakerRestarts, TakerDiesSigning, TakerConnects
  <1>2. /\ sess' \in Sessions /\ sess' = sess + 1 /\ linked' = TRUE /\ rolling' = FALSE
        /\ toTaker' = <<>> /\ toTaker' \in Seq(ToTaker)
    <2>1. /\ sess < MaxSessions /\ sess' = sess + 1 /\ linked' = TRUE /\ rolling' = FALSE
          /\ toTaker' = <<>>
      BY DEF TakerRestarts, TakerDiesSigning, TakerConnects
    <2>2. sess' \in Sessions
      BY <2>1, BoundsAssumption DEF Sessions
    <2> QED BY <2>1, <2>2
  <1>3. UNCHANGED <<cfd, agreed, spent, proposals, joined, dropped, makerRestarts>>
    BY DEF TakerRestarts, TakerDiesSigning, histVars
  <1>4. CASE TakerRestarts
    <2>1. UNCHANGED <<signed, forgot, toMaker>>
      BY <1>4 DEF TakerRestarts, histVars
    <2>2. TypeOK'
      BY <1>1, <1>2, <1>3, <2>1 DEF TypeOK
    <2> QED BY <1>1, <1>2, <1>3, <2>1, <2>2 DEF TakerBegins
  <1>5. CASE TakerDiesSigning
    <2>1. q.n \in Numbers /\ Msg("signature", q.n) \in ToMaker /\ Is(q, "settlement")
      BY <1>5, ProposalTypes, MsgTypes DEF TakerDiesSigning, CanSign, Is, Option
    <2>2. MakerGets(Msg("signature", q.n)) /\ toMaker' \in [Sessions -> Seq(ToMaker)]
      BY <1>5, <2>1, Sending DEF TakerDiesSigning
    <2>3. /\ signed' = signed \cup {q.n} /\ forgot' = forgot \cup {"taker"} /\ toTaker # <<>>
      BY <1>5 DEF TakerDiesSigning
    <2>4. TypeOK'
      BY <1>1, <1>2, <1>3, <2>1, <2>2, <2>3 DEF TypeOK
    <2> QED BY <1>1, <1>2, <1>3, <2>1, <2>2, <2>3, <2>4 DEF TakerBegins
  <1> QED BY <1>4, <1>5

(* Every step keeps the types and does one of these things.                *)
LEMMA StepCases ==
    ASSUME TypeOK, [Next]_vars
    PROVE  /\ TypeOK'
           /\ \/ \E k \in {"settlement", "rollOver"} : Asks(k)
              \/ \E s \in Sessions : Inserts(s)
              \/ \E s \in Sessions : Drops(s)
              \/ Agrees \/ Mistakes
              \/ \E m \in ToTaker : Replies(m)
              \/ Ends \/ Fails \/ Signs
              \/ \E p \in Parties : Moves(p)
              \/ \E s \in Sessions : Completes(s)
              \/ Idles \/ MakerBegins \/ TakerBegins
  <1>1. CASE ProposeSettlement \/ ProposeRollOver
    BY <1>1, Asking DEF ProposeSettlement, ProposeRollOver
  <1>2. CASE \E s \in Sessions : HandleProposeSettlement(s) \/ HandleProposeRollOver(s)
    BY <1>2, Inserting
  <1>3. CASE AcceptSettlement
    BY <1>3, Accepting
  <1>4. CASE RejectSettlement \/ AcceptRollOver \/ RejectRollOver
    BY <1>4, Replying
  <1>5. CASE Rejected \/ RollOverAccepted
    BY <1>5, Ending
  <1>6. CASE SettlementAccepted
    BY <1>6, Signing
  <1>7. CASE \E p \in Parties :
               \/ \E n \in Numbers : RollOverCompleted(p, n)
               \/ Commit(p) \/ CommitFinality(p) \/ CloseFinality(p) \/ OracleAttestation(p)
    BY <1>7, Moving
  <1>8. CASE \E s \in Sessions : InitiateSettlement(s)
    BY <1>8, Completing
  <1>9. CASE \/ \E p \in Parties, n \in Numbers : RollOverFailed(p, n)
             \/ LinkDrops \/ UNCHANGED vars
    BY <1>9, Idling
  <1>10. CASE MakerRestarts
    BY <1>10, MakerStarting
  <1>11. CASE TakerRestarts \/ TakerDiesSigning
    BY <1>11, TakerStarting
  <1> QED BY <1>1, <1>2, <1>3, <1>4, <1>5, <1>6, <1>7, <1>8, <1>9, <1>10, <1>11, NextCases, Zenon

-----------------------------------------------------------------------------
(* The conjuncts of the invariant, one by one.                             *)

LEMMA TypesNext ==
    ASSUME TypeOK'
    PROVE  /\ \A p \in Parties : /\ cfd'[p] \in CfdStates
                                 /\ pending'[p] \in Option(Proposals)
           /\ sess' \in Sessions /\ sess' \in Nat /\ proposals' \in Nat
           /\ toTaker' \in Seq(ToTaker) /\ \A s \in Sessions : toMaker'[s] \in Seq(ToMaker)
           /\ agreed' \in Option(Agreements)
  BY BoundsAssumption DEF TypeOK, Sessions

(* The messages to the maker, before and after a step.                     *)
LEMMA Queues ==
    ASSUME TypeOK, TypeOK', NEW s \in Sessions
    PROVE  /\ Len(toMaker[s]) \in Nat /\ Len(toMaker'[s]) \in Nat
           /\ \A i \in 1..Len(toMaker[s]) : toMaker[s][i] \in ToMaker
           /\ \A i \in 1..Len(toMaker'[s]) : toMaker'[s][i] \in ToMaker
           /\ Len(toTaker) \in Nat /\ Len(toTaker') \in Nat
           /\ toTaker # <<>> <=> Len(toTaker) # 0
           /\ toTaker' # <<>> <=> Len(toTaker') # 0
           /\ \A i \in 1..Len(toTaker) : toTaker[i] \in ToTaker
           /\ \A i \in 1..Len(toTaker') : toTaker'[i] \in ToTaker
  <1>1. /\ toMaker[s] \in Seq(ToMaker) /\ toMaker'[s] \in Seq(ToMaker)
        /\ toTaker \in Seq(ToTaker) /\ toTaker' \in Seq(ToTaker)
    BY TypesOf, TypesNext
  <1> QED BY <1>1, EmptySeq

LEMMA AskedAfter ==
    ASSUME TypeOK, TypeOK'
    PROVE  /\ \A k \in {"settlement", "rollOver"} : Asks(k) =>
                \A i \in Asked(sess)' :
                    \/ i = Len(toMaker[sess]) + 1 /\ toMaker'[sess][i] = Msg(k, proposals + 1)
                    \/ i \in Asked(sess)
           /\ \A s \in Sessions :
                /\ MakerPops(s) => \A i \in 1..Len(toMaker'[s]) :
                     toMaker'[s][i].kind # "signature" => i + 1 \in Asked(s)
                /\ MakerPops(s) /\ toMaker[s][1].kind # "signature" => 1 \in Asked(s)
  <1>1. ASSUME NEW k \in {"settlement", "rollOver"}, Asks(k), NEW i \in Asked(sess)'
        PROVE  \/ i = Len(toMaker[sess]) + 1 /\ toMaker'[sess][i] = Msg(k, proposals + 1)
               \/ i \in Asked(sess)
    <2>1. /\ sess' = sess /\ MakerGets(Msg(k, proposals + 1)) /\ Len(toMaker[sess]) \in Nat
          /\ i \in 1..Len(toMaker'[sess]) /\ toMaker'[sess][i].kind # "signature"
          /\ Len(toMaker'[sess]) \in Nat
      BY <1>1, TypesOf, Queues DEF Asks, Asked
    <2>2. CASE linked
      BY <2>1, <2>2 DEF Asked, MakerGets
    <2>3. CASE ~linked
      BY <2>1, <2>3 DEF Asked, MakerGets
    <2> QED BY <2>2, <2>3
  <1>2. ASSUME NEW s \in Sessions, MakerPops(s)
        PROVE  /\ \A i \in 1..Len(toMaker'[s]) :
                    toMaker'[s][i].kind # "signature" => i + 1 \in Asked(s)
               /\ toMaker[s][1].kind # "signature" => 1 \in Asked(s)
    BY <1>2 DEF MakerPops, Asked
  <1> QED BY <1>1, <1>2

LEMMA Distinct ==
    ASSUME TypeOK
    PROVE  /\ \A i \in Asked(sess) :
                /\ toMaker[sess][i].kind \in {"settlement", "rollOver"}
                /\ toMaker[sess][i].n \in Numbers
                /\ Proposal(toMaker[sess][i].kind, toMaker[sess][i].n, sess) # None
           /\ \A p \in Parties : pending[p] # None => pending[p] \in Proposals
  <1>1. \A i \in Asked(sess) : toMaker[sess][i] \in ToMaker
    BY TypesOf DEF Asked
  <1>2. \A i \in Asked(sess) : /\ toMaker[sess][i].kind \in {"settlement", "rollOver"}
                               /\ toMaker[sess][i].n \in Numbers
    BY <1>1, MsgTypes DEF Asked
  <1> QED BY <1>2, TypesOf, ProposalTypes DEF Option

(* Neither on its way nor with the maker.                                  *)
Over == Asked(sess) = {} /\ ~AtMaker

LEMMA OverStays ==
    ASSUME TypeOK, TypeOK', Over,
           \/ \E s \in Sessions : Inserts(s) \/ Drops(s) \/ Completes(s)
           \/ Agrees \/ Mistakes \/ \E m \in ToTaker : Replies(m)
           \/ Ends \/ Fails \/ Signs \/ Idles \/ MakerBegins
           \/ \E p \in Parties : Moves(p)
    PROVE  Over'
  <1>1. CASE \E s \in Sessions : Inserts(s) \/ Drops(s) \/ Completes(s)
    <2>1. PICK s \in Sessions : Inserts(s) \/ Drops(s) \/ Completes(s)
      BY <1>1
    <2>2. MakerPops(s) /\ UNCHANGED sess
      BY <2>1 DEF Inserts, Drops, Completes
    <2>3. Asked(sess)' = {}
      <3>1. CASE s = sess
        BY <2>2, <3>1, AskedAfter DEF Over, Asked
      <3>2. CASE s # sess
        BY <2>2, <3>2, TypesOf DEF MakerPops, Over, Asked
      <3> QED BY <3>1, <3>2
    <2>4. ~AtMaker'
      <3>1. CASE Inserts(s)
        <4>1. s # sess
          BY <3>1, AskedAfter DEF Inserts, Over
        <4>2. /\ toMaker[s][1].kind \in {"settlement", "rollOver"}
              /\ toMaker[s][1].n \in Numbers
          BY <3>1, Queues, MsgTypes DEF Inserts, MakerPops
        <4>3. pending'["maker"].sess = s
          BY <3>1, <4>2, ProposalTypes DEF Inserts
        <4> QED BY <2>2, <4>1, <4>3 DEF AtMaker
      <3>2. CASE Drops(s) \/ Completes(s)
        BY <3>2 DEF Drops, Completes, Over, AtMaker
      <3> QED BY <2>1, <3>1, <3>2
    <2> QED BY <2>3, <2>4 DEF Over
  <1>2. CASE Agrees \/ Mistakes \/ \E m \in ToTaker : Replies(m)
    BY <1>2 DEF Agrees, Mistakes, Replies, Over, AtMaker, Asked
  <1>3. CASE Ends \/ Fails \/ Idles \/ \E p \in Parties : Moves(p)
    BY <1>3 DEF Ends, Fails, Idles, Moves, Over, AtMaker, Asked
  <1>4. CASE Signs
    <2>1. Asked(sess)' = {}
      <3>1. /\ Len(toMaker[sess]) \in Nat /\ Len(toMaker'[sess]) \in Nat
            /\ sess' = sess /\ MakerGets(Msg("signature", pending["taker"].n))
            /\ Msg("signature", pending["taker"].n).kind = "signature"
        BY <1>4, Queues, TypesOf, Distinct, ProposalTypes, MsgTypes DEF Signs, Is
      <3>2. CASE linked
        <4>1. \A i \in 1..Len(toMaker[sess]) : toMaker[sess][i].kind = "signature"
          BY DEF Over, Asked
        <4>2. /\ Len(toMaker'[sess]) = Len(toMaker[sess]) + 1
              /\ toMaker'[sess][Len(toMaker[sess]) + 1].kind = "signature"
              /\ \A i \in 1..Len(toMaker[sess]) : toMaker'[sess][i] = toMaker[sess][i]
          BY <3>1, <3>2 DEF MakerGets
        <4>3. \A i \in 1..Len(toMaker'[sess]) : toMaker'[sess][i].kind = "signature"
          <5>1. ASSUME NEW i \in 1..Len(toMaker'[sess])
                PROVE  i \in 1..Len(toMaker[sess]) \/ i = Len(toMaker[sess]) + 1
            BY <3>1, <4>2
          <5> QED BY <4>1, <4>2, <5>1
        <4> QED BY <3>1, <4>3 DEF Asked
      <3>3. CASE ~linked
        BY <3>1, <3>3 DEF Over, Asked, MakerGets
      <3> QED BY <3>2, <3>3
    <2> QED BY <1>4, <2>1 DEF Signs, Over, AtMaker
  <1>5. CASE MakerBegins
    <2>1. toMaker'[sess'] = <<>>
      BY <1>5, TypesOf DEF MakerBegins
    <2> QED BY <1>5, <2>1 DEF MakerBegins, AtMaker, Over, Asked
  <1> QED BY <1>1, <1>2, <1>3, <1>4, <1>5

LEMMA OverAnew ==
    ASSUME TypeOK, TypeOK', OlderConnections, TakerBegins
    PROVE  Over' /\ toMaker'[sess'] = <<>>
  <1>1. toMaker'[sess'] = <<>>
    <2>1. /\ toMaker[sess'] = <<>> /\ sess' \in Sessions /\ sess' # sess
      BY TypesOf, TypesNext DEF OlderConnections, TakerBegins
    <2> QED BY <2>1 DEF TakerBegins, MakerGets
  <1>2. ~AtMaker'
    BY TypesOf, Distinct, ProposalTypes DEF OlderConnections, TakerBegins, AtMaker, Sessions
  <1> QED BY <1>1, <1>2 DEF Over, Asked

LEMMA OnePlaceStep ==
    ASSUME IInv, [Next]_vars
    PROVE  OnePlace'
  <1>1. TypeOK /\ TypeOK' /\ OnePlace
    BY StepCases DEF IInv
  <1>2. CASE \E k \in {"settlement", "rollOver"} : Asks(k)
    <2>1. PICK k \in {"settlement", "rollOver"} : Asks(k)
      BY <1>2
    <2>2. Asked(sess) = {} /\ ~AtMaker
      BY <1>1, <2>1, Distinct DEF Asks, OnePlace, AtMaker
    <2>3. \A i \in Asked(sess)' :
            i = Len(toMaker[sess]) + 1 /\ toMaker'[sess][i] = Msg(k, proposals + 1)
      BY <1>1, <2>1, <2>2, AskedAfter
    <2>4. /\ Msg(k, proposals + 1).kind = k /\ Msg(k, proposals + 1).n = proposals + 1
          /\ Proposal(k, proposals + 1, sess).sess = sess
          /\ Proposal(k, proposals + 1, sess).n = proposals + 1
      BY <1>1, <2>1, ProposalTypes, MsgTypes, TypesOf DEF Asks
    <2>5. ~AtMaker' /\ sess' = sess /\ proposals' \in Nat
      BY <1>1, <2>1, <2>2, TypesNext DEF Asks, AtMaker
    <2> QED BY <2>1, <2>3, <2>4, <2>5 DEF Asks, OnePlace
  <1>3. CASE \E s \in Sessions : Inserts(s)
    <2>1. PICK s \in Sessions : Inserts(s)
      BY <1>3
    <2> DEFINE q == Proposal(toMaker[s][1].kind, toMaker[s][1].n, s)
    <2>2. /\ pending'["maker"] = q /\ pending'["taker"] = pending["taker"] /\ MakerPops(s)
          /\ sess' = sess /\ proposals' = proposals /\ toMaker[s][1].kind # "signature"
      BY <2>1 DEF Inserts
    <2>3. CASE s = sess
      <3>1. 1 \in Asked(sess)
        BY <1>1, <2>2, <2>3, AskedAfter
      <3>2. pending["taker"] = q /\ \A j \in Asked(sess) : 1 = j
        BY <1>1, <2>3, <3>1 DEF OnePlace
      <3>3. Asked(sess)' = {}
        <4>1. \A i \in 1..Len(toMaker'[s]) : i \in Nat /\ i + 1 # 1
          OBVIOUS
        <4> QED BY <1>1, <2>2, <2>3, <3>2, <4>1, AskedAfter DEF Asked
      <3> HIDE DEF q
      <3> QED BY <1>1, <2>2, <3>2, <3>3 DEF OnePlace, AtMaker
    <2>4. CASE s # sess
      <3>1. q.sess = s
        BY <1>1, <2>1, ProposalTypes, MsgTypes, Queues DEF Inserts, MakerPops
      <3>2. Asked(sess)' = Asked(sess) /\ toMaker'[sess] = toMaker[sess]
        BY <1>1, <2>2, <2>4, TypesOf DEF MakerPops, Asked
      <3>3. ~AtMaker'
        BY <2>2, <2>4, <3>1 DEF AtMaker
      <3> HIDE DEF q
      <3> QED BY <1>1, <2>2, <3>2, <3>3 DEF OnePlace
    <2> QED BY <2>3, <2>4
  <1>4. CASE \E s \in Sessions : Drops(s) \/ Completes(s)
    <2>1. PICK s \in Sessions : Drops(s) \/ Completes(s)
      BY <1>4
    <2>2. MakerPops(s) /\ UNCHANGED <<pending, sess, proposals>>
      BY <2>1 DEF Drops, Completes
    <2>3. AtMaker' = AtMaker
      BY <2>2 DEF AtMaker
    <2>4. CASE s = sess
      <3>1. \A i \in Asked(sess)' : /\ i + 1 \in Asked(sess) /\ i \in Nat
                                    /\ toMaker'[sess][i] = toMaker[sess][i + 1]
        BY <1>1, <2>2, <2>4, AskedAfter DEF Asked, MakerPops
      <3> QED BY <1>1, <2>2, <2>3, <3>1 DEF OnePlace
    <2>5. CASE s # sess
      <3>1. Asked(sess)' = Asked(sess) /\ toMaker'[sess] = toMaker[sess]
        BY <1>1, <2>2, <2>5, TypesOf DEF MakerPops, Asked
      <3> QED BY <1>1, <2>2, <2>3, <3>1 DEF OnePlace
    <2> QED BY <2>4, <2>5
  <1>5. CASE Agrees \/ Mistakes \/ \E m \in ToTaker : Replies(m)
    BY <1>1, <1>5 DEF Agrees, Mistakes, Replies, OnePlace, AtMaker, Asked
  <1>6. CASE Ends
    <2>1. Asked(sess) = {} /\ ~AtMaker
      BY <1>6 DEF IInv, Answers, Ends, TakerPops
    <2> QED BY <1>1, <1>6, <2>1 DEF Ends, OnePlace, AtMaker, Asked
  <1>7. CASE Fails \/ Idles
    BY <1>1, <1>7 DEF Fails, Idles, OnePlace, AtMaker, Asked
  <1>8. CASE \E p \in Parties : Moves(p)
    BY <1>1, <1>8 DEF Moves, OnePlace, AtMaker, Asked
  <1>9. CASE Signs
    <2>1. Over
      <3>1. toTaker # <<>>
        BY <1>1, <1>9, Queues, TypesOf DEF Signs, TakerPops
      <3> QED BY <1>9, <3>1 DEF IInv, Answers, Signs, Over
    <2>2. Over'
      BY <1>1, <1>9, <2>1, OverStays
    <2> QED BY <1>1, <1>9, <2>2 DEF Signs, OnePlace, Over
  <1>10. CASE MakerBegins
    <2>1. toMaker'[sess'] = <<>>
      BY <1>1, <1>10, TypesOf DEF MakerBegins
    <2> QED BY <1>1, <1>10, <2>1 DEF MakerBegins, OnePlace, AtMaker, Asked
  <1>11. CASE TakerBegins
    <2>1. Over'
      BY <1>1, <1>11, OverAnew DEF IInv
    <2> QED BY <1>11, <2>1 DEF TakerBegins, OnePlace, Over
  <1> QED BY <1>1, <1>2, <1>3, <1>4, <1>5, <1>6, <1>7, <1>8, <1>9, <1>10, <1>11, StepCases,
             Zenon

LEMMA MakersIsTakers ==
    ASSUME IInv, AtMaker
    PROVE  /\ pending["maker"] = pending["taker"] /\ pending["taker"] # None
           /\ Asked(sess) = {}
           /\ \A i \in 1..Len(toTaker) : toTaker[i].kind \notin {"reject", "confirmRollOver"}
           /\ Is(pending["taker"], "settlement") => toTaker = <<>>
  BY DEF IInv, OnePlace, Answers, AtMaker

LEMMA AnswersStep ==
    ASSUME IInv, [Next]_vars
    PROVE  Answers'
  <1>1. /\ TypeOK /\ TypeOK' /\ Answers /\ Len(toTaker) \in Nat /\ Len(toTaker') \in Nat
        /\ (toTaker # <<>> <=> Len(toTaker) # 0) /\ (toTaker' # <<>> <=> Len(toTaker') # 0)
    BY StepCases, TypesOf, Queues DEF IInv
  <1>2. CASE \E k \in {"settlement", "rollOver"} : Asks(k)
    BY <1>1, <1>2 DEF Answers, Asks, Is
  <1>3. CASE \/ \E s \in Sessions : Inserts(s) \/ Drops(s) \/ Completes(s)
             \/ Idles \/ MakerBegins \/ \E p \in Parties : Moves(p)
    <2>1. toTaker' = toTaker /\ pending'["taker"] = pending["taker"] /\ (Over => Over')
      BY <1>1, <1>3, OverStays DEF Inserts, Drops, Completes, Idles, MakerBegins, Moves
    <2> QED BY <1>1, <2>1 DEF Answers, Is, Over
  <1>4. CASE Agrees \/ Mistakes \/ \E m \in ToTaker : Replies(m)
    <2>1. PICK m : /\ TakerGets(pending["maker"].sess, m)
                   /\ \/ m.kind = "confirmSettlement"
                      \/ m.kind \in {"reject", "confirmRollOver"} /\ pending'["maker"] = None
                   /\ Is(pending["maker"], "settlement") => pending'["maker"] = None
      BY <1>4, MsgTypes DEF Agrees, Mistakes, Replies, Is
    <2>2. /\ pending["maker"] # None /\ pending'["taker"] = pending["taker"] /\ sess' = sess
          /\ toMaker' = toMaker /\ Asked(sess)' = Asked(sess) /\ (Over => Over')
      BY <1>1, <1>4, OverStays DEF Agrees, Mistakes, Replies, Is, Asked
    <2>3. CASE AtMaker
      <3>1. /\ pending["maker"] = pending["taker"] /\ pending["taker"] # None
            /\ Asked(sess) = {} /\ (Is(pending["taker"], "settlement") => toTaker = <<>>)
            /\ \A i \in 1..Len(toTaker) : toTaker[i].kind \notin {"reject", "confirmRollOver"}
        BY <2>3, MakersIsTakers
      <3>2. CASE toTaker' = toTaker
        BY <1>1, <2>2, <3>1, <3>2 DEF Answers, Is
      <3>3. CASE toTaker' # toTaker
        <4>1. /\ Len(toTaker') = Len(toTaker) + 1 /\ toTaker'[Len(toTaker) + 1] = m
              /\ \A i \in 1..Len(toTaker) : toTaker'[i] = toTaker[i]
          BY <2>1, <3>3 DEF TakerGets
        <4>2. pending'["maker"] = None => ~AtMaker'
          BY DEF AtMaker
        <4>3. \A i \in 1..Len(toTaker') : toTaker'[i].kind \in {"reject", "confirmRollOver"} =>
                i = Len(toTaker') /\ ~AtMaker'
          BY <1>1, <2>1, <3>1, <4>1, <4>2
        <4>4. Is(pending["taker"], "settlement") => Len(toTaker') = 1 /\ ~AtMaker'
          BY <1>1, <2>1, <3>1, <4>1, <4>2
        <4> QED BY <1>1, <2>2, <3>1, <4>3, <4>4 DEF Answers, Is
      <3> QED BY <3>2, <3>3
    <2>4. CASE ~AtMaker
      <3>1. toTaker' = toTaker
        BY <2>1, <2>2, <2>4 DEF AtMaker, TakerGets
      <3> QED BY <1>1, <2>2, <3>1 DEF Answers, Is, Over
    <2> QED BY <2>3, <2>4
  <1>5. CASE Ends \/ Signs
    <2>1. Len(toTaker) = 1 /\ TakerPops
      <3>1. TakerPops /\ 1 \in 1..Len(toTaker)
        BY <1>5 DEF Ends, Signs, TakerPops
      <3>2. CASE Ends
        BY <1>1, <3>1, <3>2 DEF Answers, Ends
      <3>3. CASE Signs
        BY <1>1, <3>1, <3>3 DEF Answers, Signs
      <3> QED BY <1>5, <3>1, <3>2, <3>3
    <2>2. toTaker' = <<>>
      BY <1>1, <2>1 DEF TakerPops
    <2> QED BY <1>1, <2>2 DEF Answers
  <1>6. CASE Fails
    <2>1. TakerPops /\ pending' = pending /\ (Over => Over')
      BY <1>1, <1>6, OverStays DEF Fails
    <2>2. /\ Len(toTaker') = Len(toTaker) - 1
          /\ \A i \in 1..Len(toTaker') : i + 1 \in 1..Len(toTaker) /\ toTaker'[i] = toTaker[i + 1]
      BY <2>1 DEF TakerPops
    <2> QED BY <1>1, <2>1, <2>2 DEF Answers, Is, Over
  <1>7. CASE TakerBegins
    BY <1>1, <1>7 DEF TakerBegins, Answers
  <1> QED BY <1>1, <1>2, <1>3, <1>4, <1>5, <1>6, <1>7, StepCases, Zenon

LEMMA AgreementStep ==
    ASSUME IInv, [Next]_vars
    PROVE  Agreement'
  <1> DEFINE Waits == agreed # None /\ agreed.sess = sess /\ agreed.n \notin signed
  <1>1. /\ TypeOK /\ TypeOK' /\ Agreement /\ Len(toTaker) \in Nat /\ Len(toTaker') \in Nat
    BY StepCases, TypesOf, Queues DEF IInv
  <1>2. Waits => /\ Is(pending["taker"], "settlement") /\ pending["taker"].n = agreed.n
                 /\ Over /\ \A i \in 1..Len(toTaker) : toTaker[i].kind = "confirmSettlement"
    BY <1>1 DEF Agreement, Over
  <1>3. SUFFICES ASSUME Waits'
                 PROVE  /\ Is(pending'["taker"], "settlement")
                        /\ pending'["taker"].n = agreed'.n /\ Over'
                        /\ \A i \in 1..Len(toTaker') : toTaker'[i].kind = "confirmSettlement"
    BY DEF Agreement, Over, Is
  <1>4. CASE \E k \in {"settlement", "rollOver"} : Asks(k)
    BY <1>2, <1>3, <1>4 DEF Asks, Is, closeVars
  <1>5. CASE \/ \E s \in Sessions : Inserts(s) \/ Drops(s) \/ Completes(s)
             \/ Idles \/ \E p \in Parties : Moves(p)
    <2>1. /\ Waits /\ agreed' = agreed /\ toTaker' = toTaker
          /\ pending'["taker"] = pending["taker"]
      BY <1>3, <1>5 DEF Inserts, Drops, Completes, Idles, Moves, closeVars
    <2>2. Over'
      BY <1>1, <1>2, <1>5, <2>1, OverStays
    <2> QED BY <1>2, <2>1, <2>2 DEF Is
  <1>6. CASE Mistakes \/ \E m \in ToTaker : Replies(m)
    <2>1. /\ Waits /\ agreed' = agreed /\ pending'["taker"] = pending["taker"]
          /\ pending["maker"] # None /\ \E m : TakerGets(pending["maker"].sess, m)
      BY <1>3, <1>6 DEF Mistakes, Replies, closeVars, Is
    <2>2. toTaker' = toTaker
      BY <1>2, <2>1 DEF Over, AtMaker, TakerGets
    <2>3. Over'
      BY <1>1, <1>2, <1>6, <2>1, OverStays
    <2> QED BY <1>2, <2>1, <2>2, <2>3 DEF Is
  <1>7. CASE Agrees
    <2>1. AtMaker
      BY <1>3, <1>7 DEF Agrees, AtMaker, Is
    <2>2. pending["maker"] = pending["taker"] /\ Asked(sess) = {} /\ toTaker = <<>>
      BY <1>7, <2>1, MakersIsTakers DEF Agrees
    <2>3. Over'
      BY <1>7, <2>2 DEF Agrees, Over, AtMaker, Asked
    <2>4. \A i \in 1..Len(toTaker') : toTaker'[i].kind = "confirmSettlement"
      <3>1. TakerGets(pending["maker"].sess, Msg("confirmSettlement", None)) /\ Len(toTaker) = 0
        BY <1>7, <2>2, EmptySeq DEF Agrees
      <3>2. Msg("confirmSettlement", None).kind = "confirmSettlement"
        BY MsgTypes
      <3>3. CASE toTaker' = toTaker
        BY <3>1, <3>3
      <3>4. CASE toTaker' # toTaker
        BY <3>1, <3>2, <3>4 DEF TakerGets
      <3> QED BY <3>3, <3>4
    <2> QED BY <1>7, <2>2, <2>3, <2>4 DEF Agrees, Is
  <1>8. CASE Ends
    BY <1>2, <1>3, <1>8 DEF Ends, TakerPops, closeVars
  <1>9. CASE Fails
    <2>1. /\ Waits /\ agreed' = agreed /\ pending' = pending /\ TakerPops
      BY <1>3, <1>9 DEF Fails, closeVars
    <2>2. Over'
      BY <1>1, <1>2, <1>9, <2>1, OverStays
    <2>3. \A i \in 1..Len(toTaker') : toTaker'[i].kind = "confirmSettlement"
      BY <1>2, <2>1 DEF TakerPops
    <2> QED BY <1>2, <2>1, <2>2, <2>3 DEF Is
  <1>10. CASE Signs
    BY <1>2, <1>3, <1>10 DEF Signs
  <1>11. CASE MakerBegins
    BY <1>3, <1>11 DEF MakerBegins
  <1>12. CASE TakerBegins
    <2>1. agreed.sess \in Nat /\ agreed.sess <= sess /\ sess \in Nat
      BY <1>1, <1>3, <1>12, TypesOf
      DEF IInv, OlderConnections, TakerBegins, Option, Agreements, Sessions
    <2> QED BY <1>3, <1>12, <2>1 DEF TakerBegins
  <1> QED BY <1>1, <1>4, <1>5, <1>6, <1>7, <1>8, <1>9, <1>10, <1>11, <1>12, StepCases, Zenon

(* What a signature that is sent says.                                     *)
LEMMA SignatureSent ==
    ASSUME IInv, TypeOK', toTaker # <<>>, Is(pending["taker"], "settlement"),
           MakerGets(Msg("signature", pending["taker"].n)),
           signed' = signed \cup {pending["taker"].n},
           UNCHANGED agreed, pending'["maker"] = pending["maker"]
    PROVE  Signatures'
  <1> DEFINE m == Msg("signature", pending["taker"].n)
  <1>1. /\ TypeOK /\ Signatures /\ Over /\ Agreement
    BY DEF IInv, Answers, Over
  <1>2. pending["taker"].n \in Numbers /\ m.kind = "signature" /\ m.n = pending["taker"].n
    BY <1>1, TypesOf, Distinct, ProposalTypes, MsgTypes DEF Is
  <1>3. SUFFICES ASSUME NEW s \in Sessions, NEW i \in 1..Len(toMaker'[s]),
                        toMaker'[s][i].kind = "signature"
                 PROVE  /\ toMaker'[s][i].n \in signed'
                        /\ agreed # None /\ agreed.sess = s => agreed.n \in signed'
                        /\ Is(pending["maker"], "settlement") /\ pending["maker"].sess = s =>
                             pending["maker"].n \in signed'
                        /\ \A j \in 1..Len(toMaker'[s]) :
                             j < i /\ toMaker'[s][j].kind = "settlement" =>
                                toMaker'[s][j].n \in signed'
    BY DEF Signatures, Is
  <1>4. Len(toMaker[s]) \in Nat /\ Len(toMaker'[s]) \in Nat
    BY <1>1, Queues
  <1> HIDE DEF m
  <1>5. CASE s = sess /\ linked
    <2>1. /\ Len(toMaker'[s]) = Len(toMaker[s]) + 1 /\ toMaker'[s][Len(toMaker[s]) + 1] = m
          /\ \A j \in 1..Len(toMaker[s]) : toMaker'[s][j] = toMaker[s][j]
      BY <1>5 DEF MakerGets, m
    <2>2. CASE i = Len(toMaker[s]) + 1
      <3>1. \A j \in 1..Len(toMaker[s]) : toMaker[s][j].kind # "settlement"
        BY <1>1, <1>5 DEF Over, Asked
      <3>2. \A j \in 1..Len(toMaker'[s]) : j < i => toMaker'[s][j].kind # "settlement"
        BY <1>4, <2>1, <2>2, <3>1
      <3>3. agreed # None /\ agreed.sess = s => agreed.n \in signed'
        BY <1>1, <1>5 DEF Agreement
      <3>4. ~(Is(pending["maker"], "settlement") /\ pending["maker"].sess = s)
        BY <1>1, <1>5 DEF Over, AtMaker, Is
      <3> QED BY <1>2, <2>1, <2>2, <3>2, <3>3, <3>4
    <2>3. CASE i # Len(toMaker[s]) + 1
      <3>1. i \in 1..Len(toMaker[s]) /\ toMaker[s][i].kind = "signature"
            /\ toMaker'[s][i] = toMaker[s][i]
        BY <1>3, <1>4, <2>1, <2>3
      <3>2. \A j \in 1..Len(toMaker'[s]) : j < i =>
              j \in 1..Len(toMaker[s]) /\ toMaker'[s][j] = toMaker[s][j]
        BY <1>4, <2>1, <3>1
      <3> QED BY <1>1, <3>1, <3>2 DEF Signatures
    <2> QED BY <2>2, <2>3
  <1>6. CASE ~(s = sess /\ linked)
    <2>1. toMaker'[s] = toMaker[s]
      BY <1>6 DEF MakerGets
    <2> QED BY <1>1, <1>3, <2>1 DEF Signatures
  <1> QED BY <1>5, <1>6

LEMMA SignaturesStep ==
    ASSUME IInv, [Next]_vars
    PROVE  Signatures'
  <1>1. TypeOK /\ TypeOK' /\ Signatures
    BY StepCases DEF IInv
  <1>2. CASE \E k \in {"settlement", "rollOver"} : Asks(k)
    <2>1. PICK k \in {"settlement", "rollOver"} : Asks(k)
      BY <1>2
    <2>2. Msg(k, proposals + 1).kind = k /\ k # "signature"
      BY <2>1, MsgTypes DEF Asks
    <2>3. ASSUME NEW s \in Sessions, NEW i \in 1..Len(toMaker'[s]),
                 toMaker'[s][i].kind = "signature"
          PROVE  /\ i \in 1..Len(toMaker[s])
                 /\ \A j \in 1..Len(toMaker'[s]) : (j < i \/ j = i) =>
                      j \in 1..Len(toMaker[s]) /\ toMaker'[s][j] = toMaker[s][j]
      <3>1. /\ Len(toMaker[s]) \in Nat /\ Len(toMaker'[s]) \in Nat
            /\ MakerGets(Msg(k, proposals + 1))
        BY <1>1, <2>1, Queues DEF Asks
      <3>2. CASE s = sess /\ linked
        <4>1. /\ Len(toMaker'[s]) = Len(toMaker[s]) + 1
              /\ toMaker'[s][Len(toMaker[s]) + 1] = Msg(k, proposals + 1)
              /\ \A j \in 1..Len(toMaker[s]) : toMaker'[s][j] = toMaker[s][j]
          BY <3>1, <3>2 DEF MakerGets
        <4>2. i \in 1..Len(toMaker[s])
          BY <2>2, <2>3, <3>1, <4>1
        <4> QED BY <3>1, <4>1, <4>2
      <3>3. CASE ~(s = sess /\ linked)
        BY <3>1, <3>3 DEF MakerGets
      <3> QED BY <3>2, <3>3
    <2>4. UNCHANGED <<agreed, signed>> /\ pending'["maker"] = pending["maker"]
      BY <2>1 DEF Asks, closeVars
    <2>5. SUFFICES ASSUME NEW s \in Sessions, NEW i \in 1..Len(toMaker'[s]),
                          toMaker'[s][i].kind = "signature"
                   PROVE  /\ toMaker'[s][i].n \in signed
                          /\ agreed # None /\ agreed.sess = s => agreed.n \in signed
                          /\ Is(pending["maker"], "settlement") /\ pending["maker"].sess = s =>
                               pending["maker"].n \in signed
                          /\ \A j \in 1..Len(toMaker'[s]) :
                               j < i /\ toMaker'[s][j].kind = "settlement" =>
                                 toMaker'[s][j].n \in signed
      BY <2>4 DEF Signatures, Is
    <2>6. /\ i \in 1..Len(toMaker[s])
          /\ \A j \in 1..Len(toMaker'[s]) : (j < i \/ j = i) =>
               j \in 1..Len(toMaker[s]) /\ toMaker'[s][j] = toMaker[s][j]
      BY <2>3, <2>5
    <2> QED BY <1>1, <2>5, <2>6 DEF Signatures
  <1>3. CASE \E r \in Sessions : Inserts(r) \/ Drops(r) \/ Completes(r)
    <2>1. PICK r \in Sessions : Inserts(r) \/ Drops(r) \/ Completes(r)
      BY <1>3
    <2>2. MakerPops(r) /\ signed' = signed /\ agreed' \in {agreed, None}
      BY <2>1 DEF Inserts, Drops, Completes, closeVars
    <2>3. SUFFICES ASSUME NEW s \in Sessions, NEW i \in 1..Len(toMaker'[s]),
                          toMaker'[s][i].kind = "signature"
                   PROVE  /\ toMaker'[s][i].n \in signed
                          /\ agreed # None /\ agreed.sess = s => agreed.n \in signed
                          /\ Is(pending'["maker"], "settlement") /\ pending'["maker"].sess = s =>
                               pending'["maker"].n \in signed
                          /\ \A j \in 1..Len(toMaker'[s]) :
                               j < i /\ toMaker'[s][j].kind = "settlement" =>
                                  toMaker'[s][j].n \in signed
      BY <2>2 DEF Signatures, Is
    <2>4. Len(toMaker[s]) \in Nat /\ Len(toMaker'[s]) \in Nat
      BY <1>1, Queues
    <2>5. PICK d \in {0, 1} :
            /\ d = 1 <=> s = r
            /\ \A j \in 1..Len(toMaker'[s]) :
                 j + d \in 1..Len(toMaker[s]) /\ toMaker'[s][j] = toMaker[s][j + d]
      <3>1. CASE s = r
        BY <2>2, <3>1 DEF MakerPops
      <3>2. CASE s # r
        <4>1. /\ toMaker'[s] = toMaker[s]
              /\ \A j \in 1..Len(toMaker'[s]) : j + 0 = j
          BY <2>2, <2>4, <3>2 DEF MakerPops
        <4> QED BY <3>2, <4>1
      <3> QED BY <3>1, <3>2
    <2>6. /\ i + d \in 1..Len(toMaker[s]) /\ toMaker[s][i + d].kind = "signature"
          /\ toMaker'[s][i] = toMaker[s][i + d]
      BY <2>3, <2>5
    <2>7. /\ toMaker[s][i + d].n \in signed
          /\ agreed # None /\ agreed.sess = s => agreed.n \in signed
          /\ Is(pending["maker"], "settlement") /\ pending["maker"].sess = s =>
               pending["maker"].n \in signed
          /\ \A j \in 1..Len(toMaker[s]) :
               j < i + d /\ toMaker[s][j].kind = "settlement" => toMaker[s][j].n \in signed
      BY <1>1, <2>6 DEF Signatures
    <2>8. \A j \in 1..Len(toMaker'[s]) :
            j < i /\ toMaker'[s][j].kind = "settlement" => toMaker'[s][j].n \in signed
      <3>1. \A j \in 1..Len(toMaker'[s]) : j < i => j + d < i + d
        BY <2>4
      <3> QED BY <2>5, <2>7, <3>1
    <2>9. Is(pending'["maker"], "settlement") /\ pending'["maker"].sess = s =>
            pending'["maker"].n \in signed
      <3>1. CASE Drops(r) \/ Completes(r)
        BY <2>7, <3>1 DEF Drops, Completes
      <3>2. CASE Inserts(r)
        <4>1. toMaker[r][1] \in ToMaker /\ toMaker[r][1].kind \in {"settlement", "rollOver"}
          BY <1>1, <3>2, Queues DEF Inserts, MakerPops
        <4>2. /\ pending'["maker"].kind = toMaker[r][1].kind
              /\ pending'["maker"].n = toMaker[r][1].n /\ pending'["maker"].sess = r
          BY <3>2, <4>1, ProposalTypes, MsgTypes DEF Inserts
        <4>3. CASE s = r
          <5>1. 1 \in 1..Len(toMaker[s]) /\ 1 < i + d
            BY <2>2, <2>4, <2>5, <4>3 DEF MakerPops
          <5> QED BY <2>7, <4>2, <4>3, <5>1 DEF Is
        <4> QED BY <4>2, <4>3
      <3> QED BY <2>1, <3>1, <3>2
    <2> QED BY <2>6, <2>7, <2>8, <2>9
  <1>4. CASE Agrees
    <2>1. /\ toMaker' = toMaker /\ signed' = signed /\ pending'["maker"] = None
          /\ agreed'.n = pending["maker"].n /\ agreed'.sess = pending["maker"].sess
          /\ Is(pending["maker"], "settlement")
      BY <1>4 DEF Agrees, closeVars
    <2> QED BY <1>1, <2>1 DEF Signatures, Is
  <1>5. CASE \/ Mistakes \/ (\E m \in ToTaker : Replies(m)) \/ Ends \/ Fails \/ Idles
             \/ \E p \in Parties : Moves(p)
    <2>1. /\ UNCHANGED <<toMaker, signed, agreed>> /\ pending'["maker"] \in {pending["maker"], None}
      BY <1>5 DEF Mistakes, Replies, Ends, Fails, Idles, Moves, closeVars
    <2> QED BY <1>1, <2>1 DEF Signatures, Is
  <1>6. CASE Signs
    <2>1. toTaker # <<>>
      BY <1>1, <1>6, Queues, TypesOf DEF Signs, TakerPops
    <2> QED BY <1>1, <1>6, <2>1, SignatureSent DEF Signs
  <1>7. CASE MakerBegins
    BY <1>1, <1>7 DEF MakerBegins, Signatures
  <1>8. CASE TakerBegins
    <2>1. CASE UNCHANGED <<signed, forgot, toMaker>>
      BY <1>1, <1>8, <2>1 DEF TakerBegins, Signatures, Is
    <2>2. CASE ~UNCHANGED <<signed, forgot, toMaker>>
      BY <1>1, <1>8, <2>2, SignatureSent DEF TakerBegins
    <2> QED BY <2>1, <2>2
  <1> QED BY <1>1, <1>2, <1>3, <1>4, <1>5, <1>6, <1>7, <1>8, StepCases, Zenon

LEMMA NumbersOf ==
    ASSUME TypeOK
    PROVE  /\ NumberOf(None) = {}
           /\ \A p \in Parties : pending[p] # None =>
                /\ NumberOf(pending[p]) = {pending[p].n} /\ pending[p].n \in Numbers
                /\ pending[p].n \in Nat /\ pending[p].sess \in Sessions /\ pending[p].sess \in Nat
           /\ \A s \in Sessions : \A i \in 1..Len(toMaker[s]) : toMaker[s][i].n \in Nat
           /\ agreed # None =>
                agreed.n \in Numbers /\ agreed.sess \in Sessions /\ agreed.sess \in Nat
  <1>1. Numbers \subseteq Nat /\ Sessions \subseteq Nat
    BY BoundsAssumption DEF Numbers, Sessions
  <1>2. \A s \in Sessions : \A i \in 1..Len(toMaker[s]) : toMaker[s][i].n \in Nat
    <2>1. \A s \in Sessions : \A i \in 1..Len(toMaker[s]) : toMaker[s][i] \in ToMaker
      BY TypesOf
    <2> QED BY <1>1, <2>1, MsgTypes
  <1>3. \A p \in Parties : pending[p] # None =>
          /\ NumberOf(pending[p]) = {pending[p].n} /\ pending[p].n \in Numbers
          /\ pending[p].sess \in Sessions
    BY Distinct, ProposalTypes DEF NumberOf
  <1>4. agreed # None => agreed.n \in Numbers /\ agreed.sess \in Sessions
    BY TypesOf DEF Option, Agreements
  <1> QED BY <1>1, <1>2, <1>3, <1>4 DEF NumberOf

LEMMA OlderConnectionsStep ==
    ASSUME IInv, [Next]_vars
    PROVE  OlderConnections'
  <1>1. /\ TypeOK /\ TypeOK' /\ OlderConnections /\ OnePlace /\ proposals \in Nat /\ sess \in Nat
        /\ "maker" \in Parties /\ "taker" \in Parties
    BY StepCases, TypesOf DEF IInv
  <1>2. CASE \E k \in {"settlement", "rollOver"} : Asks(k)
    <2>1. PICK k \in {"settlement", "rollOver"} : Asks(k)
      BY <1>2
    <2>2. /\ Msg(k, proposals + 1).n = proposals + 1 /\ NumberOf(pending'["taker"]) = {proposals + 1}
          /\ sess' = sess /\ proposals' = proposals + 1 /\ pending'["maker"] = pending["maker"]
          /\ agreed' = agreed /\ MakerGets(Msg(k, proposals + 1))
      BY <1>1, <2>1, TypesOf, ProposalTypes, MsgTypes DEF Asks, NumberOf
    <2>3. ASSUME NEW s \in Sessions
          PROVE  /\ s > sess => toMaker'[s] = <<>>
                 /\ \A i \in 1..Len(toMaker'[s]) :
                      /\ toMaker'[s][i].n <= proposals + 1
                      /\ s # sess => toMaker'[s][i].n # proposals + 1
      <3>1. /\ \A i \in 1..Len(toMaker[s]) : toMaker[s][i].n <= proposals /\ toMaker[s][i].n \in Nat
            /\ s > sess => toMaker[s] = <<>>
            /\ Len(toMaker[s]) \in Nat /\ Len(toMaker'[s]) \in Nat /\ s \in Nat
        BY <1>1, NumbersOf, Queues DEF OlderConnections, Sessions
      <3>2. CASE s = sess /\ linked
        <4>1. /\ Len(toMaker'[s]) = Len(toMaker[s]) + 1
              /\ toMaker'[s][Len(toMaker[s]) + 1] = Msg(k, proposals + 1)
              /\ \A j \in 1..Len(toMaker[s]) : toMaker'[s][j] = toMaker[s][j]
          BY <2>2, <3>2 DEF MakerGets
        <4>2. \A i \in 1..Len(toMaker'[s]) :
                i \in 1..Len(toMaker[s]) \/ i = Len(toMaker[s]) + 1
          BY <3>1, <4>1
        <4>3. \A i \in 1..Len(toMaker'[s]) : toMaker'[s][i].n <= proposals + 1
          <5>1. \A i \in 1..Len(toMaker[s]) : toMaker'[s][i].n <= proposals + 1
            <6>1. \A x \in Nat : x <= proposals => x <= proposals + 1
              BY <1>1
            <6> QED BY <3>1, <4>1, <6>1
          <5>2. toMaker'[s][Len(toMaker[s]) + 1].n <= proposals + 1
            BY <1>1, <2>2, <4>1
          <5> QED BY <4>2, <5>1, <5>2
        <4> QED BY <1>1, <3>2, <4>3
      <3>3. CASE ~(s = sess /\ linked)
        <4>1. toMaker'[s] = toMaker[s]
          BY <2>2, <3>3 DEF MakerGets
        <4> QED BY <1>1, <3>1, <4>1
      <3> QED BY <3>2, <3>3
    <2>4. pending["maker"] # None =>
            /\ pending["maker"].sess <= sess /\ pending["maker"].n <= proposals + 1
            /\ pending["maker"].n # proposals + 1
      BY <1>1, NumbersOf DEF OlderConnections
    <2> QED BY <1>1, <2>2, <2>3, <2>4 DEF OlderConnections
  <1>3. CASE \E r \in Sessions : Inserts(r) \/ Drops(r) \/ Completes(r)
    <2>1. PICK r \in Sessions : Inserts(r) \/ Drops(r) \/ Completes(r)
      BY <1>3
    <2>2. /\ MakerPops(r) /\ UNCHANGED <<sess, proposals>> /\ pending'["taker"] = pending["taker"]
          /\ agreed' \in {agreed, None}
      BY <2>1 DEF Inserts, Drops, Completes
    <2>3. ASSUME NEW s \in Sessions
          PROVE  /\ s > sess => toMaker'[s] = <<>>
                 /\ \A i \in 1..Len(toMaker'[s]) :
                      \E j \in 1..Len(toMaker[s]) : toMaker'[s][i] = toMaker[s][j]
      <3>1. CASE s = r
        <4>1. ~(s > sess)
          BY <1>1, <2>2, <3>1, EmptySeq DEF MakerPops, OlderConnections
        <4> QED BY <2>2, <3>1, <4>1 DEF MakerPops
      <3>2. CASE s # r
        BY <1>1, <2>2, <3>2 DEF MakerPops, OlderConnections
      <3> QED BY <3>1, <3>2
    <2>4. \A s \in Sessions : \A i \in 1..Len(toMaker'[s]) :
            /\ toMaker'[s][i].n <= proposals
            /\ s # sess /\ toMaker'[s][i].kind # "signature" =>
                 toMaker'[s][i].n \notin NumberOf(pending["taker"])
      BY <1>1, <2>3 DEF OlderConnections
    <2>5. pending'["maker"] # None =>
            /\ pending'["maker"].sess <= sess /\ pending'["maker"].n <= proposals
            /\ pending'["maker"].sess # sess =>
                 pending'["maker"].n \notin NumberOf(pending["taker"])
      <3>1. CASE Drops(r) \/ Completes(r)
        BY <1>1, <3>1 DEF Drops, Completes, OlderConnections
      <3>2. CASE Inserts(r)
        <4>1. /\ 1 \in 1..Len(toMaker[r]) /\ toMaker[r][1] \in ToMaker
              /\ toMaker[r][1].kind \in {"settlement", "rollOver"}
          BY <1>1, <3>2, Queues DEF Inserts, MakerPops
        <4>2. pending'["maker"].n = toMaker[r][1].n /\ pending'["maker"].sess = r
          BY <3>2, <4>1, ProposalTypes, MsgTypes DEF Inserts
        <4>3. r <= sess
          <5>1. ~(r > sess) /\ r \in Nat
            BY <1>1, <4>1, EmptySeq DEF OlderConnections, Sessions
          <5> QED BY <1>1, <5>1
        <4>4. /\ toMaker[r][1].n <= proposals
              /\ r # sess => toMaker[r][1].n \notin NumberOf(pending["taker"])
          BY <1>1, <4>1 DEF OlderConnections
        <4> QED BY <4>2, <4>3, <4>4
      <3> QED BY <2>1, <3>1, <3>2
    <2> QED BY <1>1, <2>2, <2>3, <2>4, <2>5 DEF OlderConnections
  <1>4. CASE \/ Agrees \/ Mistakes \/ (\E m \in ToTaker : Replies(m)) \/ Ends \/ Fails \/ Idles
             \/ \E p \in Parties : Moves(p)
    <2>1. /\ UNCHANGED <<toMaker, sess, proposals>>
          /\ pending'["maker"] \in {pending["maker"], None}
          /\ pending'["taker"] \in {pending["taker"], None}
          /\ \/ agreed' = agreed
             \/ pending["maker"] # None /\ agreed'.sess = pending["maker"].sess
      BY <1>4 DEF Agrees, Mistakes, Replies, Ends, Fails, Idles, Moves, Is
    <2> QED BY <1>1, <2>1, NumbersOf DEF OlderConnections
  <1>5. CASE MakerBegins
    BY <1>1, <1>5 DEF MakerBegins, OlderConnections
  <1>6. CASE Signs \/ TakerBegins
    <2>1. /\ pending'["maker"] = pending["maker"] /\ pending'["taker"] = None
          /\ agreed' = agreed /\ proposals' = proposals
          /\ sess' = sess \/ (TakerBegins /\ sess' = sess + 1)
          /\ \/ toMaker' = toMaker
             \/ /\ Is(pending["taker"], "settlement")
                /\ MakerGets(Msg("signature", pending["taker"].n))
      <3>1. CASE Signs
        BY <3>1 DEF Signs
      <3>2. CASE TakerBegins
        BY <3>2 DEF TakerBegins
      <3> QED BY <1>6, <3>1, <3>2
    <2>2. ASSUME NEW s \in Sessions
          PROVE  /\ s > sess => toMaker'[s] = <<>>
                 /\ \A i \in 1..Len(toMaker'[s]) : toMaker'[s][i].n <= proposals
      <3>1. CASE toMaker'[s] = toMaker[s]
        BY <1>1, <3>1 DEF OlderConnections
      <3>2. CASE toMaker'[s] # toMaker[s]
        <4> DEFINE m == Msg("signature", pending["taker"].n)
        <4>1. /\ s = sess /\ linked /\ Is(pending["taker"], "settlement")
              /\ Len(toMaker'[s]) = Len(toMaker[s]) + 1 /\ toMaker'[s][Len(toMaker[s]) + 1] = m
              /\ \A j \in 1..Len(toMaker[s]) : toMaker'[s][j] = toMaker[s][j]
          BY <2>1, <3>2 DEF MakerGets
        <4>2. m.n <= proposals
          BY <1>1, <4>1, NumbersOf, MsgTypes DEF OnePlace, Is
        <4> HIDE DEF m
        <4>3. \A i \in 1..Len(toMaker'[s]) :
                i \in 1..Len(toMaker[s]) \/ i = Len(toMaker[s]) + 1
          BY <1>1, <4>1, Queues
        <4> QED BY <1>1, <4>1, <4>2, <4>3 DEF OlderConnections
      <3> QED BY <3>1, <3>2
    <2>3. \A s \in Sessions : s \in Nat
      BY DEF Sessions
    <2>4. sess' \in Nat /\ \A s \in Sessions : s > sess' => s > sess
      BY <1>1, <2>1, <2>3
    <2>5. pending["maker"] # None =>
            pending["maker"].sess <= sess' /\ pending["maker"].n <= proposals
      BY <1>1, <2>1, NumbersOf DEF OlderConnections
    <2>6. agreed # None => agreed.sess <= sess'
      BY <1>1, <2>1, NumbersOf DEF OlderConnections
    <2> QED BY <2>1, <2>2, <2>4, <2>5, <2>6 DEF OlderConnections, NumberOf
  <1> QED BY <1>1, <1>2, <1>3, <1>4, <1>5, <1>6, StepCases, Zenon

(* A step changes the closes of the database in a few ways only.           *)
LEMMA ClosesAre ==
    ASSUME TypeOK
    PROVE  \A p \in Parties : cfd[p].cc \in Option(Numbers)
  BY TypesOf, Carries

LEMMA OneSignedStep ==
    ASSUME IInv, [Next]_vars
    PROVE  OneSigned'
  <1>1. /\ TypeOK /\ TypeOK' /\ OneSigned /\ "taker" \in Parties
    BY StepCases, TypesOf DEF IInv
  <1>2. CASE \E k \in {"settlement", "rollOver"} : Asks(k)
    <2>1. cfd["taker"].cc = None /\ UNCHANGED <<cfd, signed, forgot>>
      BY <1>2 DEF Asks, closeVars
    <2> QED BY <1>1, <2>1, ApartAssumption DEF OneSigned
  <1>3. CASE \/ \E s \in Sessions : Inserts(s) \/ Drops(s) \/ Completes(s)
             \/ Agrees \/ Mistakes \/ (\E m \in ToTaker : Replies(m)) \/ Ends \/ Fails
             \/ Idles \/ MakerBegins
    <2>1. /\ UNCHANGED <<signed, forgot>> /\ cfd'["taker"] = cfd["taker"]
          /\ pending'["taker"] \in {pending["taker"], None}
      BY <1>3 DEF Inserts, Drops, Completes, Agrees, Mistakes, Replies, Ends, Fails, Idles,
                  MakerBegins, closeVars
    <2> QED BY <1>1, <2>1 DEF OneSigned
  <1>4. CASE Signs
    <2>1. pending["taker"] # None /\ pending["taker"].n \in Numbers
      BY <1>1, <1>4, NumbersOf DEF Signs, Is
    <2>2. "taker" \notin forgot => signed = {}
      BY <1>1, <2>1 DEF OneSigned
    <2> QED BY <1>4, <2>1, <2>2 DEF Signs, OneSigned
  <1>5. CASE \E p \in Parties : Moves(p)
    BY <1>1, <1>5 DEF Moves, OneSigned
  <1>6. CASE TakerBegins
    BY <1>1, <1>6 DEF TakerBegins, OneSigned
  <1> QED BY <1>1, <1>2, <1>3, <1>4, <1>5, <1>6, StepCases, Zenon

(* What the maker completes was signed.                                    *)
LEMMA CompletedIsSigned ==
    ASSUME IInv, NEW s \in Sessions, Completes(s), agreed # None, agreed.sess = s
    PROVE  agreed.n \in signed /\ agreed.n \in Numbers
  <1>1. 1 \in 1..Len(toMaker[s]) /\ toMaker[s][1].kind = "signature"
    BY DEF Completes, MakerPops
  <1> QED BY <1>1, NumbersOf DEF IInv, Signatures

LEMMA PublishedStep ==
    ASSUME IInv, [Next]_vars
    PROVE  Published'
  <1>1. TypeOK /\ TypeOK' /\ Published
    BY StepCases DEF IInv
  <1>2. CASE \E s \in Sessions : Completes(s)
    <2>1. PICK s \in Sessions : Completes(s)
      BY <1>2
    <2>2. /\ signed' = signed
          /\ \/ spent' = spent
             \/ spent' = agreed.n /\ agreed.n \in signed
      BY <2>1, CompletedIsSigned DEF Completes
    <2> QED BY <1>1, <2>2 DEF Published
  <1>3. CASE \E p \in Parties : Moves(p)
    BY <1>1, <1>3 DEF Moves, Published, CommitTx, Numbers
  <1>4. CASE \/ (\E k \in {"settlement", "rollOver"} : Asks(k))
             \/ (\E s \in Sessions : Inserts(s) \/ Drops(s))
             \/ Agrees \/ Mistakes \/ (\E m \in ToTaker : Replies(m)) \/ Ends \/ Fails
             \/ Signs \/ Idles \/ MakerBegins \/ TakerBegins
    <2>1. spent' = spent /\ signed \subseteq signed'
      BY <1>4 DEF Asks, Inserts, Drops, Agrees, Mistakes, Replies, Ends, Fails, Signs, Idles,
                  MakerBegins, TakerBegins, closeVars
    <2> QED BY <1>1, <2>1 DEF Published
  <1> QED BY <1>1, <1>2, <1>3, <1>4, StepCases, Zenon

LEMMA AwaitedStep ==
    ASSUME IInv, [Next]_vars
    PROVE  AwaitedIsSigned'
  <1>1. /\ TypeOK /\ TypeOK' /\ \A p \in Parties : cfd[p].cc # None => cfd[p].cc \in signed
    BY StepCases DEF IInv, AwaitedIsSigned, HasCollaborativeClose
  <1>2. SUFFICES \A p \in Parties : cfd'[p].cc # None => cfd'[p].cc \in signed'
    BY DEF AwaitedIsSigned, HasCollaborativeClose
  <1>3. CASE \E s \in Sessions : Completes(s)
    <2>1. PICK s \in Sessions : Completes(s)
      BY <1>3
    <2>2. /\ signed' = signed /\ cfd'["taker"] = cfd["taker"]
          /\ cfd'["maker"] = cfd["maker"] \/ cfd'["maker"].cc \in signed
      BY <2>1, CompletedIsSigned DEF Completes
    <2> QED BY <1>1, <2>2 DEF Parties
  <1>4. CASE \E p \in Parties : Moves(p)
    BY <1>1, <1>4 DEF Moves
  <1>5. CASE Signs
    BY <1>1, <1>5 DEF Signs, Parties
  <1>6. CASE \/ (\E k \in {"settlement", "rollOver"} : Asks(k))
             \/ (\E s \in Sessions : Inserts(s) \/ Drops(s))
             \/ Agrees \/ Mistakes \/ (\E m \in ToTaker : Replies(m)) \/ Ends \/ Fails
             \/ Idles \/ MakerBegins \/ TakerBegins
    <2>1. cfd' = cfd /\ signed \subseteq signed'
      BY <1>6 DEF Asks, Inserts, Drops, Agrees, Mistakes, Replies, Ends, Fails, Idles,
                  MakerBegins, TakerBegins, closeVars
    <2> QED BY <1>1, <2>1
  <1> QED BY <1>1, <1>3, <1>4, <1>5, <1>6, StepCases, Zenon

LEMMA RememberedStep ==
    ASSUME IInv, [Next]_vars
    PROVE  CloseRemembered'
  <1> DEFINE Has(p, c, lost) == c = spent \/ {p, "taker"} \cap lost # {}
  <1>1. /\ TypeOK /\ TypeOK' /\ OneSigned /\ Published
        /\ spent \in Numbers => \A p \in Parties : Has(p, cfd[p].cc, forgot)
    BY StepCases DEF IInv, CloseRemembered
  <1>2. SUFFICES ASSUME spent' \in Numbers, NEW p \in Parties,
                        {p, "taker"} \cap forgot' = {}
                 PROVE  cfd'[p].cc = spent'
    BY DEF CloseRemembered
  <1>3. CASE \E s \in Sessions : Completes(s)
    <2>1. PICK s \in Sessions : Completes(s)
      BY <1>3
    <2>2. "taker" \notin forgot /\ {p, "taker"} \cap forgot = {} /\ p \in {"maker", "taker"}
      BY <1>2, <2>1 DEF Completes, Parties
    <2>3. CASE UNCHANGED <<cfd, spent, agreed>>
      BY <1>1, <1>2, <2>2, <2>3
    <2>4. CASE ~UNCHANGED <<cfd, spent, agreed>>
      <3>1. /\ agreed # None /\ agreed.sess = s
            /\ cfd'["maker"].cc = agreed.n /\ cfd'["taker"] = cfd["taker"]
            /\ spent' = spent \/ spent' = agreed.n
        BY <2>1, <2>4 DEF Completes
      <3>2. agreed.n \in signed
        BY <2>1, <3>1, CompletedIsSigned
      <3>3. PICK c : signed = {c} /\ cfd["taker"].cc = c
        BY <1>1, <2>2, <3>2 DEF OneSigned
      <3>4. agreed.n = c /\ spent' = c
        BY <1>1, <1>2, <3>1, <3>2, <3>3 DEF Published
      <3> QED BY <2>2, <3>1, <3>3, <3>4
    <2> QED BY <2>3, <2>4
  <1>4. CASE \E q \in Parties : Moves(q)
    <2>1. PICK q \in Parties : Moves(q)
      BY <1>4
    <2>2. spent' = spent /\ forgot \subseteq forgot'
      BY <1>2, <2>1 DEF Moves, CommitTx, Numbers
    <2>3. cfd[p].cc = spent
      BY <1>1, <1>2, <2>2
    <2> QED BY <1>2, <2>1, <2>2, <2>3 DEF Moves
  <1>5. CASE Signs
    <2>1. spent \in signed /\ "taker" \notin forgot /\ spent' = spent /\ forgot' = forgot
      BY <1>1, <1>2, <1>5 DEF Signs, Published
    <2>2. pending["taker"] = None
      BY <1>1, <2>1 DEF OneSigned
    <2> QED BY <1>5, <2>2 DEF Signs, Is
  <1>6. CASE \/ (\E k \in {"settlement", "rollOver"} : Asks(k))
             \/ (\E s \in Sessions : Inserts(s) \/ Drops(s))
             \/ Agrees \/ Mistakes \/ (\E m \in ToTaker : Replies(m)) \/ Ends \/ Fails
             \/ Idles \/ MakerBegins \/ TakerBegins
    <2>1. UNCHANGED <<cfd, spent>> /\ forgot \subseteq forgot'
      BY <1>6 DEF Asks, Inserts, Drops, Agrees, Mistakes, Replies, Ends, Fails, Idles,
                  MakerBegins, TakerBegins, closeVars
    <2> QED BY <1>1, <1>2, <2>1
  <1> QED BY <1>1, <1>3, <1>4, <1>5, <1>6, StepCases, Zenon

LEMMA TakerIsUnderStep ==
    ASSUME IInv, [Next]_vars
    PROVE  TakerIsUnder'
  <1> DEFINE n == pending["taker"].n
             IsAnswered == \E i \in 1..Len(toTaker) :
                             \/ toTaker[i].kind \in {"reject", "confirmRollOver"}
                             \/ pending["taker"].kind = "settlement"
  <1>1. /\ TypeOK /\ TypeOK' /\ TakerIsUnder /\ OnePlace
    BY StepCases DEF IInv
  <1>2. linked /\ pending["taker"] # None =>
          n \in dropped \/ Asked(sess) # {} \/ AtMaker \/ IsAnswered
    BY <1>1 DEF TakerIsUnder
  <1>3. SUFFICES ASSUME linked', pending'["taker"] # None
                 PROVE  n' \in dropped' \/ Asked(sess)' # {} \/ AtMaker' \/ IsAnswered'
    BY DEF TakerIsUnder
  <1>4. CASE \E k \in {"settlement", "rollOver"} : Asks(k)
    <2>1. PICK k \in {"settlement", "rollOver"} : Asks(k)
      BY <1>4
    <2>2. /\ MakerGets(Msg(k, proposals + 1)) /\ linked /\ sess' = sess
          /\ Msg(k, proposals + 1).kind # "signature" /\ Len(toMaker[sess]) \in Nat
      BY <1>1, <1>3, <2>1, MsgTypes, TypesOf, Queues DEF Asks
    <2>3. Len(toMaker[sess]) + 1 \in Asked(sess)'
      BY <2>2 DEF MakerGets, Asked
    <2> QED BY <2>3
  <1>5. CASE \E s \in Sessions : Inserts(s) \/ Drops(s) \/ Completes(s)
    <2>1. PICK s \in Sessions : Inserts(s) \/ Drops(s) \/ Completes(s)
      BY <1>5
    <2>2. /\ MakerPops(s) /\ UNCHANGED <<sess, linked, toTaker>> /\ dropped \subseteq dropped'
          /\ pending'["taker"] = pending["taker"]
      BY <2>1 DEF Inserts, Drops, Completes
    <2>3. CASE n \in dropped \/ IsAnswered
      BY <2>2, <2>3
    <2>4. CASE Asked(sess) # {} /\ s # sess
      BY <1>1, <2>2, <2>4, TypesOf DEF MakerPops, Asked
    <2>5. CASE Asked(sess) # {} /\ s = sess
      <3>1. CASE Inserts(s)
        <4>1. /\ toMaker[s][1].kind \in {"settlement", "rollOver"}
              /\ toMaker[s][1].n \in Numbers
          BY <1>1, <3>1, Queues, MsgTypes DEF Inserts, MakerPops
        <4>2. AtMaker'
          BY <2>2, <2>5, <3>1, <4>1, ProposalTypes DEF Inserts, AtMaker
        <4> QED BY <4>2
      <3>2. CASE Drops(s)
        <4>1. 1 \in Asked(sess)
          BY <1>1, <2>5, <3>2, AskedAfter DEF Drops
        <4>2. pending["taker"] = Proposal(toMaker[sess][1].kind, toMaker[sess][1].n, sess)
          BY <1>1, <4>1 DEF OnePlace
        <4>3. n = toMaker[sess][1].n
          BY <1>1, <4>1, <4>2, Distinct, ProposalTypes, TypesOf
        <4> QED BY <2>2, <2>5, <3>2, <4>3 DEF Drops
      <3>3. CASE Completes(s)
        <4>1. PICK i \in Asked(sess) : TRUE
          BY <2>5
        <4>2. i # 1 /\ i \in 1..Len(toMaker[sess]) /\ Len(toMaker[sess]) \in Nat
          BY <1>1, <2>5, <3>3, <4>1, TypesOf, Queues DEF Asked, Completes
        <4>3. i - 1 \in 1..Len(toMaker'[sess]) /\ (i - 1) + 1 = i
          BY <2>2, <2>5, <4>2 DEF MakerPops
        <4>4. toMaker'[sess][i - 1] = toMaker[sess][i]
          BY <2>2, <2>5, <4>3 DEF MakerPops
        <4>5. i - 1 \in Asked(sess)'
          BY <2>2, <4>1, <4>3, <4>4 DEF Asked
        <4> QED BY <4>5
      <3> QED BY <2>1, <3>1, <3>2, <3>3
    <2>6. CASE AtMaker
      <3>1. CASE Inserts(s)
        <4>1. pending["maker"] = pending["taker"] /\ pending["taker"] # None
          BY <2>6, MakersIsTakers
        <4>2. n \in NumberOf(pending["maker"])
          BY <1>1, <4>1, NumbersOf, TypesOf
        <4> QED BY <2>2, <3>1, <4>2 DEF Inserts
      <3>2. CASE Drops(s) \/ Completes(s)
        BY <2>6, <3>2 DEF Drops, Completes, AtMaker
      <3> QED BY <2>1, <3>1, <3>2
    <2> QED BY <1>2, <1>3, <2>2, <2>3, <2>4, <2>5, <2>6
  <1>6. CASE Agrees \/ Mistakes \/ \E m \in ToTaker : Replies(m)
    <2>1. /\ UNCHANGED <<sess, linked, toMaker, dropped>>
          /\ pending'["taker"] = pending["taker"] /\ Asked(sess)' = Asked(sess)
      BY <1>6 DEF Agrees, Mistakes, Replies, Asked
    <2>2. PICK m : /\ TakerGets(pending["maker"].sess, m)
                   /\ \/ UNCHANGED pending
                      \/ m.kind \in {"reject", "confirmRollOver"}
                      \/ Is(pending["maker"], "settlement")
      BY <1>6 DEF Agrees, Mistakes, Replies
    <2>3. Len(toTaker) \in Nat
      BY <1>1, TypesOf, Queues
    <2>4. CASE AtMaker
      <3>1. /\ Len(toTaker') = Len(toTaker) + 1 /\ toTaker'[Len(toTaker) + 1] = m
            /\ pending["maker"] = pending["taker"]
        BY <1>3, <2>1, <2>2, <2>4, MakersIsTakers DEF AtMaker, TakerGets
      <3>2. CASE UNCHANGED pending
        BY <2>1, <2>4, <3>2 DEF AtMaker
      <3>3. CASE m.kind \in {"reject", "confirmRollOver"} \/ Is(pending["maker"], "settlement")
        <4>1. Len(toTaker) + 1 \in 1..Len(toTaker')
          BY <2>3, <3>1
        <4> QED BY <2>1, <3>1, <3>3, <4>1 DEF Is
      <3> QED BY <2>2, <3>2, <3>3
    <2>5. CASE ~AtMaker
      <3>1. toTaker' = toTaker
        <4>1. pending["maker"] # None
          BY <1>6 DEF Agrees, Mistakes, Replies, Is
        <4> QED BY <2>2, <2>5, <4>1 DEF AtMaker, TakerGets
      <3> QED BY <1>2, <1>3, <2>1, <2>5, <3>1
    <2> QED BY <2>4, <2>5
  <1>7. CASE Ends \/ Signs \/ TakerBegins \/ MakerBegins
    BY <1>3, <1>7 DEF Ends, Signs, TakerBegins, MakerBegins
  <1>8. CASE Fails
    <2>1. /\ UNCHANGED <<pending, sess, linked, toMaker>> /\ Asked(sess)' = Asked(sess)
          /\ AtMaker' = AtMaker /\ TakerPops
      BY <1>8 DEF Fails, Asked, AtMaker
    <2>2. CASE dropped' = dropped \cup NumberOf(pending["taker"])
      <3>1. NumberOf(pending["taker"]) = {n}
        BY <1>1, <1>3, <2>1, NumbersOf, TypesOf
      <3> QED BY <2>1, <2>2, <3>1
    <2>3. CASE /\ toTaker[1].kind = "confirmSettlement" /\ ~Is(pending["taker"], "settlement")
               /\ dropped' = dropped
      <3>1. CASE IsAnswered
        <4>1. PICK i \in 1..Len(toTaker) : toTaker[i].kind \in {"reject", "confirmRollOver"}
          BY <1>3, <2>1, <2>3, <3>1 DEF Is
        <4>2. /\ i # 1 /\ Len(toTaker) \in Nat
          BY <1>1, <2>3, <4>1, TypesOf, Queues
        <4>3. i - 1 \in 1..Len(toTaker') /\ (i - 1) + 1 = i
          BY <2>1, <4>2 DEF TakerPops
        <4>4. toTaker'[i - 1] = toTaker[i]
          BY <2>1, <4>3 DEF TakerPops
        <4> QED BY <4>1, <4>3, <4>4
      <3> QED BY <1>2, <1>3, <2>1, <2>3, <3>1
    <2> QED BY <1>8, <2>2, <2>3 DEF Fails
  <1>9. CASE Idles \/ \E p \in Parties : Moves(p)
    <2>1. /\ UNCHANGED <<pending, sess, toMaker, toTaker, dropped>> /\ linked
      BY <1>3, <1>9 DEF Idles, Moves
    <2> QED BY <1>2, <1>3, <2>1 DEF Asked, AtMaker
  <1> QED BY <1>1, <1>4, <1>5, <1>6, <1>7, <1>8, <1>9, StepCases, Zenon

-----------------------------------------------------------------------------
(* The theorems.                                                           *)

LEMMA Initially ==
    ASSUME Init
    PROVE  IInv
  <1>1. /\ cfd = [p \in Parties |-> Open(0, None, None)]
        /\ Open(0, None, None) \in CfdStates /\ Open(0, None, None).cc = None
    <2>1. 0 \in {0} \cup Numbers /\ None \in Option({"attested"}) /\ None \in Option(Numbers)
      BY DEF Option
    <2> QED BY <2>1, IsState, Zenon DEF Init
  <1>2. /\ pending = [p \in Parties |-> None] /\ agreed = None
        /\ sess = 1 /\ toMaker = [s \in Sessions |-> <<>>] /\ toTaker = <<>>
        /\ spent = None /\ proposals = 0 /\ signed = {} /\ forgot = {} /\ dropped = {}
    BY DEF Init
  <1>3. 1 \in Sessions /\ 0 \in 0..MaxProposals /\ 0 \in 0..MaxMakerRestarts
        /\ Sessions \subseteq Nat
    BY BoundsAssumption DEF Sessions
  <1>4. toMaker \in [Sessions -> Seq(ToMaker)] /\ toTaker \in Seq(ToTaker)
    BY <1>2
  <1>5. TypeOK
    BY <1>1, <1>2, <1>3, <1>4 DEF Init, TypeOK, Option
  <1>6. \A p \in Parties : pending[p] = None /\ cfd[p].cc = None
    BY <1>1, <1>2
  <1>7. \A s \in Sessions : toMaker[s] = <<>> /\ Asked(s) = {}
    BY <1>2 DEF Asked
  <1>8. Len(toTaker) = 0 /\ ~AtMaker /\ "taker" \in Parties /\ "maker" \in Parties
    BY <1>2, <1>6 DEF AtMaker, Parties
  <1>9. OnePlace /\ Answers /\ Agreement
    BY <1>2, <1>3, <1>6, <1>7, <1>8 DEF OnePlace, Answers, Agreement, Is
  <1>10. Signatures /\ OlderConnections
    BY <1>2, <1>3, <1>6, <1>7, <1>8 DEF Signatures, OlderConnections
  <1>11. OneSigned /\ Published /\ TakerIsUnder /\ AwaitedIsSigned /\ CloseRemembered
    <2>1. spent \notin Numbers
      BY <1>2, ApartAssumption
    <2> QED BY <1>2, <1>6, <1>8, <2>1
            DEF OneSigned, Published, TakerIsUnder, AwaitedIsSigned, CloseRemembered,
                HasCollaborativeClose
  <1> QED BY <1>5, <1>9, <1>10, <1>11 DEF IInv

LEMMA Inductive ==
    ASSUME IInv, [Next]_vars
    PROVE  IInv'
  <1>1. TypeOK'
    BY StepCases DEF IInv
  <1> QED BY <1>1, OnePlaceStep, AnswersStep, AgreementStep, SignaturesStep,
             OlderConnectionsStep, OneSignedStep, PublishedStep, TakerIsUnderStep, AwaitedStep,
             RememberedStep
          DEF IInv

(* The inductive invariant holds in every state of every run.              *)
THEOREM InvariantHolds == Spec => []IInv
  <1>1. Init => IInv
    BY Initially
  <1>2. IInv /\ [Next]_vars => IInv'
    BY Inductive
  <1> QED BY <1>1, <1>2, PTL DEF Spec

(* Updates keep to their types.                                            *)
THEOREM TypeCorrect == Spec => []TypeOK
  <1>1. IInv => TypeOK
    BY DEF IInv
  <1> QED BY <1>1, InvariantHolds, PTL

(* Whatever is lost, delayed or restarted, neither party records a close   *)
(* the taker has not signed.                                               *)
THEOREM AwaitedSigned == Spec => []AwaitedIsSigned
  <1>1. IInv => AwaitedIsSigned
    BY DEF IInv
  <1> QED BY <1>1, InvariantHolds, PTL

(* A published close is in both databases, but for the known losses.       *)
THEOREM CloseKept == Spec => []CloseRemembered
  <1>1. IInv => CloseRemembered
    BY DEF IInv
  <1> QED BY <1>1, InvariantHolds, PTL

(* The taker signs a second close only after it lost the first.            *)
THEOREM SignsOnce == Spec => []OneClose
  <1>1. IInv => OneClose
    <2>1. SUFFICES ASSUME IInv, "taker" \notin forgot
                   PROVE  Cardinality(signed) <= 1
      BY DEF OneClose
    <2>2. CASE signed = {}
      BY <2>2, FS_EmptySet
    <2>3. CASE signed # {}
      <3>1. PICK c : signed = {c}
        BY <2>1, <2>3 DEF IInv, OneSigned
      <3>2. Cardinality(signed) = 1
        BY <3>1, FS_Singleton, Zenon
      <3> QED BY <3>2
    <2> QED BY <2>2, <2>3
  <1> QED BY <1>1, InvariantHolds, PTL

(* While the connection is up the taker's proposal is somewhere: on its    *)
(* way, with the maker, answered, or dropped in one of the known ways.     *)
THEOREM Waiting == Spec => []TakerWaits
  <1>1. IInv => TakerWaits
    <2>1. SUFFICES ASSUME IInv, linked, pending["taker"] # None,
                          pending["taker"].n \notin dropped
                   PROVE  Under(pending["taker"].n)
      BY DEF TakerWaits
    <2>2. TypeOK /\ sess \in Sessions /\ toTaker \in Seq(ToTaker) /\ OnePlace
          /\ toMaker[sess] \in Seq(ToMaker)
      BY <2>1, TypesOf DEF IInv
    <2>3. CASE Asked(sess) # {}
      <3>1. PICK i \in Asked(sess) : TRUE
        BY <2>3
      <3>2. pending["taker"] = Proposal(toMaker[sess][i].kind, toMaker[sess][i].n, sess)
        BY <2>2, <3>1 DEF OnePlace
      <3>3. pending["taker"].n = toMaker[sess][i].n
        BY <2>2, <3>1, <3>2, Distinct, ProposalTypes
      <3>4. i \in DOMAIN toMaker[sess] /\ toMaker[sess][i].kind # "signature"
        BY <2>2, <3>1 DEF Asked
      <3> QED BY <3>3, <3>4 DEF Under
    <2>4. CASE AtMaker
      BY <2>2, <2>4 DEF OnePlace, AtMaker, Under
    <2>5. CASE Len(toTaker) # 0
      BY <2>2, <2>5 DEF Under
    <2>6. Len(toTaker) = 0 => ~\E i \in 1..Len(toTaker) : TRUE
      OBVIOUS
    <2> QED BY <2>1, <2>3, <2>4, <2>5, <2>6 DEF IInv, TakerIsUnder
  <1> QED BY <1>1, InvariantHolds, PTL

=============================================================================
