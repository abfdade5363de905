---------------------------- MODULE CfdLifecycle ----------------------------
(***************************************************************************)
(* What a daemon promises about one CFD, without actors, messages, crashes *)
(* or transactions: what it reports only moves forward, the money is paid  *)
(* out once, and a final report says how.                                  *)
(***************************************************************************)

EXTENDS Naturals

VARIABLES
    known,    \* what the daemon reports of the CFD
    outcome   \* how the locked money was paid out on chain, if it was

lifecycleVars == <<known, outcome>>

Stages == {"setup", "failed", "open", "committed", "paying", "refunding",
           "closed", "refunded"}
Outcomes == {"none", "close", "cet", "refund"}

(* Where a report may go next.                                             *)
Forward ==
    [setup     |-> {"open", "failed"},
     failed    |-> {},
     open      |-> {"committed", "refunding", "closed", "refunded"},
     committed |-> {"paying", "refunding", "closed", "refunded"},
     paying    |-> {"closed", "refunded"},
     refunding |-> {"refunded"},
     closed    |-> {},
     refunded  |-> {}]

LifecycleInit == known = "setup" /\ outcome = "none"

Report(stage) ==
    /\ stage \in Forward[known]
    /\ stage = "closed"   => outcome \in {"close", "cet"}
    /\ stage = "refunded" => outcome = "refund"
    /\ known' = stage
    /\ UNCHANGED outcome

PayOut(o) ==
    /\ outcome = "none" /\ o # "none"
    /\ outcome' = o
    /\ UNCHANGED known

LifecycleNext ==
    \/ \E stage \in Stages : Report(stage)
    \/ \E o \in Outcomes : PayOut(o)

LifecycleSpec == LifecycleInit /\ [][LifecycleNext]_lifecycleVars

=============================================================================
