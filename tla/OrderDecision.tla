---------------------------- MODULE OrderDecision ----------------------------
(* What taking an order promises: a taker asks, it is answered at most     *)
(* once, at most one taker is accepted per order, and a taker's CFD goes   *)
(* where the answer says and never leaves a final state.                   *)

CONSTANTS Takers, Orders

VARIABLES
    verdict,   \* verdict[t][o]: what taker t is told about order o
    taker      \* taker[t][o]: the state of t's CFD for o

vars == <<verdict, taker>>

Init ==
    /\ verdict = [t \in Takers |-> [o \in Orders |-> "none"]]
    /\ taker   = [t \in Takers |-> [o \in Orders |-> "none"]]

Become(t, o, from, to) ==
    /\ taker[t][o] = from
    /\ taker' = [taker EXCEPT ![t][o] = to]
    /\ UNCHANGED verdict

Take(t, o) == Become(t, o, "none", "outgoing")

Answer(t, o, v) ==
    /\ verdict[t][o] = "none"
    /\ taker[t][o] # "none"
    /\ v = "accepted" => \A u \in Takers : verdict[u][o] # "accepted"
    /\ verdict' = [verdict EXCEPT ![t][o] = v]
    /\ UNCHANGED taker

Learn(t, o) ==
    \/ verdict[t][o] = "accepted" /\ Become(t, o, "outgoing", "setup")
    \/ verdict[t][o] = "refused"  /\ Become(t, o, "outgoing", "rejected")

Conclude(t, o) == \E end \in {"open", "failed"} : Become(t, o, "setup", end)

(* Whatever was unfinished when the taker stopped has failed.              *)
Restart(t) ==
    /\ taker' = [taker EXCEPT ![t] = [o \in Orders |->
                   IF @[o] \in {"outgoing", "setup"} THEN "failed" ELSE @[o]]]
    /\ UNCHANGED verdict

Next == \E t \in Takers :
            \/ Restart(t)
            \/ \E o \in Orders :
                  \/ Take(t, o)
                  \/ \E v \in {"accepted", "refused"} : Answer(t, o, v)
                  \/ Learn(t, o)
                  \/ Conclude(t, o)

Spec == Init /\ [][Next]_vars

=============================================================================
