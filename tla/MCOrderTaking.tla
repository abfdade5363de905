---------------------------- MODULE MCOrderTaking ----------------------------
(* OrderTaking for TLC: takers are interchangeable, and so are orders.      *)
EXTENDS OrderTaking, TLC

Interchangeable == Permutations(Takers) \cup Permutations(Orders)

(* Every taker learns what was decided on each of its requests             *)
(* (DecisionLearntBy): one taker and one order stand for all, among others *)
(* that may do anything.                                                   *)
DecisionLearnt ==
    DecisionLearntBy(CHOOSE t \in Takers : TRUE, CHOOSE o \in Orders : TRUE)

=============================================================================
