------------------------------ MODULE CfdStore ------------------------------
(***************************************************************************)
(* What the database promises the rest of a daemon: at most one CFD for    *)
(* each order, which is never lost; a write moves that CFD on from the     *)
(* state it was in and touches no other, except for the clean-up of a      *)
(* restart.                                                                *)
(***************************************************************************)

CONSTANTS
    Keys,       \* orders
    Requests,   \* states a CFD is created in
    Unfinished, \* states a restart turns into Failed
    Failed,
    Absent,     \* no CFD for this order
    Moves(_, _) \* whether a CFD moves from one state to another

VARIABLE store  \* the state of the CFD of each order

StoreInit == store = [k \in Keys |-> Absent]

Others(k) == \A j \in Keys \ {k} : store'[j] = store[j]

Create(k) == store[k] = Absent /\ store'[k] \in Requests /\ Others(k)
Update(k) == store[k] # Absent /\ Moves(store[k], store'[k]) /\ Others(k)

CleanUp ==
    store' = [k \in Keys |-> IF store[k] \in Unfinished THEN Failed ELSE store[k]]

StoreNext == CleanUp \/ \E k \in Keys : Create(k) \/ Update(k)

StoreSpec == StoreInit /\ [][StoreNext]_store

=============================================================================
