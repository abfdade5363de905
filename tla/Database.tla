------------------------------ MODULE Database ------------------------------
(***************************************************************************)
(* The SQLite database of a daemon: orders, CFDs and the states CFDs went  *)
(* through.  Rows are only ever added and ids count up, so each table is a *)
(* sequence and an id is a position in it.                                 *)
(*                                                                         *)
(* The columns that nothing here depends on are left out, and so are the   *)
(* states a CFD went through before the newest one: the code never deletes *)
(* them, but no query returns one, so that a row leaves the model when the *)
(* next one is added.  What an operation does when it fails is part of it: *)
(* an operation is enabled only if the code reaches its last line.         *)
(***************************************************************************)

EXTENDS Naturals, Sequences

VARIABLES
    orders,      \* uuid and oracle_event_id of each order
    cfds,        \* order_id and order_uuid of each CFD
    cfd_states   \* cfd_id and state

tables == <<orders, cfds, cfd_states>>

EmptyTables == orders = <<>> /\ cfds = <<>> /\ cfd_states = <<>>

Ids(table) == DOMAIN table

(* load_order_by_id *)
OrderIds(uuid) == {i \in Ids(orders) : orders[i].uuid = uuid}
HasOrder(uuid) == OrderIds(uuid) # {}
OrderOf(uuid)  == orders[CHOOSE i \in OrderIds(uuid) : TRUE]

(* load_cfd_id_by_order_uuid *)
CfdIds(uuid) == {i \in Ids(cfds) : cfds[i].order_uuid = uuid}

(* load_all_cfds: orders joined with CFDs joined with their newest state;  *)
(* a CFD without a state is not seen.                                      *)
AllCfds ==
    { [order |-> orders[cfds[cfd_states[i].cfd_id].order_id],
       state |-> cfd_states[i].state] : i \in Ids(cfd_states) }

(* load_cfd_by_order_id *)
Loadable(uuid) == \E cfd \in AllCfds : cfd.order.uuid = uuid
LoadCfd(uuid)  == CHOOSE cfd \in AllCfds : cfd.order.uuid = uuid

(* load_cfds_by_oracle_event_id *)
CfdsOfEvent(event) == {cfd \in AllCfds : cfd.order.event = event}

-----------------------------------------------------------------------------

(* insert_order: uuid is unique.                                           *)
InsertOrder(uuid, event) ==
    /\ ~HasOrder(uuid)
    /\ orders' = Append(orders, [uuid |-> uuid, event |-> event])
    /\ UNCHANGED <<cfds, cfd_states>>

(* insert_cfd runs two statements, each committed on its own: order_uuid   *)
(* of the first is unique, the second goes to the newest CFD.  A daemon    *)
(* that dies in between leaves a row without a state.                      *)
InsertCfdRow(uuid) ==
    /\ ~Loadable(uuid)
    /\ HasOrder(uuid) /\ CfdIds(uuid) = {}
    /\ \E i \in OrderIds(uuid) :
        cfds' = Append(cfds, [order_id |-> i, order_uuid |-> uuid])
    /\ UNCHANGED orders

InsertCfd(uuid, state) ==
    /\ InsertCfdRow(uuid)
    /\ cfd_states' = Append(cfd_states, [cfd_id |-> Len(cfds'), state |-> state])

(* The table once a newer state of the CFD is added.                       *)
AddState(id, state) ==
    [i \in Ids(cfd_states) |->
        IF cfd_states[i].cfd_id = id THEN [cfd_id |-> id, state |-> state]
        ELSE cfd_states[i]]

(* Mutant: the state goes to the newest CFD, as insert_cfd's does.         *)
AppendToNewestCfd(uuid, state) ==
    /\ Loadable(uuid)
    /\ cfd_states' = AddState(Len(cfds), state)
    /\ UNCHANGED <<orders, cfds>>

(* append_cfd_state *)
AppendCfdState(uuid, state) ==
    /\ Loadable(uuid)
    /\ \E id \in CfdIds(uuid) : cfd_states' = AddState(id, state)
    /\ UNCHANGED <<orders, cfds>>

=============================================================================
