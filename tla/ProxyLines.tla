------------------------------ MODULE ProxyLines ------------------------------
(***************************************************************************)
(* The requests of Proxy that compete for one server, any server, seen as  *)
(* the users of a SlotLine.                                                *)
(***************************************************************************)
EXTENDS Proxy

CONSTANT Served     \* the server

ASSUME ServedAssumption == Served \in Servers

\* The slots in circulation are the free ones and those that are held; a server
\* without a cap has none.
InCirculation ==
    IF Cap[Served] = 0 THEN 0 ELSE free[Served] + Cardinality(Holders(Served))

\* A request that owns a slot is a holder.
Slots ==
    INSTANCE SlotLine WITH
        Caps <- {Cap[Served]},
        limit <- Cap[Served],
        slots <- InCirculation,
        holders <- Holders(Served),
        line <- line[Served]

\* The slots of the server are used as a SlotLine promises them: in order of
\* arrival, none lost and none made.
UsesLines == Slots!Spec
==============================================================================
