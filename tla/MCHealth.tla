-------------------------------- MODULE MCHealth --------------------------------
(* An instance of Health for TLC: host_addresses in one order or without the *)
(* preferred address, a server that is added and removed.                     *)
EXTENDS Health

CONSTANTS a1, a2, m1, x

Both == [addrs |-> <<a1, a2>>, seg |-> x]
Second == [addrs |-> <<a2>>, seg |-> x]

MCConfigs == {Both, Second}
MCLoaded == {[k \in Servers |-> Both]}
\* The preferred address answers, or not yet.
MCWorlds == {[a \in Addresses |-> {m1}], a1 :> None @@ a2 :> {m1}}
MCAnswers == {{m1}}
==============================================================================
