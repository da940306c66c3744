---------------------------- MODULE MCIntervals ----------------------------
(* An instance of Intervals for TLC: three entries of two clients, so that *)
(* an entry can overlap the first, the second or neither of the earlier    *)
(* ones of its client.                                                     *)
EXTENDS Intervals

MCClients == {"a", "b"}
MCOperations == {"operation"}
MCOutputs == {"output"}
===========================================================================
