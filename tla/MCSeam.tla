------------------------------ MODULE MCSeam ------------------------------
(* An instance of Seam for TLC.  The payloads do not steer the recorder,   *)
(* so one of each is enough; three clients make two processes outlive      *)
(* their clients' unknown calls while a third one is busy.                 *)
EXTENDS Seam

MCClients == {"a", "b", "c"}
MCOperations == {"operation"}
MCOutputs == {"output"}
===========================================================================
