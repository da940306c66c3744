---------------------------- MODULE Processes ----------------------------
(***************************************************************************)
(* What a history promises its checkers: a family of sequential processes. *)
(* A process is born with its first invocation, in the order of its        *)
(* number; it has at most one call open; it goes on after a call whose     *)
(* outcome is known; and it is dead after a call whose outcome is unknown, *)
(* because that call may still be in progress inside the subject.          *)
(*                                                                         *)
(* The module docstring of src/tools/history/seam.py states this contract; *)
(* Seam.tla, translated from the code, implements it.                      *)
(***************************************************************************)
EXTENDS Naturals

CONSTANT MaxProcess     \* bound: no process has a number above this one

Numbers == 0..MaxProcess

VARIABLE status         \* status of each process number

Unborn == "unborn"
Idle   == "idle"
Busy   == "busy"
Dead   == "dead"

Init == status = [p \in Numbers |-> Unborn]

\* The next process, in the order of the numbers, opens its first call.
Born(p) ==
    /\ status[p] = Unborn
    /\ \A q \in Numbers : q < p => status[q] # Unborn
    /\ status' = [status EXCEPT ![p] = Busy]

Opens(p) == status[p] = Idle /\ status' = [status EXCEPT ![p] = Busy]

\* An ok or a fail completion.
Closes(p) == status[p] = Busy /\ status' = [status EXCEPT ![p] = Idle]

\* An unknown completion.
Dies(p) == status[p] = Busy /\ status' = [status EXCEPT ![p] = Dead]

Next == \E p \in Numbers : Born(p) \/ Opens(p) \/ Closes(p) \/ Dies(p)

Spec == Init /\ [][Next]_status
==========================================================================
