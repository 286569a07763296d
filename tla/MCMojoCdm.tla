------------------------------ MODULE MCMojoCdm ------------------------------
(* Model-checking instance of MojoCdm: two promises, so that the remote    *)
(* can answer out of order, and one session event.                         *)
EXTENDS MojoCdm

CONSTANTS p1, p2
MCPromises == {p1, p2}
=============================================================================
