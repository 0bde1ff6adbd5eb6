------------------------------- MODULE MCAuth -------------------------------
(* Values for the model checker of module Auth. *)
EXTENDS Auth

CONSTANTS b1, b2, near, t1, t2, t3, t4, t5

McFrom == [b \in Browsers |-> near]
=============================================================================
