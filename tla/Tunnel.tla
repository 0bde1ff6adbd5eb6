------------------------------- MODULE Tunnel -------------------------------
(***************************************************************************)
(* What a proxy promises its clients: a connection is opened for an        *)
(* allowed client alone, and then everything one end says reaches the      *)
(* other in order, at most once, nothing added.  The end of a tunnel may   *)
(* come at any time and costs the rest of what was said.  The n-th chunk   *)
(* an end says is n.                                                       *)
(***************************************************************************)
EXTENDS Naturals, Sequences

CONSTANTS Conns, Dirs

VARIABLES
  allowed,  \* the clients it is for
  open,     \* the connections that have reached their target
  said,     \* chunks each end has said so far
  heard     \* chunks that have arrived at the other end

Init ==
  /\ allowed \subseteq Conns
  /\ open = {}
  /\ said = [c \in Conns |-> [d \in Dirs |-> 0]]
  /\ heard = [c \in Conns |-> [d \in Dirs |-> <<>>]]

Open(c) ==
  /\ c \in allowed
  /\ open' = open \cup {c}
  /\ UNCHANGED <<allowed, said, heard>>

Say(c, d) ==
  /\ said' = [said EXCEPT ![c][d] = @ + 1]
  /\ UNCHANGED <<allowed, open, heard>>

Hear(c, d) ==
  /\ c \in open
  /\ Len(heard[c][d]) < said[c][d]
  /\ heard' = [heard EXCEPT ![c][d] = Append(@, Len(@) + 1)]
  /\ UNCHANGED <<allowed, open, said>>

Next == \E c \in Conns : Open(c) \/ \E d \in Dirs : Say(c, d) \/ Hear(c, d)

Spec == Init /\ [][Next]_<<allowed, open, said, heard>>
=============================================================================
