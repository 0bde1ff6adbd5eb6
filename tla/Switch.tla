------------------------------- MODULE Switch -------------------------------
(***************************************************************************)
(* What switching the tunnel promises those who call for it.  One switch   *)
(* at a time is under way, and only a switch touches the tunnel.  It ends  *)
(* on the server it is about, or on the one chosen before, or without a    *)
(* tunnel when that one could not be had either; the caller is told which. *)
(* When no switch is under way, the gate lets the server of the tunnel out *)
(* and no other.                                                           *)
(***************************************************************************)
CONSTANTS
  Callers,
  Servers,
  Fragile,  \* servers that may refuse a client that comes back
  Nobody,   \* no caller
  Nothing   \* no server

VARIABLES
  by,      \* whose switch is under way, or Nobody
  target,  \* the server it is about
  chosen,  \* the server of the last switch that succeeded
  tunnel,  \* the server of the tunnel
  gate,    \* the server the killswitch lets out
  told     \* what each caller was told

switchVars == <<by, target, chosen, tunnel, gate, told>>

Init ==
  /\ chosen \in Servers /\ tunnel = chosen /\ gate = chosen
  /\ by = Nobody /\ target = Nothing
  /\ told = [c \in Callers |-> "none"]

Tell(c, what) == told[c] = "none" /\ told' = [told EXCEPT ![c] = what]

(* A caller has its turn, with a server in mind or none yet. *)
Begin(c) ==
  /\ by = Nobody /\ told[c] = "none"
  /\ by' = c /\ target' \in Servers \cup {Nothing}
  /\ UNCHANGED <<chosen, tunnel, gate, told>>

Aim ==
  /\ by # Nobody /\ target = Nothing
  /\ target' \in Servers
  /\ UNCHANGED <<by, chosen, tunnel, gate, told>>

(* On the way the tunnel may be down, and the gate may be late, but it     *)
(* opens only for the server of the tunnel.                                *)
Work ==
  /\ target # Nothing
  /\ tunnel' \in {target, chosen, Nothing}
  /\ gate' \in {gate, tunnel'}
  /\ UNCHANGED <<by, target, chosen, told>>

End(c) == by = c /\ by' = Nobody /\ target' = Nothing

(* The reply of a switch that was made may be lost on its way. *)
Switched(c) ==
  /\ target # Nothing /\ End(c)
  /\ Tell(c, "ok") \/ Tell(c, "failed")
  /\ tunnel' = target /\ gate' = target /\ chosen' = target

Restored(c) ==
  /\ target # Nothing /\ End(c)
  /\ Tell(c, "rolledback")
  /\ tunnel' = chosen /\ gate' = chosen /\ UNCHANGED chosen

Lost(c) ==
  /\ target # Nothing /\ End(c)
  /\ Tell(c, "failed")
  /\ chosen \in Fragile /\ tunnel' = Nothing /\ gate' = Nothing /\ UNCHANGED chosen

(* Calls that change nothing: there was no server to switch to, or it was  *)
(* somebody else's turn.                                                   *)
GaveUp(c) ==
  /\ target = Nothing /\ End(c)
  /\ Tell(c, "failed")
  /\ UNCHANGED <<chosen, tunnel, gate>>

TurnedAway(c) ==
  /\ by \notin {c, Nobody}
  /\ Tell(c, "busy")
  /\ UNCHANGED <<by, target, chosen, tunnel, gate>>

Next ==
  \/ Aim \/ Work
  \/ \E c \in Callers :
       \/ Begin(c) \/ GaveUp(c) \/ TurnedAway(c)
       \/ Switched(c) \/ Restored(c) \/ Lost(c)

Spec == Init /\ [][Next]_switchVars
=============================================================================
