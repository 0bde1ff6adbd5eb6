------------------------------ MODULE Failover ------------------------------
(***************************************************************************)
(* What the self-healing watchdog promises, without its loop, its waits or *)
(* the commands it runs: the documented state machine and the book it      *)
(* keeps of the configurations tried since the VPN was last seen healthy.  *)
(* Watchdog implements this specification.                                 *)
(***************************************************************************)
CONSTANT Files

VARIABLES wdState,   \* the watchdog's published state
          tried      \* configurations tried in this outage

fvars == <<wdState, tried>>

WatchdogStates == {"idle", "monitoring", "degraded", "reconnecting",
                   "failing_over", "cooldown"}

FailoverTypeOK == wdState \in WatchdogStates /\ tried \in SUBSET Files

FInit == wdState = "idle" /\ tried = {}

(* The loop starts, or an API restart forgets everything. *)
Begin == wdState = "idle" /\ wdState' = "monitoring" /\ tried' = {}
Forget == wdState' = "idle" /\ tried' = {}

(* Failed checks below the threshold. *)
Suspect ==
  /\ wdState \in {"monitoring", "degraded"}
  /\ wdState' = "degraded"
  /\ UNCHANGED tried

(* The threshold is reached: restart the current configuration. *)
Restart ==
  /\ wdState \in {"monitoring", "degraded"}
  /\ wdState' = "reconnecting"
  /\ UNCHANGED tried

(* The restart did not help: a failover pass begins with a clean book. *)
StartPass ==
  /\ wdState = "reconnecting" /\ tried = {}
  /\ wdState' = "failing_over"
  /\ UNCHANGED tried

(* One more configuration, never one already tried in this pass. *)
TryFile ==
  /\ wdState = "failing_over"
  /\ \E f \in Files \ tried : tried' = tried \cup {f}
  /\ UNCHANGED wdState

GiveUp ==
  /\ wdState = "failing_over"
  /\ wdState' = "cooldown"
  /\ UNCHANGED tried

(* A healthy check at any level, or the end of the cooldown, starts afresh. *)
Recover ==
  /\ wdState # "idle"
  /\ wdState' = "monitoring"
  /\ tried' = {}

FNext == \/ Begin \/ Forget \/ Suspect \/ Restart
         \/ StartPass \/ TryFile \/ GiveUp \/ Recover

FSpec == FInit /\ [][FNext]_fvars
=============================================================================
