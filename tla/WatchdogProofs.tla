--------------------------- MODULE WatchdogProofs ---------------------------
(* The watchdog's safety for any set of files, settings and bounds.        *)
EXTENDS Watchdog, VpnProofs, FiniteSetTheorems

(* The saturating counter stays in its range. *)
LEMMA SaturateType ==
  ASSUME NEW n \in 0..MaxFails
  PROVE  Saturate(n) \in 0..MaxFails
BY SettingsAssumption DEF Saturate

(* The initial state satisfies the inductive invariant. *)
LEMMA InitIInv == Init => IInv
<1> SUFFICES ASSUME Init PROVE IInv
  OBVIOUS
<1>1. TypeOK
  <2>1. vpn \in Vpns
    BY BootType DEF Init
  <2>2. server \in [Files -> Conditions]
    BY DEF Init, Conditions
  <2> QED BY <2>1, <2>2, SettingsAssumption DEF Init, TypeOK, AwaitPoints, NotRaising, Steps
<1>2. Phase /\ PassBook
  BY DEF Init, Phase, PassBook, PassPoints, NotRaising
<1>3. TriedOnlyInOutage /\ RemainingExact /\ GivesUpAfterAll /\ FileTruthful
  BY DEF Init, TriedOnlyInOutage, RemainingExact, GivesUpAfterAll, FileTruthful
<1> QED BY <1>1, <1>2, <1>3 DEF IInv

-----------------------------------------------------------------------------
(* Ticks that end where the loop rests.                                    *)
LEMMA RestingTicks ==
  ASSUME IInv,
         \/ StartLoop \/ CooldownTick \/ CooldownExpires \/ ResumeReturns
         \/ HealthyTick \/ ThresholdRaises \/ BelowThreshold \/ NotActing
         \/ SidecarHealthy \/ SidecarUnhealthy \/ BackoffEnds \/ PauseReturns
  PROVE  IInv'
<1> USE DEF IInv, TypeOK, Phase, PassBook, PassPoints, TriedOnlyInOutage, RemainingExact,
            GivesUpAfterAll, FileTruthful, AwaitPoints, SyncPoints,
            loopVars, envVars, threads, Goto, SetState
<1>0. Saturate(fails) \in 0..MaxFails /\ 0 \in 0..MaxFails
  BY SaturateType, SettingsAssumption
<1>1. CASE StartLoop \/ BackoffEnds
  BY <1>1 DEF StartLoop, BackoffEnds
<1>2. CASE CooldownTick
  BY <1>2 DEF CooldownTick
<1>3. CASE CooldownExpires
  BY <1>0, <1>3 DEF CooldownExpires
<1>4. CASE ResumeReturns \/ PauseReturns
  BY <1>4 DEF ResumeReturns, PauseReturns
<1>5. CASE HealthyTick \/ SidecarHealthy
  BY <1>0, <1>5 DEF HealthyTick, SidecarHealthy, Checking, OnHealthy
<1>6. CASE ThresholdRaises
  BY <1>0, <1>6 DEF ThresholdRaises
<1>7. CASE BelowThreshold \/ NotActing
  BY <1>0, <1>7 DEF BelowThreshold, NotActing, UnhealthyTick, Checking
<1>8. CASE SidecarUnhealthy
  BY <1>0, <1>8 DEF SidecarUnhealthy
<1> QED BY <1>1, <1>2, <1>3, <1>4, <1>5, <1>6, <1>7, <1>8

(* The restart, up to the decision to fail over.                           *)
LEMMA ReconnectSteps ==
  ASSUME IInv, \/ StartReconnect \/ DoReconnect \/ DoReconnectStarts
               \/ RestartVerified \/ RestartUseless
  PROVE  IInv'
<1> USE DEF IInv, TypeOK, Phase, PassBook, PassPoints, TriedOnlyInOutage, RemainingExact,
            GivesUpAfterAll, FileTruthful, AwaitPoints, SyncPoints,
            loopVars, envVars, threads, Goto, SetState
<1>0. Saturate(fails) \in 0..MaxFails /\ 0 \in 0..MaxFails
  BY SaturateType, SettingsAssumption
<1>1. CASE StartReconnect
  BY <1>0, <1>1 DEF StartReconnect, UnhealthyTick, Checking
<1>2. CASE DoReconnect
  <2>1. StopTunnel(vpn) \in Vpns
    BY StopType
  <2> QED BY <1>2, <2>1 DEF DoReconnect
<1>3. CASE RestartVerified
  BY <1>0, <1>3 DEF RestartVerified, OnHealthy
<1>4. CASE RestartUseless
  BY <1>4 DEF RestartUseless
<1>5. CASE DoReconnectStarts
  <2>1. \A type \in {"wireguard", "openvpn"} : StartTunnel(type, vpn, server).vpn \in Vpns
    BY StartType DEF Results
  <2> QED BY <1>5, <2>1 DEF DoReconnectStarts, Restarts
<1> QED BY <1>1, <1>2, <1>3, <1>4, <1>5

(* A pass begins with every file but the active one in the queue.          *)
LEMMA PassBegins ==
  ASSUME IInv, BeginFailover
  PROVE  IInv'
<1> USE DEF IInv, TypeOK, Phase, PassPoints, Goto, SetState, BeginFailover, loopVars,
            envVars, threads
<1>1. tried = {}
  BY DEF TriedOnlyInOutage
<1>2. Untried \in SUBSET Files /\ IsFiniteSet(Untried)
  BY SettingsAssumption, FS_Subset DEF Untried
<1>3. Cardinality(Untried) \in Nat /\ Cardinality({}) = 0
  BY <1>2, FS_CardinalityType, FS_EmptySet
<1>4. TypeOK'
  BY <1>2, <1>3 DEF AwaitPoints, SyncPoints
<1>5. PassBook'
  <2>1. Files \ (tried' \cup queue') \subseteq {vpn.active}
    BY DEF Untried
  <2>2. vpn.active \in Files \cup {None}
    BY DEF Vpns
  <2> QED BY <1>1, <2>1, <2>2 DEF PassBook
<1>6. RemainingExact'
  BY <1>1, <1>2, <1>3 DEF RemainingExact
<1>7. (Phase /\ TriedOnlyInOutage /\ GivesUpAfterAll /\ FileTruthful)'
  BY DEF TriedOnlyInOutage, GivesUpAfterAll, FileTruthful
<1> QED BY <1>4, <1>5, <1>6, <1>7

(* Taking a file moves it from the queue to the book and keeps the count.  *)
LEMMA TakeKeepsBook ==
  ASSUME IInv, pc = "next", NEW f \in Files, Take(f)
  PROVE  /\ tried' \in SUBSET Files /\ queue' \in SUBSET Files /\ trying' = f
         /\ queue' \cap tried' = {}
         /\ tried' \cup queue' = tried \cup queue
         /\ passSize' = Cardinality(tried') + Cardinality(queue')
<1> USE DEF IInv, TypeOK, PassBook, PassPoints, Take
<1>1. f \in queue /\ f \notin tried
  OBVIOUS
<1>2. IsFiniteSet(tried) /\ IsFiniteSet(queue)
  BY SettingsAssumption, FS_Subset
<1>3. Cardinality(tried \cup {f}) = Cardinality(tried) + 1
  BY <1>1, <1>2, FS_AddElement
<1>4. Cardinality(queue \ {f}) = Cardinality(queue) - 1
  BY <1>1, <1>2, FS_RemoveElement
<1>5. Cardinality(tried) \in Nat /\ Cardinality(queue) \in Nat
  BY <1>2, FS_CardinalityType
<1>6. passSize = Cardinality(tried) + Cardinality(queue)
  BY DEF RemainingExact
<1>7. passSize' = Cardinality(tried') + Cardinality(queue')
  BY <1>3, <1>4, <1>5, <1>6
<1> QED BY <1>1, <1>7

(* Trying a file begins with taking it.                                    *)
LEMMA PassTries ==
  ASSUME IInv, raising = NotRaising, NEW f \in Files, TryWireguard(f) \/ TryOpenvpn(f)
  PROVE  IInv'
<1> USE DEF IInv, TypeOK, PassPoints, Goto, Take, envVars
<1>1. pc = "next" /\ Take(f)
  BY DEF TryWireguard, TryOpenvpn
<1>2. vpn' \in Vpns
  BY DownType DEF TryWireguard, Lower, TryOpenvpn, Results
<1>3. pc' \in PassPoints
  BY DEF TryWireguard, TryOpenvpn
<1>4. /\ raising' \in [step : Steps, file : WgFiles \cup {None}, handler : BOOLEAN]
      /\ pc' = "raising" <=> raising'.step # "none" /\ ~raising'.handler
      /\ raising'.step # "none" => raising'.file \in WgFiles
      /\ mqtt' = mqtt
  <2>1. CASE TryWireguard(f)
    <3>1. f \in WgFiles
      BY <2>1, KindType DEF TryWireguard, Lower
    <3> QED BY <2>1, <3>1 DEF TryWireguard, Lower, Steps
  <2>2. CASE TryOpenvpn(f)
    BY <2>2 DEF TryOpenvpn, threads, NotRaising, Steps
  <2> QED BY <2>1, <2>2
<1>5. TypeOK'
  BY <1>1, <1>2, <1>3, <1>4, TakeKeepsBook, SettingsAssumption DEF AwaitPoints, SyncPoints
<1>6. (PassBook /\ RemainingExact)'
  BY <1>1, <1>3, <1>4, TakeKeepsBook DEF PassBook, RemainingExact
<1>7. (Phase /\ TriedOnlyInOutage /\ GivesUpAfterAll /\ FileTruthful)'
  BY <1>1, <1>3 DEF Phase, TriedOnlyInOutage, GivesUpAfterAll, FileTruthful
<1> QED BY <1>5, <1>6, <1>7

(* The steps of bring_up_wireguard_file, whoever called it.                *)
LEMMA RaisingSteps ==
  ASSUME IInv, Raising
  PROVE  IInv'
<1> USE DEF IInv, TypeOK, Phase, PassBook, PassPoints, TriedOnlyInOutage, RemainingExact,
            GivesUpAfterAll, FileTruthful, AwaitPoints, SyncPoints, loopVars, wdVars, envVars
<1>1. raising.step # "none" /\ raising.file \in WgFiles /\ raising.file \in Files
  BY DEF Raising, RuntimeWritten, Raised, Fenced, Files
<1>2. vpn' \in Vpns
  <2>1. CASE RuntimeWritten
    BY <1>1, <2>1 DEF RuntimeWritten, Vpns
  <2>2. CASE Raised
    BY <2>2, UpType DEF Raised, Results
  <2>3. CASE Fenced
    <3>1. InitKillswitch(vpn).vpn \in Vpns
      BY KillswitchType DEF Results
    <3> QED BY <1>1, <2>3, <3>1, RecordType DEF Fenced
  <2> QED BY <2>1, <2>2, <2>3 DEF Raising
<1>3. \/ /\ pc' = pc
         /\ \E s \in {"up", "fence"} : raising' = [raising EXCEPT !.step = s]
      \/ /\ raising' = NotRaising
         /\ pc' = IF raising.handler THEN pc ELSE pc'
         /\ ~raising.handler => pc' \in {"next", "settle"}
  BY DEF Raising, RuntimeWritten, Raised, Fenced, Return
<1>4. UNCHANGED <<wdState, wdFile, loopVars, mqtt, qbt, envVars>>
  BY DEF Raising, RuntimeWritten, Raised, Fenced
<1>5. CASE pc' = pc /\ \E s \in {"up", "fence"} : raising' = [raising EXCEPT !.step = s]
  <2>1. PICK s \in {"up", "fence"} : raising' = [raising EXCEPT !.step = s]
    BY <1>5
  <2>2. /\ raising' \in [step : Steps, file : WgFiles \cup {None}, handler : BOOLEAN]
        /\ raising'.step # "none" /\ raising'.handler = raising.handler
        /\ raising'.file = raising.file
    BY <2>1 DEF Steps
  <2> QED BY <1>1, <1>2, <1>4, <1>5, <2>2
<1>6. CASE /\ raising' = NotRaising
           /\ pc' = IF raising.handler THEN pc ELSE pc'
           /\ ~raising.handler => pc' \in {"next", "settle"}
  <2>1. raising' \in [step : Steps, file : WgFiles \cup {None}, handler : BOOLEAN]
    BY <1>6 DEF NotRaising, Steps
  <2>2. raising'.step = "none" /\ pc' # "raising"
    BY <1>1, <1>6 DEF NotRaising
  <2>3. CASE raising.handler
    BY <1>1, <1>2, <1>4, <1>6, <2>1, <2>2, <2>3
  <2>4. CASE ~raising.handler
    <3>1. pc = "raising" /\ pc' \in {"next", "settle"}
      BY <1>1, <1>6, <2>4
    <3> QED BY <1>1, <1>2, <1>4, <2>1, <2>2, <3>1
  <2> QED BY <2>3, <2>4
<1> QED BY <1>3, <1>5, <1>6

(* The rest of a pass: the bring-up that was awaited, its verdict, the end. *)
LEMMA PassSteps ==
  ASSUME IInv, OpenvpnStarts \/ FileVerified \/ FileUseless \/ EnterCooldown
  PROVE  IInv'
<1> USE DEF IInv, TypeOK, Phase, PassBook, PassPoints, TriedOnlyInOutage, RemainingExact,
            GivesUpAfterAll, FileTruthful, AwaitPoints, SyncPoints,
            loopVars, envVars, threads, Goto, SetState
<1>1. CASE OpenvpnStarts
  <2>1. pc = "killed" /\ trying \in Files
    BY <1>1 DEF OpenvpnStarts
  <2>2. InitVpn(vpn, server).vpn \in Vpns
    BY InitVpnType DEF Results
  <2>3. RecordActive(InitVpn(vpn, server).vpn, trying) \in Vpns
    BY <2>1, <2>2, RecordType
  <2> QED BY <1>1, <2>2, <2>3 DEF OpenvpnStarts
<1>2. CASE FileVerified
  BY <1>2, SettingsAssumption DEF FileVerified, OnHealthy
<1>3. CASE FileUseless
  BY <1>3 DEF FileUseless
<1>4. CASE EnterCooldown
  <2>1. settings.cooldown # Invalid => settings.cooldown \in Nat
    BY SettingsAssumption DEF Settings
  <2> QED BY <1>4, <2>1 DEF EnterCooldown
<1> QED BY <1>1, <1>2, <1>3, <1>4

-----------------------------------------------------------------------------
(* What the user, the MQTT thread, the servers and the supervisor do.      *)
LEMMA CommandSteps ==
  ASSUME IInv,
         \/ VpnRestart \/ VpnRestartStarts
         \/ VpnDisconnect \/ KillswitchEnable \/ KillswitchDisable
         \/ \E f \in Files : ActivateWireguard(f)
  PROVE  IInv'
<1> USE DEF IInv
<1>1. vpn' \in Vpns /\ mqtt' \in Kinds \cup {None}
  <2>1. CASE VpnRestart
    BY <2>1, StopType DEF VpnRestart, TypeOK, Vpns
  <2>2. CASE VpnRestartStarts
    <3>1. StartTunnel(mqtt, vpn, server).vpn \in Vpns
      BY StartType DEF TypeOK, Results
    <3> QED BY <2>2, <3>1 DEF VpnRestartStarts
  <2>3. CASE VpnDisconnect
    BY <2>3, ControlType DEF VpnDisconnect, Command, threads, Results, TypeOK
  <2>4. CASE KillswitchEnable
    BY <2>4, KillswitchType DEF KillswitchEnable, Command, threads, Results, TypeOK
  <2>5. CASE KillswitchDisable
    BY <2>5, ControlType DEF KillswitchDisable, Command, threads, Results, TypeOK
  <2>6. CASE \E f \in Files : ActivateWireguard(f)
    BY <2>6, DownType DEF ActivateWireguard, Lower, Results, TypeOK
  <2> QED BY <2>1, <2>2, <2>3, <2>4, <2>5, <2>6
<1>2. UNCHANGED <<wdVars, qbt, server, settings, crashes>> /\ requests' \in 0..MaxRequests
  <2>1. requests' = requests \/ Request
    BY DEF VpnRestart, VpnRestartStarts, VpnDisconnect, KillswitchEnable,
       KillswitchDisable, ActivateWireguard, Command, envVars
  <2>2. requests' \in 0..MaxRequests
    BY <2>1, SettingsAssumption DEF Request, TypeOK
  <2> QED BY <2>2 DEF VpnRestart, VpnRestartStarts, VpnDisconnect, KillswitchEnable,
       KillswitchDisable, ActivateWireguard, Command, envVars
<1>3. /\ raising' \in [step : Steps, file : WgFiles \cup {None}, handler : BOOLEAN]
      /\ pc' = "raising" <=> raising'.step # "none" /\ ~raising'.handler
      /\ raising'.step # "none" => raising'.file \in WgFiles
  <2>1. CASE \E f \in Files : ActivateWireguard(f)
    <3>1. PICK f \in Files : ActivateWireguard(f)
      BY <2>1
    <3>2. f \in WgFiles
      BY <3>1, KindType DEF ActivateWireguard, Lower
    <3>3. pc # "raising" /\ raising' = [step |-> "write", file |-> f, handler |-> TRUE]
      BY <3>1 DEF ActivateWireguard, Lower, LoopFree, AwaitPoints
    <3> QED BY <1>2, <3>2, <3>3 DEF Steps, wdVars
  <2>2. CASE ~\E f \in Files : ActivateWireguard(f)
    <3>1. raising' = raising
      BY <2>2 DEF VpnRestart, VpnRestartStarts, VpnDisconnect, KillswitchEnable,
         KillswitchDisable, Command, threads
    <3> QED BY <1>2, <3>1 DEF TypeOK, PassBook, wdVars
  <2> QED BY <2>1, <2>2
<1>4. TypeOK'
  BY <1>1, <1>2, <1>3 DEF TypeOK, wdVars, loopVars
<1>5. (Phase /\ PassBook /\ TriedOnlyInOutage /\ RemainingExact /\ GivesUpAfterAll /\ FileTruthful)'
  BY <1>2, <1>3 DEF wdVars, loopVars, Phase, PassBook, PassPoints, TriedOnlyInOutage,
     RemainingExact, GivesUpAfterAll, FileTruthful
<1> QED BY <1>4, <1>5

LEMMA WorldSteps ==
  ASSUME IInv,
         \/ SetTorrents("paused") \/ SetTorrents("running") \/ UpdateSettings
         \/ ServerChanges \/ OpenvpnMoves \/ ApiRestarts
  PROVE  IInv'
<1> USE DEF IInv, TypeOK, Phase, PassBook, PassPoints, TriedOnlyInOutage, RemainingExact,
            GivesUpAfterAll, FileTruthful, AwaitPoints, SyncPoints,
            wdVars, loopVars, envVars, threads
<1>1. CASE SetTorrents("paused") \/ SetTorrents("running")
  BY <1>1, SettingsAssumption DEF SetTorrents, Request
<1>2. CASE UpdateSettings
  BY <1>2, SettingsAssumption DEF UpdateSettings, Request
<1>3. CASE ServerChanges
  BY <1>3 DEF ServerChanges
<1>4. CASE OpenvpnMoves
  <2>1. vpn' \in Vpns
    BY <1>4 DEF OpenvpnMoves, Vpns
  <2> QED BY <1>4, <2>1 DEF OpenvpnMoves
<1>5. CASE ApiRestarts
  BY <1>5, SettingsAssumption DEF ApiRestarts, NotRaising, Steps
<1> QED BY <1>1, <1>2, <1>3, <1>4, <1>5

-----------------------------------------------------------------------------
(* Every step keeps the invariant. *)
LEMMA NextIInv == IInv /\ [Next]_vars => IInv'
<1> SUFFICES ASSUME IInv, [Next]_vars PROVE IInv'
  OBVIOUS
<1>1. CASE WatchdogNext
  BY <1>1, RestingTicks, ReconnectSteps, PassBegins, PassTries, PassSteps, RaisingSteps
     DEF WatchdogNext, WatchdogTask
<1>2. CASE Environment
  BY <1>2, CommandSteps, WorldSteps DEF Environment
<1>3. CASE UNCHANGED vars
  BY <1>3 DEF vars, wdVars, loopVars, threads, envVars, IInv, TypeOK, Phase, PassBook, PassPoints,
     TriedOnlyInOutage, RemainingExact, GivesUpAfterAll, FileTruthful
<1> QED BY <1>1, <1>2, <1>3 DEF Next

(* The inductive invariant holds in every reachable state. *)
THEOREM Invariance == Spec => []IInv
BY InitIInv, NextIInv, PTL DEF Spec

(* Every variable keeps its type, for any files, settings and bounds.      *)
THEOREM TypeCorrect == Spec => []TypeOK
<1>1. IInv => TypeOK
  BY DEF IInv
<1> QED BY <1>1, Invariance, PTL

(* No file is left marked as tried by an earlier outage.                   *)
THEOREM BookIsClean == Spec => []TriedOnlyInOutage
<1>1. IInv => TriedOnlyInOutage
  BY DEF IInv
<1> QED BY <1>1, Invariance, PTL

(* The failover events count the files left to try correctly.              *)
THEOREM CountIsExact == Spec => []RemainingExact
<1>1. IInv => RemainingExact
  BY DEF IInv
<1> QED BY <1>1, Invariance, PTL

(* The loop rests only in monitoring, degraded or cooldown.                *)
THEOREM LoopRestsCalmly == Spec => []RestsCalmly
<1>1. IInv => RestsCalmly
  BY DEF IInv, Phase, RestsCalmly
<1> QED BY <1>1, Invariance, PTL

(* The watchdog gives up only after trying everything but one file.        *)
THEOREM CooldownIsEarned == Spec => []GivesUpAfterAll
<1>1. IInv => GivesUpAfterAll
  BY DEF IInv
<1> QED BY <1>1, Invariance, PTL

(* The published state file is the watchdog's state.                       *)
THEOREM FileIsTruthful == Spec => []FileTruthful
<1>1. IInv => FileTruthful
  BY DEF IInv
<1> QED BY <1>1, Invariance, PTL

(* Recovery is announced only on the evidence of a health check.           *)
THEOREM RecoveryIsVerified == Spec => RecoveryVerified
<1>1. ASSUME IInv, [Next]_vars,
             wdState \in {"reconnecting", "failing_over"}, wdState' = "monitoring"
      PROVE  HealthyNow
  <2> USE <1>1 DEF IInv, Phase, Goto, SetState
  <2>1. CASE WatchdogNext
    BY <2>1 DEF WatchdogNext, WatchdogTask, Raising, RuntimeWritten, Raised, Fenced, wdVars,
       StartLoop, CooldownTick, CooldownExpires, ResumeReturns,
       HealthyTick, ThresholdRaises, BelowThreshold, NotActing, StartReconnect, SidecarHealthy,
       SidecarUnhealthy, BackoffEnds, DoReconnect, DoReconnectStarts, Restarts, RestartVerified, RestartUseless,
       BeginFailover, TryWireguard, TryOpenvpn, Take, OpenvpnStarts, FileVerified,
       FileUseless, EnterCooldown, PauseReturns, UnhealthyTick, Checking
  <2>2. CASE Environment
    BY <2>2 DEF Environment, VpnRestart, VpnRestartStarts, VpnDisconnect, KillswitchEnable,
       KillswitchDisable, ActivateWireguard, Command, SetTorrents, UpdateSettings, ServerChanges, OpenvpnMoves,
       ApiRestarts, wdVars
  <2>3. CASE UNCHANGED vars
    BY <2>3 DEF vars, wdVars
  <2> QED BY <1>1, <2>1, <2>2, <2>3 DEF Next
<1>2. IInv /\ [Next]_vars =>
        [(wdState \in {"reconnecting", "failing_over"} /\ wdState' = "monitoring")
           => HealthyNow]_vars
  BY <1>1
<1> QED BY <1>2, Invariance, PTL DEF Spec, RecoveryVerified

-----------------------------------------------------------------------------
(* The watchdog implements the documented state machine.                   *)

LEMMA RefinesInit == Init => Book!FInit
BY DEF Init, Book!FInit

LEMMA RefinesWatchdogStep ==
  ASSUME IInv, WatchdogNext
  PROVE  [Book!FNext]_(Book!fvars)
<1> USE DEF IInv, Phase, PassPoints, TriedOnlyInOutage, Goto, SetState, loopVars,
            Book!FNext, Book!fvars
<1>1. CASE \/ StartLoop \/ CooldownTick \/ CooldownExpires \/ ResumeReturns
           \/ ThresholdRaises \/ NotActing \/ BackoffEnds \/ PauseReturns
  BY <1>1 DEF StartLoop, CooldownTick, CooldownExpires, ResumeReturns, ThresholdRaises,
     NotActing, UnhealthyTick, BackoffEnds, PauseReturns, Book!Begin, Book!Recover
<1>2. CASE HealthyTick \/ SidecarHealthy \/ RestartVerified \/ FileVerified
  BY <1>2 DEF HealthyTick, SidecarHealthy, RestartVerified, FileVerified, OnHealthy, Checking,
     Book!Recover
<1>3. CASE BelowThreshold \/ SidecarUnhealthy
  BY <1>3 DEF BelowThreshold, SidecarUnhealthy, UnhealthyTick, Checking, Book!Suspect
<1>4. CASE StartReconnect
  BY <1>4 DEF StartReconnect, UnhealthyTick, Checking, Book!Restart
<1>5. CASE \/ DoReconnect \/ DoReconnectStarts \/ RestartUseless
           \/ OpenvpnStarts \/ FileUseless \/ Raising
  BY <1>5 DEF DoReconnect, DoReconnectStarts, Restarts, RestartUseless, OpenvpnStarts,
     FileUseless, Raising, RuntimeWritten, Raised, Fenced, wdVars
<1>6. CASE BeginFailover
  BY <1>6 DEF BeginFailover, Book!StartPass
<1>7. CASE \E f \in Files : TryWireguard(f) \/ TryOpenvpn(f)
  <2>1. PICK f \in Files : pc = "next" /\ Take(f)
    BY <1>7 DEF TryWireguard, TryOpenvpn
  <2>2. f \in Files \ tried
    BY <2>1 DEF Take, PassBook
  <2> QED BY <2>1, <2>2 DEF Take, Book!TryFile
<1>8. CASE EnterCooldown
  BY <1>8 DEF EnterCooldown, Book!GiveUp
<1> QED BY <1>1, <1>2, <1>3, <1>4, <1>5, <1>6, <1>7, <1>8 DEF WatchdogNext, WatchdogTask

LEMMA RefinesEnvironmentStep ==
  ASSUME IInv, Environment
  PROVE  [Book!FNext]_(Book!fvars)
<1>1. CASE ApiRestarts
  BY <1>1 DEF ApiRestarts, Book!FNext, Book!Forget
<1>2. CASE ~ApiRestarts
  BY <1>2 DEF Environment, VpnRestart, VpnRestartStarts, VpnDisconnect, KillswitchEnable,
     KillswitchDisable, ActivateWireguard, Command, SetTorrents, UpdateSettings, ServerChanges,
     OpenvpnMoves, wdVars, loopVars, Book!fvars
<1> QED BY <1>1, <1>2

(* Each step of the loop is a documented transition or leaves the state    *)
(* and the book alone; no file is tried twice in one outage.               *)
THEOREM Refinement == Spec => FollowsTheBook
<1>1. IInv /\ [Next]_vars => [Book!FNext]_(Book!fvars)
  BY RefinesWatchdogStep, RefinesEnvironmentStep
     DEF Next, vars, wdVars, loopVars, Book!fvars
<1> QED BY <1>1, RefinesInit, Invariance, PTL DEF Spec, FollowsTheBook, Book!FSpec

-----------------------------------------------------------------------------
(* Without a killswitch nothing is loaded.  While an activation makes one, *)
(* the runtime file is the one it wrote or, after init-vpn.sh, the first;  *)
(* and wg0 does not run another file while it is the one it wrote.         *)
Fenceable(v) ==
  /\ ~KillswitchEnabled => v.rules = Open
  /\ raising.step \in {"up", "fence"} => v.runtime \in {raising.file, FirstWg}
  /\ raising.step = "fence" /\ v.runtime = raising.file => v.wg \in {None, raising.file}

(* Commands of either thread keep that much, whenever they are run.        *)
LEMMA CommandsKeepFence ==
  ASSUME NEW v \in Vpns, Fenceable(v), NEW type
  PROVE  /\ Fenceable(StopTunnel(v))
         /\ Fenceable(StartTunnel(type, v, server).vpn)
         /\ Fenceable(DoVpnDisconnect(v).vpn)
         /\ Fenceable(InitKillswitch(v).vpn)
         /\ Fenceable(DoKillswitchDisable(v).vpn)
<1> USE DEF Done, Failed, Vpns
<1>1. /\ Fenceable(WgQuickDown(v).vpn) /\ Fenceable(KillallOpenvpn(v).vpn)
      /\ Fenceable(WgQuickUp(v, server).vpn)
  BY DEF WgQuickDown, KillallOpenvpn, WgQuickUp, Fenceable
<1>2. Fenceable(StopTunnel(v)) /\ Fenceable(DoVpnDisconnect(v).vpn)
  BY <1>1 DEF StopTunnel, DoVpnDisconnect
<1>3. Fenceable(InitVpn(v, server).vpn)
  <2>1. Fenceable(InitWireguard(v, server).vpn)
    <3> DEFINE w == [v EXCEPT !.type = "wireguard", !.runtime = FirstWg]
    <3>1. w.wg = v.wg /\ w.runtime = FirstWg /\ w.rules = v.rules
      OBVIOUS
    <3>2. Fenceable(w)
      BY <3>1 DEF Fenceable
    <3>3. /\ WgQuickUp(w, server).vpn.runtime = FirstWg
          /\ WgQuickUp(w, server).vpn.rules = v.rules
          /\ WgQuickUp(w, server).vpn.wg \in {w.wg, FirstWg}
      BY <3>1 DEF WgQuickUp
    <3>4. /\ InitWireguard(v, server).vpn.runtime = FirstWg
          /\ InitWireguard(v, server).vpn.rules = v.rules
          /\ InitWireguard(v, server).vpn.wg = WgQuickUp(w, server).vpn.wg
      BY <3>1 DEF InitWireguard, WgQuickUp
    <3> HIDE DEF w
    <3> QED BY <3>1, <3>2, <3>3, <3>4 DEF Fenceable
  <2>2. Fenceable(InitOpenvpn(v, server).vpn)
    BY DEF InitOpenvpn, Fenceable
  <2> QED BY <2>1, <2>2 DEF InitVpn
<1>4. Fenceable(StartTunnel(type, v, server).vpn)
  BY <1>1, <1>3 DEF StartTunnel
<1>5. Fenceable(InitKillswitch(v).vpn) /\ Fenceable(DoKillswitchDisable(v).vpn)
  BY DEF InitKillswitch, DoKillswitchDisable, Fenceable, Open
<1> QED BY <1>2, <1>4, <1>5

(* The boot scripts load a killswitch only where one is enabled.           *)
LEMMA FenceableInit == Init => Fenceable(vpn)
BY DEF Init, Fenceable, BootVpn, InitKillswitch, Endpoint, NotRaising, Done, Failed, Open

(* Every step keeps the three facts.                                       *)
LEMMA FenceableNext ==
  ASSUME IInv, Fenceable(vpn), [Next]_vars
  PROVE  Fenceable(vpn)'
<1>0. vpn \in Vpns
  BY DEF IInv, TypeOK
<1> DEFINE Quiet(v) == ~KillswitchEnabled => v.rules = Open
<1>1. CASE WatchdogTask /\ raising = NotRaising
  <2>1. raising' = NotRaising \/ raising'.step = "write"
    BY <1>1 DEF WatchdogTask, NotRaising, threads, StartLoop, CooldownTick, CooldownExpires,
       ResumeReturns, HealthyTick, ThresholdRaises, BelowThreshold, NotActing, StartReconnect,
       SidecarHealthy, SidecarUnhealthy, BackoffEnds, DoReconnect, DoReconnectStarts, Restarts,
       RestartVerified, RestartUseless, BeginFailover, TryWireguard, Lower, TryOpenvpn,
       OpenvpnStarts, FileVerified, FileUseless, EnterCooldown, PauseReturns, UnhealthyTick
  <2>2. Quiet(WgQuickDown(vpn).vpn) /\ Quiet(KillallOpenvpn(vpn).vpn)
    BY <1>0 DEF Fenceable, WgQuickDown, KillallOpenvpn, Done, Failed, Vpns
  <2>3. /\ Quiet(StopTunnel(vpn))
        /\ \A type \in Kinds : Quiet(StartTunnel(type, vpn, server).vpn)
    BY <1>0, CommandsKeepFence DEF Fenceable
  <2>4. /\ Quiet(InitVpn(vpn, server).vpn)
        /\ Quiet(RecordActive(InitVpn(vpn, server).vpn, trying))
    <3>1. StartTunnel("openvpn", vpn, server) = InitVpn(vpn, server)
      BY DEF StartTunnel
    <3>2. InitVpn(vpn, server).vpn \in Vpns
      BY <1>0, InitVpnType DEF Results
    <3> QED BY <2>3, <3>1, <3>2 DEF RecordActive, Vpns, Kinds
  <2>5. Quiet(vpn')
    BY <1>1, <2>2, <2>3, <2>4 DEF Kinds, Fenceable, WatchdogTask, StartLoop, CooldownTick,
       CooldownExpires,
       ResumeReturns, HealthyTick, ThresholdRaises, BelowThreshold, NotActing, StartReconnect,
       SidecarHealthy, SidecarUnhealthy, BackoffEnds, DoReconnect, DoReconnectStarts, Restarts,
       RestartVerified, RestartUseless, BeginFailover, TryWireguard, Lower, TryOpenvpn,
       OpenvpnStarts, FileVerified, FileUseless, EnterCooldown, PauseReturns, UnhealthyTick
  <2> QED BY <2>1, <2>5 DEF Fenceable, NotRaising
<1>2. CASE Raising
  <2>1. CASE RuntimeWritten
    BY <1>0, <2>1 DEF RuntimeWritten, Fenceable, Vpns, IInv, TypeOK
  <2>2. CASE Raised
    BY <1>0, <2>2 DEF Raised, Return, NotRaising, WgQuickUp, Done, Failed, Fenceable, Vpns,
       IInv, TypeOK
  <2>3. CASE Fenced
    <3>1. InitKillswitch(vpn).vpn \in Vpns /\ Quiet(InitKillswitch(vpn).vpn)
      BY <1>0, KillswitchType, CommandsKeepFence DEF Results, Fenceable
    <3>2. Quiet(vpn') /\ raising' = NotRaising
      BY <2>3, <3>1 DEF Fenced, Return, RecordActive, Vpns
    <3> QED BY <3>2 DEF Fenceable, NotRaising
  <2> QED BY <1>2, <2>1, <2>2, <2>3 DEF Raising
<1>3. CASE \E f \in Files : ActivateWireguard(f)
  BY <1>0, <1>3 DEF ActivateWireguard, Lower, WgQuickDown, Done, Failed, Fenceable, Vpns
<1>4. CASE \/ VpnRestart \/ VpnRestartStarts \/ VpnDisconnect
           \/ KillswitchEnable \/ KillswitchDisable
  <2>1. raising' = raising
    BY <1>4 DEF VpnRestart, VpnRestartStarts, VpnDisconnect, KillswitchEnable,
       KillswitchDisable, Command, threads
  <2>2. Fenceable(vpn')
    BY <1>0, <1>4, CommandsKeepFence DEF VpnRestart, VpnRestartStarts, VpnDisconnect,
       KillswitchEnable, KillswitchDisable, Command
  <2> QED BY <2>1, <2>2 DEF Fenceable
<1>5. CASE OpenvpnMoves
  BY <1>0, <1>5 DEF OpenvpnMoves, Fenceable, Vpns, threads
<1>6. CASE \/ SetTorrents("paused") \/ SetTorrents("running") \/ UpdateSettings
           \/ ServerChanges \/ UNCHANGED vars
  BY <1>6 DEF SetTorrents, UpdateSettings, ServerChanges, vars, threads, Fenceable
<1>7. CASE ApiRestarts
  BY <1>7 DEF ApiRestarts, NotRaising, Fenceable
<1> QED BY <1>1, <1>2, <1>3, <1>4, <1>5, <1>6, <1>7 DEF Next, WatchdogNext, Environment

(* What the last step of an activation finds.                              *)
LEMMA FencedFollows ==
  ASSUME IInv, Fenceable(vpn), [Next]_vars, raising.step = "fence", raising'.step = "none",
         crashes' = crashes, vpn.type = "wireguard", vpn.runtime = raising.file
  PROVE  \/ vpn'.rules = Open
         \/ vpn'.rules = [iface |-> vpn.iface, peer |-> raising.file]
<1>0. vpn \in Vpns /\ raising # NotRaising /\ raising.file # None
  BY FilesAssumption DEF IInv, TypeOK, NotRaising, PassBook, Files
<1>1. Fenced
  BY <1>0, SettingsAssumption DEF Next, WatchdogNext, Raising, Environment, RuntimeWritten, Raised, VpnRestart,
     VpnRestartStarts, VpnDisconnect, KillswitchEnable, KillswitchDisable, Command,
     ActivateWireguard, Lower, SetTorrents, UpdateSettings, ServerChanges, OpenvpnMoves,
     ApiRestarts, LoopFree, vars, threads, IInv, TypeOK
<1> DEFINE ks == InitKillswitch(vpn).vpn
<1>2. ks.rules = Open \/ ks.rules = [iface |-> vpn.iface, peer |-> raising.file]
  BY <1>0 DEF InitKillswitch, Endpoint, Fenceable, Done, Failed, Vpns
<1>3. ks \in Vpns
  BY <1>0, KillswitchType DEF Results
<1>4. vpn'.rules = ks.rules
  BY <1>1, <1>3 DEF Fenced, RecordActive, Vpns
<1> QED BY <1>2, <1>4

(* An activation that claims success leaves a killswitch for its own file, *)
(* whatever the MQTT thread, the user and the servers do during its steps, *)
(* with files of both types, as long as the state files say "wireguard"    *)
(* and init-vpn.sh has not replaced the runtime file meanwhile             *)
(* (constants.py:200-228).                                                 *)
THEOREM KillswitchIsFollowed == Spec => KillswitchFollows
<1>1. IInv /\ Fenceable(vpn) /\ [Next]_vars => Fenceable(vpn)'
  BY FenceableNext
<1>2. IInv /\ Fenceable(vpn) /\ [Next]_vars =>
        [(raising.step = "fence" /\ raising'.step = "none" /\ crashes' = crashes
          /\ vpn.type = "wireguard" /\ vpn.runtime = raising.file)
          => \/ vpn'.rules = Open
             \/ vpn'.rules = [iface |-> vpn.iface, peer |-> raising.file]]_vars
  BY FencedFollows
<1> QED BY <1>1, <1>2, FenceableInit, Invariance, PTL DEF Spec, KillswitchFollows

-----------------------------------------------------------------------------
(* Next to gluetun the task never leaves the points of a plain tick.       *)
SidecarInv ==
  settings.sidecar =>
             /\ pc \in {"boot", "wait", "backoff"}
             /\ wdState \in {"idle", "monitoring", "degraded"}
             /\ tried = {}
             /\ raising.step # "none" => raising.handler

(* In sidecar mode the watchdog observes: it counts failed checks and      *)
(* publishes them, and never escalates (_run branches before the health    *)
(* check of the standalone mode).                                          *)
THEOREM SidecarNeverActs == Spec => []SidecarOnlyWatches
<1>1. Init => SidecarInv
  BY DEF Init, SidecarInv, NotRaising
<1>2. IInv /\ SidecarInv /\ [Next]_vars => SidecarInv'
  <2> SUFFICES ASSUME IInv, SidecarInv, [Next]_vars PROVE SidecarInv'
    OBVIOUS
  <2>a. settings'.sidecar = settings.sidecar
    BY DEF Next, WatchdogNext, WatchdogTask, Raising, RuntimeWritten, Raised, Fenced,
       Environment, StartLoop, CooldownTick, CooldownExpires,
       ResumeReturns, HealthyTick, ThresholdRaises, BelowThreshold, NotActing,
       StartReconnect, SidecarHealthy, SidecarUnhealthy, BackoffEnds, DoReconnect,
       DoReconnectStarts, Restarts, RestartVerified, RestartUseless, BeginFailover, TryWireguard, TryOpenvpn, Take,
       OpenvpnStarts, FileVerified, FileUseless, EnterCooldown, PauseReturns,
       UnhealthyTick, VpnRestart, VpnRestartStarts, VpnDisconnect, KillswitchEnable, KillswitchDisable,
       ActivateWireguard, Command, SetTorrents, UpdateSettings, ServerChanges,
       OpenvpnMoves, ApiRestarts, envVars, vars
  <2> SUFFICES ASSUME settings.sidecar, settings'.sidecar PROVE SidecarInv'
    BY <2>a DEF SidecarInv
  <2>1. /\ pc \in {"boot", "wait", "backoff"}
        /\ wdState \in {"idle", "monitoring", "degraded"} /\ tried = {}
        /\ raising.step # "none" => raising.handler
    BY DEF SidecarInv
  <2>2. CASE raising = NotRaising /\ WatchdogTask
    <3>1. pc # "next"
      BY <2>1
    <3>2. raising' = NotRaising
      BY <2>2, <3>1 DEF Goto, UnhealthyTick, threads, WatchdogTask, StartLoop, CooldownTick,
         CooldownExpires, ResumeReturns, HealthyTick, ThresholdRaises, BelowThreshold,
         NotActing, StartReconnect, SidecarHealthy, SidecarUnhealthy, BackoffEnds,
         DoReconnect, DoReconnectStarts, Restarts, RestartVerified, RestartUseless,
         BeginFailover, TryWireguard, TryOpenvpn, OpenvpnStarts, FileVerified, FileUseless,
         EnterCooldown, PauseReturns
    <3>3. /\ pc' \in {"boot", "wait", "backoff"}
          /\ wdState' \in {"idle", "monitoring", "degraded"}
          /\ tried' = {}
      BY <2>1, <2>2 DEF Goto, SetState, OnHealthy, Checking, UnhealthyTick,
         WatchdogTask, StartLoop, CooldownTick, CooldownExpires, ResumeReturns, HealthyTick,
         ThresholdRaises, BelowThreshold, NotActing, StartReconnect, SidecarHealthy,
         SidecarUnhealthy, BackoffEnds, DoReconnect, DoReconnectStarts, Restarts,
         RestartVerified, RestartUseless, BeginFailover, TryWireguard, TryOpenvpn,
         OpenvpnStarts, FileVerified, FileUseless, EnterCooldown, PauseReturns, loopVars
    <3> QED BY <3>2, <3>3 DEF SidecarInv, NotRaising
  <2>5. CASE Raising
    <3>1. raising.handler /\ raising \in [step : Steps, file : WgFiles \cup {None}, handler : BOOLEAN]
      BY <2>1, <2>5 DEF Raising, RuntimeWritten, Raised, Fenced, IInv, TypeOK
    <3>2. pc' = pc /\ wdState' = wdState /\ tried' = tried
      BY <2>5, <3>1 DEF Raising, RuntimeWritten, Raised, Fenced, Return, wdVars, loopVars
    <3>3. raising' = NotRaising \/ raising'.handler
      BY <2>5, <3>1 DEF Raising, RuntimeWritten, Raised, Fenced, Return
    <3> QED BY <2>1, <3>2, <3>3 DEF SidecarInv, NotRaising
  <2>3. CASE Environment
    <3>1. /\ pc' \in {"boot", "wait", "backoff"}
          /\ wdState' \in {"idle", "monitoring", "degraded"}
          /\ tried' = {}
      BY <2>1, <2>3 DEF Environment, VpnRestart, VpnRestartStarts, VpnDisconnect,
         KillswitchEnable, KillswitchDisable, ActivateWireguard, Command, SetTorrents,
         UpdateSettings, ServerChanges, OpenvpnMoves, ApiRestarts, wdVars, loopVars
    <3>2. CASE \E f \in Files : ActivateWireguard(f)
      BY <3>1, <3>2 DEF SidecarInv, ActivateWireguard, Lower
    <3>3. CASE ~\E f \in Files : ActivateWireguard(f)
      <4>1. raising' = raising \/ raising' = NotRaising
        BY <2>3, <3>3 DEF Environment, VpnRestart, VpnRestartStarts, VpnDisconnect,
           KillswitchEnable, KillswitchDisable, Command, SetTorrents,
           UpdateSettings, ServerChanges, OpenvpnMoves, ApiRestarts, threads
      <4> QED BY <2>1, <3>1, <4>1 DEF SidecarInv, NotRaising
    <3> QED BY <3>2, <3>3
  <2>4. CASE UNCHANGED vars
    BY <2>1, <2>4 DEF SidecarInv, vars, wdVars, loopVars, threads
  <2> QED BY <2>2, <2>3, <2>4, <2>5 DEF Next, WatchdogNext
<1>3. SidecarInv => SidecarOnlyWatches
  BY DEF SidecarInv, SidecarOnlyWatches
<1> QED BY <1>1, <1>2, <1>3, Invariance, PTL DEF Spec
=============================================================================
