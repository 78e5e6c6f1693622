----------------------------- MODULE ShadowProofs -----------------------------
(***************************************************************************)
(* Proofs about ShadowRuns, for every value of its constants.              *)
(***************************************************************************)
EXTENDS ShadowRuns, TLAPS

-----------------------------------------------------------------------------
(* The alarm bank's operators. *)

\* The voltage hysteresis of _voltage_alarm_target returns an alarm level.
LEMMA TargetIsLevel ==
    ASSUME NEW obs, NEW current \in Level
    PROVE  VoltageAlarmTarget(obs, current) \in Level
BY DEF VoltageAlarmTarget, RawVoltageLevel, Level

\* One update of one path: the new state is well formed, it is settled exactly if
\* its level is the target, and otherwise it waits for the target for less than the
\* delay of that move.
LEMMA DebouncedSettlesOrWaits ==
    ASSUME NEW alarm \in AlarmState, NEW target \in Level, NEW now \in Nat
    PROVE  LET after == Debounced(alarm, target, now)
               since == CandidateSince(alarm, target, now)
               delay == TransitionDelay(alarm.level, target)
           IN  /\ after \in AlarmState
               /\ \/ /\ after.level = target
                     /\ after.candidate_since = None
                     /\ alarm.level = target \/ now - since >= delay
                  \/ /\ after.level = alarm.level
                     /\ alarm.level # target
                     /\ after.candidate = target
                     /\ after.candidate_since = since
                     /\ now - since < delay
<1> USE AlarmDelaysAssumption
<1>1. CandidateSince(alarm, target, now) \in Nat
  BY DEF CandidateSince, AlarmState, Since, None
<1>2. TransitionDelay(alarm.level, target) \in Nat
  BY DEF TransitionDelay
<1> DEFINE since == CandidateSince(alarm, target, now)
           waits == target # alarm.level /\ now - since < TransitionDelay(alarm.level, target)
<1>3. CASE waits
  <2>1. Debounced(alarm, target, now) =
          [alarm EXCEPT !.candidate = target, !.candidate_since = since]
    BY <1>3 DEF Debounced
  <2> HIDE DEF since
  <2> QED
    BY <1>1, <1>3, <2>1 DEF AlarmState, Since, since
<1>4. CASE ~waits
  <2>1. Debounced(alarm, target, now) =
          [level |-> target, candidate |-> target, candidate_since |-> None]
    BY <1>4 DEF Debounced
  <2>2. alarm.level \in Level
    BY DEF AlarmState
  <2> HIDE DEF since
  <2> QED
    BY <1>1, <1>2, <1>4, <2>1, <2>2 DEF AlarmState, Since, since
<1> QED
  BY <1>3, <1>4

-----------------------------------------------------------------------------
(* The inductive invariant. *)

LEMMA InitInv == InitRuns => IInv
<1> SUFFICES ASSUME InitRuns PROVE IInv
  OBVIOUS
<1> USE ShadowTimesAssumption DEF InitRuns, Init
<1>1. RunsTypeOK
  <2>1. clock \in Times /\ None \in Since0 /\ 0 \in Level
    BY DEF Times, Since0, Level
  <2>2. NewAlarm \in AlarmState
    BY DEF NewAlarm, AlarmState, Level, Since
  <2>3. lifecycle_state \in Lifecycles
    BY DEF Lifecycles
  <2> QED
    BY <2>1, <2>2, <2>3 DEF RunsTypeOK, TypeOK
<1>2. TimesInv
  BY DEF TimesInv, None
<1>3. LifecycleInv /\ OutageInv /\ CvlInv
  BY DEF LifecycleInv, OutageInv, CvlInv, Connected, LostStates, None
<1>4. AlarmInv
  BY DEF AlarmInv, AlarmPathInv, NewAlarm, None
<1> QED
  BY <1>1, <1>2, <1>3, <1>4 DEF IInv

\* The times the cache and the step keep stay within the bound.
LEMMA StepTimes ==
    ASSUME IInv, Steps /\ RecordRuns
    PROVE  TimesInv'
<1> USE ShadowTimesAssumption
<1>1. PICK known \in BOOLEAN, target \in CvlTargets, obs \in VoltageObs,
           other \in [OtherAlarms -> Level] : Step(known, target, obs, other)
  BY DEF Steps
<1>2. clock' = clock /\ last_step_timestamp' = clock /\ clock \in Nat
      /\ last_step_timestamp \in None..clock
  BY <1>1 DEF Step, cache_vars, IInv, RunsTypeOK, TypeOK, TimesInv, Times, Since0, None
<1>3. {ready_run', target_run', outage_run'} \subseteq (None..clock)
  BY <1>2 DEF RecordRuns, Extended, IInv, TimesInv, None
<1>4. ASSUME NEW p \in AlarmPaths
      PROVE  level_run'[p] <= clock \/ level_run'[p] = 0
  BY <1>2 DEF RecordRuns, IInv, TimesInv, RunsTypeOK, Times, None
<1> QED
  BY <1>2, <1>3, <1>4 DEF TimesInv

LEMMA StepLifecycle ==
    ASSUME IInv, Steps /\ RecordRuns
    PROVE  LifecycleInv' /\ OutageInv'
<1> USE ShadowTimesAssumption
<1>1. PICK known \in BOOLEAN, target \in CvlTargets, obs \in VoltageObs,
           other \in [OtherAlarms -> Level] : Step(known, target, obs, other)
  BY DEF Steps
<1>2. ready_now' \in BOOLEAN /\ clock \in Nat
  BY <1>1 DEF Step, can_alive, control_fresh, Within, IInv, RunsTypeOK, TypeOK, Times
<1>3. ready_run' = IF ready_now' THEN Extended(ready_run) ELSE None
  BY DEF RecordRuns
<1>4. LifecycleInv'
  <2> USE <1>2, <1>3 DEF IInv, LifecycleInv, RunsTypeOK, TypeOK, Extended, LostStates,
                         Loss, ReadySince, Times, Since0, None
  <2>1. CASE FromStarting(ready_now')
    BY <2>1 DEF FromStarting
  <2>2. CASE FromOnline(ready_now')
    BY <2>2 DEF FromOnline
  <2>3. CASE FromLost(ready_now')
    BY <2>3 DEF FromLost
  <2>4. CASE FromReconnecting(ready_now')
    BY <2>4 DEF FromReconnecting
  <2> QED
    BY <1>1, <2>1, <2>2, <2>3, <2>4 DEF Step, AdvanceLifecycle
<1>5. OutageInv'
  BY <1>1, <1>2, <1>4 DEF Step, CountBolLoss, BolLossActive, RecordRuns, Extended, Connected,
       IInv, OutageInv, None
<1> QED
  BY <1>4, <1>5

\* The levels the lifecycle passes on to the bank are alarm levels.
LEMMA StepRawLevels ==
    ASSUME IInv, Steps /\ RecordRuns
    PROVE  raw_levels' \in [AlarmPaths -> Level]
<1>1. PICK known \in BOOLEAN, target \in CvlTargets, obs \in VoltageObs,
           other \in [OtherAlarms -> Level] : Step(known, target, obs, other)
  BY DEF Steps
<1> DEFINE seen == IF control_fresh THEN obs ELSE NoObs
<1>2. raw_levels' = RawLevels(seen, other)
  BY <1>1 DEF Step, UpdateAlarms
<1>3. VoltageAlarmTarget(seen, alarm_bank[Voltage].level) \in Level
  <2>1. alarm_bank[Voltage].level \in Level
    BY DEF IInv, RunsTypeOK, TypeOK, AlarmState, AlarmPaths
  <2> HIDE DEF seen
  <2> QED
    BY <2>1, TargetIsLevel
<1>4. StaleLevel \in Level /\ 0 \in Level
  BY DEF StaleLevel, Level
<1> HIDE DEF seen
<1> QED
  BY <1>2, <1>3, <1>4 DEF RawLevels, AlarmPaths

LEMMA StepAlarms ==
    ASSUME IInv, Steps /\ RecordRuns
    PROVE  /\ alarm_bank' \in [AlarmPaths -> AlarmState]
           /\ AlarmInv'
           /\ AlarmMoveIsQualified
<1> USE AlarmDelaysAssumption
<1>1. PICK known \in BOOLEAN, target \in CvlTargets, obs \in VoltageObs,
           other \in [OtherAlarms -> Level] : Step(known, target, obs, other)
  BY DEF Steps
<1>2. alarm_bank' = [p \in AlarmPaths |-> Debounced(alarm_bank[p], raw_levels'[p], clock)]
  BY <1>1 DEF Step, UpdateAlarms
<1>3. clock' = clock /\ last_step_timestamp' = clock /\ clock \in Nat
  BY <1>1 DEF Step, cache_vars, IInv, RunsTypeOK, TypeOK, Times
<1>4. ASSUME NEW p \in AlarmPaths
      PROVE  /\ alarm_bank'[p] \in AlarmState
             /\ AlarmPathInv(p)'
             /\ alarm_bank'[p].level # alarm_bank[p].level =>
                  /\ alarm_bank'[p].level = raw_levels'[p]
                  /\ clock - level_run'[p] >=
                       TransitionDelay(alarm_bank[p].level, alarm_bank'[p].level)
  <2> DEFINE old == alarm_bank[p]
             raw == raw_levels'[p]
             since == CandidateSince(old, raw, clock)
  <2>1. old \in AlarmState /\ raw \in Level
    BY StepRawLevels DEF IInv, RunsTypeOK, TypeOK
  <2>2. alarm_bank'[p] = Debounced(old, raw, clock)
    BY <1>2
  <2>3. /\ alarm_bank'[p] \in AlarmState
        /\ \/ /\ alarm_bank'[p].level = raw
              /\ alarm_bank'[p].candidate_since = None
              /\ old.level = raw \/ clock - since >= TransitionDelay(old.level, raw)
           \/ /\ alarm_bank'[p].level = old.level
              /\ old.level # raw
              /\ alarm_bank'[p].candidate = raw
              /\ alarm_bank'[p].candidate_since = since
              /\ clock - since < TransitionDelay(old.level, raw)
    BY <1>3, <2>1, <2>2, DebouncedSettlesOrWaits
  <2>4. old.level # raw => since = level_run'[p]
    <3>1. AlarmPathInv(p) /\ level_run[p] \in Times
      BY DEF IInv, AlarmInv, RunsTypeOK
    <3>2. level_run'[p] = IF raw = raw_levels[p] THEN level_run[p] ELSE clock
      BY DEF RecordRuns
    <3>3. CASE old.candidate_since = None
      <4>1. since = clock
        BY <3>3 DEF CandidateSince
      <4>2. old.level = raw_levels[p]
        BY <3>1, <3>3 DEF AlarmPathInv
      <4> QED
        BY <3>2, <4>1, <4>2
    <3>4. CASE old.candidate_since # None
      BY <3>1, <3>2, <3>4 DEF AlarmPathInv, CandidateSince
    <3> QED
      BY <3>3, <3>4
  <2>5. since \in Nat
    BY <1>3, <2>1 DEF CandidateSince, AlarmState, Since, None
  <2> HIDE DEF since
  <2> QED
    BY <1>3, <2>3, <2>4, <2>5 DEF AlarmPathInv, None
<1> QED
  BY <1>2, <1>4 DEF AlarmInv, AlarmMoveIsQualified

\* What a step leaves of the CVL filter's state: it is disconnected, or the published
\* limit is the target, or a higher target is waiting and is not due.
LEMMA StepCvl ==
    ASSUME IInv, Steps /\ RecordRuns
    PROVE  /\ {published_cvl_v', cvl_raise_candidate_v', cvl_target'} \subseteq CvlTargets \cup {None}
           /\ cvl_raise_candidate_since' \in Since0
           /\ CvlInv'
           /\ CvlRiseIsQualified
<1> USE ShadowTimesAssumption, ShadowInputsAssumption
<1>1. PICK known \in BOOLEAN, target \in CvlTargets, obs \in VoltageObs,
           other \in [OtherAlarms -> Level] : Step(known, target, obs, other)
  BY DEF Steps
<1>2. clock' = clock /\ last_step_timestamp' = clock /\ clock \in Times /\ Times \subseteq Nat
  BY <1>1 DEF Step, cache_vars, IInv, RunsTypeOK, TypeOK, Times
<1>3. ApplyCvlTransition(target)
  BY <1>1 DEF Step
<1>4. target_run' = IF cvl_target' = None THEN None
                    ELSE IF cvl_target' = cvl_target THEN target_run ELSE clock
  BY DEF RecordRuns
<1>5. /\ {published_cvl_v, cvl_raise_candidate_v, cvl_target} \subseteq CvlTargets \cup {None}
      /\ cvl_raise_candidate_since \in Since0
      /\ target_run \in Since0
      /\ CvlInv
  BY DEF IInv, RunsTypeOK, TypeOK
<1>6. target \in Nat /\ target # None /\ CvlTargets \subseteq Nat
  BY DEF None
<1>7. published_cvl_v \in Nat \cup {None}
  BY <1>5, <1>6
<1>8. Connected' <=> lifecycle_state' = "online"
  BY DEF Connected
<1>9. CASE ~Connected'
  <2>1. CvlDisconnected
    BY <1>3, <1>8, <1>9 DEF ApplyCvlTransition
  <2>2. published_cvl_v' = published_cvl_v
    BY <2>1 DEF CvlDisconnected
  <2> QED
    BY <1>4, <1>5, <1>9, <1>7, <2>1, <2>2
       DEF CvlDisconnected, NoCandidate, CvlInv, CvlRiseIsQualified,
         Since0, None
<1>10. CASE Connected'
  <2>1. CvlConnected(target) /\ cvl_target' = target
    BY <1>3, <1>8, <1>10 DEF ApplyCvlTransition, CvlConnected
  <2>2. target_run' = IF target = cvl_target THEN target_run ELSE clock
    BY <1>4, <1>6, <2>1
  <2>3. target_run' # None
    BY <1>2, <1>5, <1>6, <2>2 DEF CvlInv, None
  <2>4. CASE CvlLower(target) \/ target = published_cvl_v
    <3>1. CvlAdopt(target)
      BY <2>1, <2>4 DEF CvlConnected
    <3>2. ~(published_cvl_v # None /\ published_cvl_v' > published_cvl_v)
      BY <1>6, <1>7, <2>4, <3>1 DEF CvlAdopt, CvlLower, None
    <3> QED
      BY <1>10, <1>6, <2>1, <2>3, <3>1, <3>2
         DEF CvlAdopt, NoCandidate, CvlInv, CvlRiseIsQualified, Since0
  <2>5. CASE ~CvlLower(target) /\ target # published_cvl_v /\ CvlRaiseDue(target)
    <3>1. CvlAdopt(target)
      BY <2>1, <2>5 DEF CvlConnected
    <3>2. target = cvl_target /\ cvl_raise_candidate_since = target_run
      BY <1>5, <1>6, <2>5 DEF CvlRaiseDue, CvlInv
    <3>3. clock - target_run' >= CvlRaise
      BY <2>2, <2>5, <3>2 DEF CvlRaiseDue
    <3> QED
      BY <1>10, <1>6, <2>1, <2>3, <3>1, <3>3
         DEF CvlAdopt, NoCandidate, CvlInv, CvlRiseIsQualified, Since0
  <2>6. CASE ~CvlLower(target) /\ target # published_cvl_v /\ ~CvlRaiseDue(target)
    <3>1. CvlWait(target)
      BY <2>1, <2>6 DEF CvlConnected, CvlLower
    <3>2. published_cvl_v \in Nat /\ published_cvl_v < target
      BY <1>6, <1>7, <2>6 DEF CvlLower, None
    <3>3. cvl_raise_candidate_since' = target_run'
      <4>1. CASE target = cvl_raise_candidate_v
        BY <1>5, <1>6, <2>2, <3>1, <4>1 DEF CvlWait, CvlInv
      <4>2. CASE target # cvl_raise_candidate_v
        <5>1. target # cvl_target
          BY <1>5, <1>6, <2>6, <3>2, <4>2 DEF CvlInv
        <5> QED
          BY <2>2, <3>1, <4>2, <5>1 DEF CvlWait
      <4> QED
        BY <4>1, <4>2
    <3>4. target_run' \in Times /\ clock - target_run' < CvlRaise
      <4>1. CASE target = cvl_raise_candidate_v
        BY <1>2, <1>5, <1>6, <2>2, <2>6, <4>1 DEF CvlRaiseDue, CvlInv, Since0, Times, None
      <4>2. CASE target # cvl_raise_candidate_v
        <5>1. target # cvl_target
          BY <1>5, <1>6, <2>6, <3>2, <4>2 DEF CvlInv
        <5> QED
          BY <1>2, <2>2, <5>1
      <4> QED
        BY <4>1, <4>2
    <3> QED
      BY <1>2, <1>5, <1>6, <1>10, <2>1, <2>3, <3>1, <3>2, <3>3, <3>4
         DEF CvlWait, CvlInv, CvlRiseIsQualified, Since0, None
  <2> QED
    BY <2>4, <2>5, <2>6
<1> QED
  BY <1>9, <1>10

LEMMA StepTypes ==
    ASSUME IInv, Steps /\ RecordRuns
    PROVE  RunsTypeOK'
<1> USE ShadowTimesAssumption
<1>1. PICK known \in BOOLEAN, target \in CvlTargets, obs \in VoltageObs,
           other \in [OtherAlarms -> Level] : Step(known, target, obs, other)
  BY DEF Steps
<1>2. RunsTypeOK
  BY DEF IInv
<1>3. UNCHANGED <<clock, last_frame, last_control>> /\ last_step_timestamp' = clock
  BY <1>1 DEF Step, cache_vars
<1>4. clock \in Times /\ None \in Since0 /\ Times \subseteq Since0 /\ Times \subseteq Nat
  BY <1>2 DEF RunsTypeOK, TypeOK, Times, Since0
<1>5. ready_now' \in BOOLEAN
  BY <1>1 DEF Step, can_alive, control_fresh, Within
<1>6. /\ lifecycle_state' \in Lifecycles
      /\ ready_since' \in Since0
      /\ ever_online' \in BOOLEAN
  <2> USE <1>2, <1>4, <1>5 DEF RunsTypeOK, TypeOK, Lifecycles, LostStates, Loss, ReadySince
  <2>1. CASE FromStarting(ready_now')
    BY <2>1 DEF FromStarting
  <2>2. CASE FromOnline(ready_now')
    BY <2>2 DEF FromOnline
  <2>3. CASE FromLost(ready_now')
    BY <2>3 DEF FromLost
  <2>4. CASE FromReconnecting(ready_now')
    BY <2>4 DEF FromReconnecting
  <2> QED
    BY <1>1, <2>1, <2>2, <2>3, <2>4 DEF Step, AdvanceLifecycle
<1>7. bol_loss_since' \in Since0
  BY <1>1, <1>2, <1>4 DEF Step, CountBolLoss, RunsTypeOK, TypeOK
<1>8. {ready_run', target_run', outage_run'} \subseteq Since0
  BY <1>2, <1>4 DEF RecordRuns, Extended, RunsTypeOK
<1>9. level_run' \in [AlarmPaths -> Times]
  BY <1>2, <1>4 DEF RecordRuns, RunsTypeOK
<1> QED
  BY <1>2, <1>3, <1>4, <1>5, <1>6, <1>7, <1>8, <1>9, StepRawLevels, StepAlarms, StepCvl
     DEF RunsTypeOK, TypeOK, Times, Since0

\* Between steps only the clock and the two times of the field cache move.
LEMMA CacheInv ==
    ASSUME IInv, Tick \/ ReceiveControl \/ ReceiveOther, UNCHANGED runs
    PROVE  IInv'
<1> USE ShadowTimesAssumption
<1>1. UNCHANGED <<shadow_vars, runs>>
  BY DEF Tick, ReceiveControl, ReceiveOther
<1>2. /\ clock' \in Times /\ clock' >= clock
      /\ last_frame' \in Since0 /\ last_control' \in Since0
  BY DEF Tick, ReceiveControl, ReceiveOther, IInv, RunsTypeOK, TypeOK, Times, Since0
<1>3. RunsTypeOK'
  BY <1>1, <1>2 DEF IInv, RunsTypeOK, TypeOK, shadow_vars, runs, Times, Since0
<1>4. TimesInv'
  BY <1>1, <1>2 DEF IInv, TimesInv, RunsTypeOK, TypeOK, Times, Since0, None, shadow_vars, runs
<1>5. LifecycleInv' /\ OutageInv' /\ CvlInv'
  BY <1>1 DEF IInv, LifecycleInv, OutageInv, CvlInv, Connected, shadow_vars, runs
<1>6. AlarmInv'
  BY <1>1 DEF IInv, AlarmInv, AlarmPathInv, shadow_vars, runs
<1> QED
  BY <1>3, <1>4, <1>5, <1>6 DEF IInv

LEMMA StutterInv ==
    ASSUME IInv, UNCHANGED hvars
    PROVE  IInv'
BY DEF hvars, vars, cache_vars, shadow_vars, runs, IInv, RunsTypeOK, TypeOK, TimesInv,
       LifecycleInv, OutageInv, CvlInv, AlarmInv, AlarmPathInv, Connected

LEMMA NextInv == IInv /\ [NextRuns]_hvars => IInv'
<1> SUFFICES ASSUME IInv, [NextRuns]_hvars PROVE IInv'
  OBVIOUS
<1>1. CASE (Tick \/ ReceiveControl \/ ReceiveOther) /\ UNCHANGED runs
  BY <1>1, CacheInv
<1>2. CASE Steps /\ RecordRuns
  BY <1>2, StepTypes, StepTimes, StepLifecycle, StepCvl, StepAlarms DEF IInv
<1>3. CASE UNCHANGED hvars
  BY <1>3, StutterInv
<1> QED
  BY <1>1, <1>2, <1>3 DEF NextRuns

\* The inductive invariant holds in every reachable state.
THEOREM Invariance == SpecRuns => []IInv
BY InitInv, NextInv, PTL DEF SpecRuns

-----------------------------------------------------------------------------
(* The properties. *)

\* Every variable keeps its type.
THEOREM TypeCorrect == SpecRuns => []RunsTypeOK
<1>1. IInv => RunsTypeOK
  BY DEF IInv
<1> QED
  BY <1>1, Invariance, PTL

\* The VE.Bus loss countdown begins with the outage and is never restarted in it.
THEOREM BolCountdown == SpecRuns => []BolCountsWholeOutage
<1>1. IInv => BolCountsWholeOutage
  BY DEF IInv, OutageInv, BolCountsWholeOutage
<1> QED
  BY <1>1, Invariance, PTL

\* While connected, the published charge voltage limit is at most the one the policy
\* asks for at that step.
THEOREM CvlSafe == SpecRuns => []CvlNeverAboveTarget
<1>1. IInv => CvlNeverAboveTarget
  <2> SUFFICES ASSUME IInv, Connected
               PROVE  published_cvl_v # None /\ published_cvl_v <= cvl_target
    BY DEF CvlNeverAboveTarget
  <2>1. cvl_target \in Nat /\ published_cvl_v \in Nat /\ published_cvl_v # None
    BY ShadowInputsAssumption DEF IInv, RunsTypeOK, TypeOK, CvlInv, None
  <2>2. published_cvl_v = cvl_target \/ published_cvl_v < cvl_target
    BY DEF IInv, CvlInv
  <2> QED
    BY <2>1, <2>2
<1> QED
  BY <1>1, Invariance, PTL

\* A target that stood for the qualification time has become the published limit.
THEOREM CvlNotStuck == SpecRuns => []CvlCatchesUp
<1>1. IInv => CvlCatchesUp
  <2> SUFFICES ASSUME IInv, Connected, last_step_timestamp - target_run >= CvlRaise
               PROVE  published_cvl_v = cvl_target
    BY DEF CvlCatchesUp
  <2>1. /\ last_step_timestamp \in Int /\ target_run \in Int /\ CvlRaise \in Int
    BY ShadowTimesAssumption DEF IInv, RunsTypeOK, TypeOK, Since0, Times, None
  <2>2. ~(last_step_timestamp - target_run < CvlRaise)
    BY <2>1
  <2> QED
    BY <2>2 DEF IInv, CvlInv
<1> QED
  BY <1>1, Invariance, PTL

LEMMA QuietCvl ==
    ASSUME IInv, UNCHANGED published_cvl_v
    PROVE  CvlRiseIsQualified
<1>1. published_cvl_v = None \/ published_cvl_v \in Nat
  BY ShadowInputsAssumption DEF IInv, RunsTypeOK, TypeOK
<1> QED
  BY <1>1 DEF CvlRiseIsQualified

\* The published limit rises only to a target that stood for the qualification time.
THEOREM CvlRises == SpecRuns => CvlRisesQualified
<1>1. IInv /\ [NextRuns]_hvars => [CvlRiseIsQualified]_hvars
  <2> SUFFICES ASSUME IInv, NextRuns PROVE CvlRiseIsQualified
    OBVIOUS
  <2>1. CASE Tick \/ ReceiveControl \/ ReceiveOther
    BY <2>1, QuietCvl DEF Tick, ReceiveControl, ReceiveOther, shadow_vars
  <2>2. CASE Steps /\ RecordRuns
    BY <2>2, StepCvl
  <2> QED
    BY <2>1, <2>2 DEF NextRuns
<1> QED
  BY <1>1, Invariance, PTL DEF SpecRuns, CvlRisesQualified

\* An alarm level moves only to a level that was asked for through the whole delay.
THEOREM AlarmMoves == SpecRuns => AlarmMovesQualified
<1>1. IInv /\ [NextRuns]_hvars => [AlarmMoveIsQualified]_hvars
  <2> SUFFICES ASSUME IInv, NextRuns PROVE AlarmMoveIsQualified
    OBVIOUS
  <2>1. CASE Tick \/ ReceiveControl \/ ReceiveOther
    BY <2>1 DEF Tick, ReceiveControl, ReceiveOther, shadow_vars, AlarmMoveIsQualified
  <2>2. CASE Steps /\ RecordRuns
    BY <2>2, StepAlarms
  <2> QED
    BY <2>1, <2>2 DEF NextRuns
<1> QED
  BY <1>1, Invariance, PTL DEF SpecRuns, AlarmMovesQualified

\* A level asked for through its whole delay is the one the bank gives out.
THEOREM AlarmNotStuck == SpecRuns => []AlarmCatchesUp
<1>1. IInv => AlarmCatchesUp
  <2> SUFFICES ASSUME IInv, NEW p \in AlarmPaths, last_step_timestamp # None,
                      last_step_timestamp - level_run[p] >=
                        TransitionDelay(alarm_bank[p].level, raw_levels[p])
               PROVE  alarm_bank[p].level = raw_levels[p]
    BY DEF AlarmCatchesUp
  <2>1. /\ last_step_timestamp \in Int /\ level_run[p] \in Int
        /\ TransitionDelay(alarm_bank[p].level, raw_levels[p]) \in Int
    BY AlarmDelaysAssumption
       DEF IInv, RunsTypeOK, TypeOK, Since0, Times, None, TransitionDelay
  <2>2. ~(last_step_timestamp - level_run[p] <
            TransitionDelay(alarm_bank[p].level, raw_levels[p]))
    BY <2>1
  <2> QED
    BY <2>2 DEF IInv, AlarmInv, AlarmPathInv
<1> QED
  BY <1>1, Invariance, PTL

\* What a step makes of the stale-data path.
LEMMA StepStale ==
    ASSUME AlarmRaise = 0, IInv, StaleInv, Steps /\ RecordRuns
    PROVE  StaleInv'
<1> USE AlarmDelaysAssumption
<1>1. PICK known \in BOOLEAN, target \in CvlTargets, obs \in VoltageObs,
           other \in [OtherAlarms -> Level] : Step(known, target, obs, other)
  BY DEF Steps
<1>2. Stale \in AlarmPaths /\ Stale # Voltage
  BY DEF AlarmPaths, Stale, Voltage
<1>3. /\ clock' = clock /\ last_step_timestamp' = clock
      /\ clock \in Nat /\ level_run[Stale] \in Nat
      /\ last_step_timestamp \in None..clock
  BY <1>1, <1>2 DEF Step, cache_vars, IInv, RunsTypeOK, TypeOK, TimesInv, Times, Since0, None
<1>4. raw_levels'[Stale] = IF ever_online' /\ ~Connected' THEN 2 ELSE 0
  <2>1. raw_levels'[Stale] = IF lifecycle_state' = "starting" THEN 0 ELSE StaleLevel
    BY <1>1, <1>2 DEF Step, UpdateAlarms, RawLevels
  <2> QED
    BY <2>1, StepLifecycle DEF StaleLevel, LifecycleInv, Connected
<1>5. ASSUME raw_levels'[Stale] = 0, alarm_bank'[Stale].level = 0
      PROVE  level_run'[Stale] = 0 \/ clock - level_run'[Stale] >= AlarmClear
  <2>1. level_run'[Stale] = IF raw_levels'[Stale] = raw_levels[Stale]
                            THEN level_run[Stale] ELSE clock
    BY <1>2 DEF RecordRuns
  <2>2. CASE alarm_bank[Stale].level # 0
    <3>1. clock - level_run'[Stale] >= TransitionDelay(alarm_bank[Stale].level, 0)
      BY <1>2, <1>5, <2>2, StepAlarms DEF AlarmMoveIsQualified
    <3>2. TransitionDelay(alarm_bank[Stale].level, 0) = AlarmClear
      BY <1>2 DEF TransitionDelay, IInv, RunsTypeOK, TypeOK, AlarmState, Level
    <3> QED
      BY <3>1, <3>2
  <2>3. CASE alarm_bank[Stale].level = 0
    <3>1. raw_levels[Stale] = 0
      <4> SUFFICES ASSUME raw_levels[Stale] = 2 PROVE FALSE
        BY DEF StaleInv
      <4>1. last_step_timestamp - level_run[Stale] < TransitionDelay(0, 2)
        BY <1>2, <2>3 DEF IInv, AlarmInv, AlarmPathInv
      <4>2. TransitionDelay(0, 2) = 0
        BY DEF TransitionDelay
      <4>3. level_run[Stale] <= last_step_timestamp
        <5>1. last_step_timestamp # None
          BY <1>3 DEF IInv, TimesInv, LifecycleInv, OutageInv, StaleInv, None
        <5> QED
          BY <1>2, <1>3, <5>1 DEF IInv, TimesInv, None
      <4> QED
        BY <1>3, <4>1, <4>2, <4>3 DEF None
    <3>2. level_run'[Stale] = level_run[Stale]
      BY <1>5, <2>1, <3>1
    <3> QED
      BY <1>3, <2>3, <3>1, <3>2 DEF StaleInv, None
  <2> QED
    BY <2>2, <2>3
<1> QED
  BY <1>3, <1>4, <1>5 DEF StaleInv

\* With no delay on raises to level 2, as in StatefulConfig, the stale-data alarm is
\* out at level 2 through the whole outage and outlives it by the clear time.
THEOREM StaleAlarm == AlarmRaise = 0 => (SpecRuns => []StaleAlarmCoversOutage)
<1> SUFFICES ASSUME AlarmRaise = 0 PROVE SpecRuns => []StaleAlarmCoversOutage
  OBVIOUS
<1>1. InitRuns => StaleInv
  BY DEF InitRuns, Init, StaleInv, Stale, AlarmPaths, NewAlarm
<1>2. IInv /\ StaleInv /\ [NextRuns]_hvars => StaleInv'
  <2> SUFFICES ASSUME IInv, StaleInv, [NextRuns]_hvars PROVE StaleInv'
    OBVIOUS
  <2>1. CASE (Tick \/ ReceiveControl \/ ReceiveOther) /\ UNCHANGED runs
    BY <2>1 DEF Tick, ReceiveControl, ReceiveOther, shadow_vars, runs, StaleInv, Connected
  <2>2. CASE Steps /\ RecordRuns
    BY <2>2, StepStale
  <2>3. CASE UNCHANGED hvars
    BY <2>3 DEF hvars, vars, shadow_vars, runs, StaleInv, Connected
  <2> QED
    BY <2>1, <2>2, <2>3 DEF NextRuns
<1>3. IInv /\ StaleInv => StaleAlarmCoversOutage
  <2> SUFFICES ASSUME IInv, StaleInv PROVE StaleAlarmCoversOutage
    OBVIOUS
  <2>1. ASSUME ever_online, ~Connected PROVE alarm_bank[Stale].level = 2
    <3> USE AlarmDelaysAssumption
    <3>1. Stale \in AlarmPaths /\ raw_levels[Stale] = 2
      BY <2>1 DEF AlarmPaths, StaleInv
    <3>2. TransitionDelay(alarm_bank[Stale].level, 2) = 0 \/ alarm_bank[Stale].level = 2
      BY <3>1 DEF TransitionDelay, IInv, RunsTypeOK, TypeOK, AlarmState, Level
    <3>3. last_step_timestamp \in Nat /\ level_run[Stale] \in 0..last_step_timestamp
      <4>1. outage_run # None
        BY <2>1 DEF IInv, OutageInv
      <4> QED
        BY <3>1, <4>1 DEF IInv, RunsTypeOK, TypeOK, TimesInv, Times, Since0, None
    <3> QED
      BY <3>1, <3>2, <3>3 DEF IInv, AlarmInv, AlarmPathInv
  <2> QED
    BY <2>1 DEF StaleAlarmCoversOutage, StaleInv
<1> QED
  BY <1>1, <1>2, <1>3, Invariance, PTL DEF SpecRuns

-----------------------------------------------------------------------------
(* The lifecycle implements the qualified service. *)

LEMMA InitRefines == InitRuns => Service!Init
BY ShadowTimesAssumption DEF InitRuns, Init, Service!Init, Connected, Service!NoRun, None

LEMMA StepRefines ==
    ASSUME IInv, Steps /\ RecordRuns
    PROVE  Service!Sample(ready_now')
<1> USE ShadowTimesAssumption
<1>1. PICK known \in BOOLEAN, target \in CvlTargets, obs \in VoltageObs,
           other \in [OtherAlarms -> Level] : Step(known, target, obs, other)
  BY DEF Steps
<1>2. ready_now' \in BOOLEAN /\ clock \in Nat /\ clock' = clock
  BY <1>1 DEF Step, cache_vars, can_alive, control_fresh, Within, IInv, RunsTypeOK, TypeOK, Times
<1>3. ready_run' = IF ready_now' THEN Extended(ready_run) ELSE None
  BY DEF RecordRuns
<1>4. /\ Connected' <=> ready_now' /\ (Connected \/ clock - ready_run' >=
                                        IF ever_online THEN ReconnectReady ELSE StartupReady)
      /\ ever_online' <=> ever_online \/ Connected'
  <2> USE <1>2, <1>3 DEF IInv, LifecycleInv, RunsTypeOK, TypeOK, Extended, LostStates, Connected,
                         Loss, ReadySince, Times, Since0, None
  <2>1. CASE FromStarting(ready_now')
    BY <2>1 DEF FromStarting
  <2>2. CASE FromOnline(ready_now')
    BY <2>2 DEF FromOnline
  <2>3. CASE FromLost(ready_now')
    BY <2>3 DEF FromLost
  <2>4. CASE FromReconnecting(ready_now')
    BY <2>4 DEF FromReconnecting
  <2> QED
    BY <1>1, <2>1, <2>2, <2>3, <2>4 DEF Step, AdvanceLifecycle
<1>5. ever_online' \in BOOLEAN /\ ever_online \in BOOLEAN
  BY StepTypes DEF IInv, RunsTypeOK, TypeOK
<1> QED
  BY <1>2, <1>3, <1>4, <1>5
     DEF Service!Sample, Service!Qualification, Service!NoRun, Extended, Connected, None

LEMMA NextRefines == IInv /\ [NextRuns]_hvars => [Service!Next]_Service!svars
<1> SUFFICES ASSUME IInv, [NextRuns]_hvars PROVE [Service!Next]_Service!svars
  OBVIOUS
<1>1. CASE Tick /\ UNCHANGED runs
  <2>1. Service!Tick
    BY <1>1, ShadowTimesAssumption
       DEF Tick, Service!Tick, IInv, RunsTypeOK, TypeOK, Times, Connected, shadow_vars, runs
  <2> QED
    BY <2>1 DEF Service!Next
<1>2. CASE (ReceiveControl \/ ReceiveOther) /\ UNCHANGED runs
  BY <1>2 DEF ReceiveControl, ReceiveOther, Service!svars, Connected, shadow_vars, runs
<1>3. CASE Steps /\ RecordRuns
  <2>1. ready_now' \in BOOLEAN
    BY <1>3, StepTypes DEF RunsTypeOK, TypeOK
  <2> QED
    BY <1>3, <2>1, StepRefines DEF Service!Next
<1>4. CASE UNCHANGED hvars
  BY <1>4 DEF hvars, vars, cache_vars, shadow_vars, runs, Service!svars, Connected
<1> QED
  BY <1>1, <1>2, <1>3, <1>4 DEF NextRuns

\* The five-state lifecycle connects and disconnects exactly as the qualified
\* service does.
THEOREM Refinement == SpecRuns => ImplementsQualifiedService
BY InitRefines, NextRefines, Invariance, PTL
   DEF SpecRuns, ImplementsQualifiedService, Service!Spec

-----------------------------------------------------------------------------
(* The voltage hysteresis, whose thresholds for release are those of 16 cells. *)

\* On a pack of 16 cells or more the hysteresis never asks for a lower level than the
\* observation does: what raises a level lies above what holds it.
THEOREM HysteresisHolds == CellCount >= 16 => (SpecRuns => []HysteresisNeverBelowRaw)
<1> SUFFICES ASSUME CellCount >= 16 PROVE SpecRuns => []HysteresisNeverBelowRaw
  OBVIOUS
<1>1. ASSUME IInv PROVE HysteresisNeverBelowRaw
  <2> SUFFICES ASSUME NEW obs \in VoltageObs
               PROVE  VoltageAlarmTarget(obs, alarm_bank[Voltage].level) >= RawVoltageLevel(obs)
    BY DEF HysteresisNeverBelowRaw
  <2>1. alarm_bank[Voltage].level \in 0..2
    BY <1>1 DEF IInv, RunsTypeOK, TypeOK, AlarmPaths, AlarmState, Level
  <2>2. CellCount \in Int
    BY CellCountAssumption
  <2>3. RawVoltageLevel(obs) \in 0..2
    BY DEF RawVoltageLevel
  <2>4. CASE Comparable(obs)
    <3>1. obs.pack \in Int /\ obs.vebus \in Int
      BY <2>4, ShadowInputsAssumption DEF Comparable, None
    <3>2. Distance(obs.vebus, obs.pack) \in Int
      BY <3>1 DEF Distance
    <3>3. RawVoltageLevel(obs) = 2 => HoldsAlarm(obs)
      BY <2>2, <3>1, <3>2 DEF RawVoltageLevel, HoldsAlarm, PackProtection, DeltaAlarm,
                              DeltaAlarmClear, VebusAlarmClear
    <3>4. RawVoltageLevel(obs) >= 1 => HoldsWarning(obs)
      BY <2>2, <3>1, <3>2 DEF RawVoltageLevel, HoldsWarning, PackProtection, NormalMax,
                              DeltaAlarm, DeltaWarning, DeltaWarningClear, VebusWarningClear
    <3> QED
      BY <2>1, <2>3, <2>4, <3>3, <3>4 DEF VoltageAlarmTarget
  <2>5. CASE ~Comparable(obs)
    BY <2>3, <2>5 DEF VoltageAlarmTarget
  <2> QED
    BY <2>4, <2>5
<1> QED
  BY <1>1, Invariance, PTL

\* On a pack of 16 cells or fewer agreement at rest releases the alarm.
THEOREM AgreementReleases == CellCount <= 16 => (SpecRuns => []AgreementReleasesAlarm)
<1> SUFFICES ASSUME CellCount <= 16 PROVE SpecRuns => []AgreementReleasesAlarm
  OBVIOUS
<1>1. AgreementReleasesAlarm
  <2> SUFFICES ASSUME NEW obs \in VoltageObs, Comparable(obs), obs.vebus = obs.pack,
                      obs.vebus <= BlockedCharge
               PROVE  VoltageAlarmTarget(obs, alarm_bank[Voltage].level) = 0
    BY DEF AgreementReleasesAlarm
  <2>1. obs.pack \in Int /\ obs.vebus \in Int /\ CellCount \in Nat
    BY CellCountAssumption, ShadowInputsAssumption DEF Comparable, None
  <2>2. Distance(obs.vebus, obs.pack) = 0
    BY <2>1 DEF Distance
  <2>3. RawVoltageLevel(obs) = 0
    BY <2>1, <2>2 DEF RawVoltageLevel, BlockedCharge, PackProtection, NormalMax, DeltaAlarm,
                      DeltaWarning
  <2>4. ~HoldsAlarm(obs) /\ ~HoldsWarning(obs)
    BY <2>1, <2>2 DEF HoldsAlarm, HoldsWarning, BlockedCharge, DeltaAlarmClear,
                      DeltaWarningClear, VebusAlarmClear, VebusWarningClear
  <2> QED
    BY <2>3, <2>4 DEF VoltageAlarmTarget
<1> QED
  BY <1>1, PTL
====
