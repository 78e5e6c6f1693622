------------------------------ MODULE ShadowRuns ------------------------------
(***************************************************************************)
(* Shadow with history variables, and what it promises in terms of them.   *)
(* Each history variable holds the time of the first step of a run of      *)
(* consecutive steps that agree on something; no action of the code reads  *)
(* them.                                                                   *)
(***************************************************************************)
EXTENDS Shadow

VARIABLES
    ready_run,    \* first of the steps, up to the last one, that were all ready
    target_run,   \* first of the steps that all asked for the present CVL target
    outage_run,   \* first of the steps, after having been online, that were not online
    level_run     \* for each alarm path, first of the steps that gave its present level

runs == <<ready_run, target_run, outage_run, level_run>>
hvars == <<vars, runs>>

RunsTypeOK ==
    /\ TypeOK
    /\ {ready_run, target_run, outage_run} \subseteq Since0
    /\ level_run \in [AlarmPaths -> Times]

InitRuns ==
    /\ Init
    /\ ready_run = None
    /\ target_run = None
    /\ outage_run = None
    /\ level_run = [p \in AlarmPaths |-> 0]

Extended(run) == IF run = None THEN clock ELSE run

RecordRuns ==
    /\ ready_run' = IF ready_now' THEN Extended(ready_run) ELSE None
    /\ target_run' = IF cvl_target' = None THEN None
                     ELSE IF cvl_target' = cvl_target THEN target_run ELSE clock
    /\ outage_run' = IF Connected' \/ ~ever_online' THEN None ELSE Extended(outage_run)
    /\ level_run' = [p \in AlarmPaths |->
                       IF raw_levels'[p] = raw_levels[p] THEN level_run[p] ELSE clock]

NextRuns ==
    \/ (Tick \/ ReceiveControl \/ ReceiveOther) /\ UNCHANGED runs
    \/ Steps /\ RecordRuns

SpecRuns == InitRuns /\ [][NextRuns]_hvars

-----------------------------------------------------------------------------
(* The lifecycle. *)

\* /Connected is 1 exactly while every step of an unbroken run was ready, and the
\* run was long enough when it connected: two seconds the first time, three after
\* any loss.  The five states of _advance_lifecycle add nothing to that promise.
Service == INSTANCE QualifiedService WITH
    now <- clock, run <- ready_run, connected <- Connected, ever <- ever_online

ImplementsQualifiedService == Service!Spec

\* The loss countdown covers the whole outage: it begins with the first step that
\* is not online, and neither a failed reconnect nor a change of loss state
\* restarts it.
BolCountsWholeOutage == bol_loss_since = outage_run

\* While the service is registered but not connected the stale-data alarm is at
\* level 2, at the very step that disconnects and through every relapse; it outlives
\* the outage by the clear time.
StaleAlarmCoversOutage ==
    /\ ever_online /\ ~Connected => alarm_bank[Stale].level = 2
    /\ Connected /\ alarm_bank[Stale].level = 0 /\ raw_levels[Stale] = 0 =>
         \/ level_run[Stale] = 0
         \/ last_step_timestamp - level_run[Stale] >= AlarmClear

-----------------------------------------------------------------------------
(* The charge voltage limit. *)

\* While connected the published limit is never above the one the policy asks for
\* at this very step, whatever was asked for before or during an outage.
CvlNeverAboveTarget ==
    Connected => published_cvl_v # None /\ published_cvl_v <= cvl_target

\* The published limit rises only to a target that every step of at least the
\* qualification time asked for, without a disconnection in between.
CvlRiseIsQualified ==
    published_cvl_v # None /\ published_cvl_v' > published_cvl_v =>
        /\ published_cvl_v' = cvl_target'
        /\ clock - target_run' >= CvlRaise

CvlRisesQualified == [][CvlRiseIsQualified]_hvars

\* A target that has stood for the qualification time is the published limit: the
\* filter never sticks below a stable request.
CvlCatchesUp ==
    Connected /\ last_step_timestamp - target_run >= CvlRaise =>
        published_cvl_v = cvl_target

-----------------------------------------------------------------------------
(* The alarm bank. *)

\* A level moves only to a level that every step of the delay for that move has
\* asked for.
AlarmMoveIsQualified ==
    \A p \in AlarmPaths :
        alarm_bank'[p].level # alarm_bank[p].level =>
            /\ alarm_bank'[p].level = raw_levels'[p]
            /\ clock - level_run'[p] >=
                 TransitionDelay(alarm_bank[p].level, alarm_bank'[p].level)

AlarmMovesQualified == [][AlarmMoveIsQualified]_hvars

\* A level asked for without interruption for its delay is the bank's output; with
\* no delay on raises to level 2, a protection is out at the step that sees it.
AlarmCatchesUp ==
    \A p \in AlarmPaths :
        last_step_timestamp # None
        /\ last_step_timestamp - level_run[p] >=
             TransitionDelay(alarm_bank[p].level, raw_levels[p]) =>
            alarm_bank[p].level = raw_levels[p]

\* The voltage hysteresis holds a level up; it never asks for less than what the
\* present observation calls for.
HysteresisNeverBelowRaw ==
    \A obs \in VoltageObs :
        VoltageAlarmTarget(obs, alarm_bank[Voltage].level) >= RawVoltageLevel(obs)

\* A VE.Bus voltage that equals the pack's, at or below the pack's own resting
\* charge limit, releases the disagreement alarm whatever its level.
AgreementReleasesAlarm ==
    \A obs \in VoltageObs :
        Comparable(obs) /\ obs.vebus = obs.pack /\ obs.vebus <= BlockedCharge =>
            VoltageAlarmTarget(obs, alarm_bank[Voltage].level) = 0

-----------------------------------------------------------------------------
(* The inductive invariant behind the properties above. *)

\* Every time kept lies at or before the last step, which lies in the past.
TimesInv ==
    /\ last_step_timestamp <= clock
    /\ {ready_run, target_run, outage_run} \subseteq (None..last_step_timestamp)
    /\ \A p \in AlarmPaths : level_run[p] <= last_step_timestamp \/ level_run[p] = 0

\* What each lifecycle state says about the run of ready steps.
LifecycleInv ==
    /\ ready_now <=> ready_run # None
    /\ ever_online <=> lifecycle_state # "starting"
    /\ lifecycle_state = "starting" => ready_since = ready_run
    /\ lifecycle_state = "online" => ready_now
    /\ lifecycle_state \in LostStates => ~ready_now
    /\ lifecycle_state = "reconnecting" => ready_now /\ ready_since = ready_run
    /\ ready_since = None \/ lifecycle_state \in {"starting", "reconnecting"}

OutageInv ==
    /\ bol_loss_since = outage_run
    /\ outage_run # None <=> ever_online /\ ~Connected

\* A waiting candidate is the present target, has been so since the target's run
\* began, and is not due yet; without one the published limit is the target.
CvlInv ==
    /\ Connected <=> cvl_target # None
    /\ Connected <=> target_run # None
    /\ Connected => published_cvl_v # None
    /\ cvl_raise_candidate_v = None <=> cvl_raise_candidate_since = None
    /\ Connected /\ cvl_raise_candidate_v = None => published_cvl_v = cvl_target
    /\ cvl_raise_candidate_v # None =>
         /\ cvl_raise_candidate_v = cvl_target
         /\ published_cvl_v < cvl_target
         /\ cvl_raise_candidate_since = target_run
         /\ last_step_timestamp - target_run < CvlRaise

\* The same of one alarm path.
AlarmPathInv(p) ==
    LET alarm == alarm_bank[p]
    IN  IF alarm.candidate_since = None
        THEN alarm.level = raw_levels[p]
        ELSE /\ alarm.level # raw_levels[p]
             /\ alarm.candidate = raw_levels[p]
             /\ alarm.candidate_since = level_run[p]
             /\ last_step_timestamp - level_run[p] < TransitionDelay(alarm.level, raw_levels[p])

AlarmInv == \A p \in AlarmPaths : AlarmPathInv(p)

\* The level passed on for the stale-data path is 2 exactly in an outage, and a bank
\* level that has come back to 0 has done so after the clear time.
StaleInv ==
    /\ raw_levels[Stale] = IF ever_online /\ ~Connected THEN 2 ELSE 0
    /\ raw_levels[Stale] = 0 /\ alarm_bank[Stale].level = 0 =>
         \/ level_run[Stale] = 0
         \/ last_step_timestamp - level_run[Stale] >= AlarmClear

IInv == RunsTypeOK /\ TimesInv /\ LifecycleInv /\ OutageInv /\ CvlInv /\ AlarmInv
====
