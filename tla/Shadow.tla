-------------------------------- MODULE Shadow --------------------------------
(***************************************************************************)
(* StatefulShadow of stateful.py: the lifecycle of the battery service,    *)
(* the VE.Bus loss countdown, the alarm bank and the slow-raise filter on  *)
(* the charge voltage limit (CVL), advanced together by one call of step() *)
(* on a snapshot of the field cache.                                       *)
(*                                                                         *)
(* The field cache is seen here only through two times: that of the last   *)
(* CAN frame of any kind and that of the last complete set of control      *)
(* fields.  The policy's verdicts on the values (which CVL, which alarm    *)
(* levels, whether the profile is known) are inputs of the step.           *)
(***************************************************************************)
EXTENDS AlarmBank, FiniteSets

CONSTANTS
    StartupReady,    \* startup_ready_seconds
    ReconnectReady,  \* reconnect_ready_seconds
    CanAlive,        \* can_alive_timeout_seconds
    ControlTimeout,  \* freshness timeout of the required control fields
    CvlRaise,        \* cvl_raise_qualification_seconds
    CvlTargets,      \* the charge voltage limits the policy can ask for
    VoltageObs,      \* the voltage observations the policy can make
    OtherAlarms,     \* custom alarm paths other than the two named below
    MaxTime          \* bound on the clock

ASSUME ShadowTimesAssumption ==
    /\ {StartupReady, CanAlive, ControlTimeout, MaxTime} \subseteq Nat
    /\ {ReconnectReady, CvlRaise} \subseteq Nat \ {0}

ASSUME ShadowInputsAssumption ==
    /\ CvlTargets \subseteq Nat
    /\ CvlTargets # {}
    /\ VoltageObs \subseteq [pack : Nat \cup {None}, vebus : Nat \cup {None}]
    /\ VoltageObs # {}

Stale   == "CriticalDataStale"
Voltage == "VoltageDisagreement"
AlarmPaths == {Stale, Voltage} \cup OtherAlarms

ASSUME OtherAlarmsAssumption == {Stale, Voltage} \cap OtherAlarms = {}

VARIABLES
    clock,                      \* RuntimeClock, in integer units
    last_frame,                 \* snapshot["last_timestamp"]
    last_control,               \* oldest refresh among the required fields
    lifecycle_state,
    ready_since,
    ever_online,
    last_step_timestamp,
    bol_loss_since,
    published_cvl_v,
    cvl_raise_candidate_v,
    cvl_raise_candidate_since,
    alarm_bank,
    ready_now,                  \* result["lifecycle"]["ready_now"]
    cvl_target,                 \* paths["/Diagnostics/Cvl/Target"]
    raw_levels                  \* the levels given to the alarm bank

cache_vars == <<clock, last_frame, last_control>>
shadow_vars ==
    <<lifecycle_state, ready_since, ever_online, last_step_timestamp, bol_loss_since,
      published_cvl_v, cvl_raise_candidate_v, cvl_raise_candidate_since, alarm_bank,
      ready_now, cvl_target, raw_levels>>
vars == <<cache_vars, shadow_vars>>

LostStates == {"can_lost", "critical_data_stale"}
Lifecycles == {"starting", "online", "reconnecting"} \cup LostStates

Times == 0..MaxTime
Since0 == Times \cup {None}
NoObs == [pack |-> None, vebus |-> None]
Connected == lifecycle_state = "online"

TypeOK ==
    /\ clock \in Times
    /\ {last_frame, last_control, last_step_timestamp} \subseteq Since0
    /\ {ready_since, bol_loss_since, cvl_raise_candidate_since} \subseteq Since0
    /\ lifecycle_state \in Lifecycles
    /\ {ever_online, ready_now} \subseteq BOOLEAN
    /\ {published_cvl_v, cvl_raise_candidate_v, cvl_target} \subseteq CvlTargets \cup {None}
    /\ alarm_bank \in [AlarmPaths -> AlarmState]
    /\ raw_levels \in [AlarmPaths -> Level]

Init ==
    /\ clock = 0
    /\ last_frame = None
    /\ last_control = None
    /\ lifecycle_state = "starting"
    /\ ready_since = None
    /\ ever_online = FALSE
    /\ last_step_timestamp = None
    /\ bol_loss_since = None
    /\ published_cvl_v = None
    /\ cvl_raise_candidate_v = None
    /\ cvl_raise_candidate_since = None
    /\ alarm_bank = [p \in AlarmPaths |-> NewAlarm]
    /\ ready_now = FALSE
    /\ cvl_target = None
    /\ raw_levels = [p \in AlarmPaths |-> 0]

-----------------------------------------------------------------------------
(* The field cache. *)

Tick ==
    /\ clock < MaxTime
    /\ clock' = clock + 1
    /\ UNCHANGED <<last_frame, last_control, shadow_vars>>

\* The battery's whole cycle of control frames arrives.
ReceiveControl ==
    /\ last_frame' = clock
    /\ last_control' = clock
    /\ UNCHANGED <<clock, shadow_vars>>

\* A frame arrives that carries none of the required fields.
ReceiveOther ==
    /\ last_frame' = clock
    /\ UNCHANGED <<clock, last_control, shadow_vars>>

Within(timestamp, timeout) == timestamp # None /\ clock - timestamp <= timeout

can_alive     == Within(last_frame, CanAlive)
control_fresh == Within(last_control, ControlTimeout)

-----------------------------------------------------------------------------
(* _advance_lifecycle *)

Loss == IF can_alive THEN "critical_data_stale" ELSE "can_lost"

ReadySince == IF ready_since = None THEN clock ELSE ready_since

FromStarting(ready) ==
    LET qualified == ready /\ clock - ReadySince >= StartupReady
    IN  /\ lifecycle_state = "starting"
        /\ lifecycle_state' = IF qualified THEN "online" ELSE "starting"
        /\ ever_online' = (ever_online \/ qualified)
        /\ ready_since' = IF ready /\ ~qualified THEN ReadySince ELSE None

FromOnline(ready) ==
    /\ lifecycle_state = "online"
    /\ lifecycle_state' = IF ready THEN "online" ELSE Loss
    /\ ready_since' = IF ready THEN ready_since ELSE None
    /\ UNCHANGED ever_online

\* Mutant: one ready sample after a loss reconnects.
FromLostAtOnce(ready) ==
    /\ lifecycle_state \in LostStates
    /\ lifecycle_state' = IF ready THEN "online" ELSE Loss
    /\ UNCHANGED <<ready_since, ever_online>>

FromLost(ready) ==
    /\ lifecycle_state \in LostStates
    /\ lifecycle_state' = IF ready THEN "reconnecting" ELSE Loss
    /\ ready_since' = IF ready THEN clock ELSE ready_since
    /\ UNCHANGED ever_online

FromReconnecting(ready) ==
    LET qualified == ready /\ clock - ReadySince >= ReconnectReady
    IN  /\ lifecycle_state = "reconnecting"
        /\ lifecycle_state' = IF ~ready THEN Loss
                              ELSE IF qualified THEN "online" ELSE "reconnecting"
        /\ ready_since' = IF ready /\ ~qualified THEN ReadySince ELSE None
        /\ UNCHANGED ever_online

AdvanceLifecycle(ready) ==
    \/ FromStarting(ready)
    \/ FromOnline(ready)
    \/ FromLost(ready)
    \/ FromReconnecting(ready)

-----------------------------------------------------------------------------
(* The countdown to the five-minute VE.Bus BOL timeout: the remaining time that *)
(* is published is that timeout less the age of bol_loss_since.                 *)

\* Mutant: a failed reconnect attempt restarts the countdown.
BolLossActiveUnlessReconnecting ==
    ever_online' /\ lifecycle_state' \notin {"online", "reconnecting"}

BolLossActive == ever_online' /\ lifecycle_state' # "online"

\* Mutant: the deadline is kept instead of the start.
CountBolLossDeadline ==
    bol_loss_since' = IF ~BolLossActive THEN None
                      ELSE IF bol_loss_since = None THEN clock + 300 ELSE bol_loss_since

CountBolLoss ==
    bol_loss_since' = IF ~BolLossActive THEN None
                      ELSE IF bol_loss_since = None THEN clock ELSE bol_loss_since

-----------------------------------------------------------------------------
(* Alarm levels and the alarm bank. *)

\* Mutant: the stale-data alarm follows the frames, not the lifecycle.
StaleLevelByFrames == IF control_fresh THEN 0 ELSE 2

StaleLevel == IF lifecycle_state' = "online" THEN 0 ELSE 2

\* What the lifecycle makes of the policy's custom alarm levels.
RawLevels(obs, other) ==
    [p \in AlarmPaths |->
        IF lifecycle_state' = "starting" THEN 0
        ELSE IF p = Stale THEN StaleLevel
        ELSE IF p = Voltage THEN VoltageAlarmTarget(obs, alarm_bank[Voltage].level)
        ELSE other[p]]

UpdateAlarms(obs, other) ==
    /\ raw_levels' = RawLevels(obs, other)
    /\ alarm_bank' = [p \in AlarmPaths |-> Debounced(alarm_bank[p], raw_levels'[p], clock)]

-----------------------------------------------------------------------------
(* _apply_cvl_transition: lower at once, raise after a stable higher target. *)

NoCandidate ==
    /\ cvl_raise_candidate_v' = None
    /\ cvl_raise_candidate_since' = None

CvlDisconnected ==
    /\ cvl_target' = None
    /\ NoCandidate
    /\ UNCHANGED published_cvl_v

CvlAdopt(target) ==
    /\ published_cvl_v' = target
    /\ NoCandidate

\* Mutant: any higher target counts as the one that was waiting.
CvlRaiseDueAnyTarget(target) ==
    /\ cvl_raise_candidate_v # None
    /\ clock - cvl_raise_candidate_since >= CvlRaise

\* The higher target has stood since the candidate was taken.
CvlRaiseDue(target) ==
    /\ target = cvl_raise_candidate_v
    /\ clock - cvl_raise_candidate_since >= CvlRaise

\* Mutant: every step starts the wait again.
CvlWaitAgain(target) ==
    /\ cvl_raise_candidate_v' = target
    /\ cvl_raise_candidate_since' = clock
    /\ UNCHANGED published_cvl_v

CvlWait(target) ==
    /\ cvl_raise_candidate_v' = target
    /\ cvl_raise_candidate_since' =
         IF target = cvl_raise_candidate_v THEN cvl_raise_candidate_since ELSE clock
    /\ UNCHANGED published_cvl_v

\* Mutant: only a lower limit takes effect at once, an equal candidate is kept.
CvlLowerByCandidate(target) ==
    published_cvl_v = None
    \/ (target < published_cvl_v /\ cvl_raise_candidate_v = None)

\* A lower limit takes effect at once; so does the first one of all.
CvlLower(target) == published_cvl_v = None \/ target < published_cvl_v

CvlConnected(target) ==
    /\ cvl_target' = target
    /\ IF CvlLower(target) \/ target = published_cvl_v \/ CvlRaiseDue(target)
       THEN CvlAdopt(target)
       ELSE CvlWait(target)

ApplyCvlTransition(target) ==
    IF lifecycle_state' = "online" THEN CvlConnected(target) ELSE CvlDisconnected

-----------------------------------------------------------------------------

\* step(snapshot, timestamp): the policy found the profile known or not, asks
\* for the charge voltage limit `target`, and observed `obs` and `other`.
Step(known, target, obs, other) ==
    /\ last_step_timestamp <= clock
    /\ last_step_timestamp' = clock
    /\ ready_now' = (known /\ control_fresh /\ can_alive)
    /\ AdvanceLifecycle(ready_now')
    /\ CountBolLoss
    /\ UpdateAlarms(IF control_fresh THEN obs ELSE NoObs, other)
    /\ ApplyCvlTransition(target)
    /\ UNCHANGED cache_vars

Steps ==
    \E known \in BOOLEAN, target \in CvlTargets, obs \in VoltageObs,
       other \in [OtherAlarms -> Level] : Step(known, target, obs, other)

Next == Tick \/ ReceiveControl \/ ReceiveOther \/ Steps

Spec == Init /\ [][Next]_vars
====
