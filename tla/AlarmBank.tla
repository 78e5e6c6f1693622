------------------------------ MODULE AlarmBank ------------------------------
(***************************************************************************)
(* DebouncedAlarmBank and the voltage-disagreement hysteresis of           *)
(* stateful.py, as operators on one path's alarm state.  The bank treats   *)
(* its paths independently, so a bank is a function from paths to these    *)
(* states.  Times are integers in one unit; None stands for Python's None. *)
(***************************************************************************)
EXTENDS Integers

CONSTANTS
    WarningRaise,    \* warning_raise_seconds
    AlarmRaise,      \* alarm_raise_seconds
    AlarmDowngrade,  \* alarm_downgrade_seconds
    AlarmClear,      \* alarm_clear_seconds
    CellCount        \* series cells of the pack on the wire

ASSUME AlarmDelaysAssumption ==
    {WarningRaise, AlarmRaise, AlarmDowngrade, AlarmClear} \subseteq Nat

ASSUME CellCountAssumption == CellCount \in 4..32

None  == -1
Level == 0..2
Since == Nat \cup {None}

AlarmState == [level : Level, candidate : Level, candidate_since : Since]

NewAlarm == [level |-> 0, candidate |-> 0, candidate_since |-> None]

\* How long a target must stand before the level moves to it.
TransitionDelay(current, target) ==
    IF target > current
    THEN IF target = 2 THEN AlarmRaise ELSE WarningRaise
    ELSE IF target = 0 THEN AlarmClear ELSE AlarmDowngrade

\* Mutant: a changed target inherits the time of the candidate it replaces.
CandidateSinceKept(alarm, target, now) ==
    IF alarm.candidate_since = None THEN now ELSE alarm.candidate_since

\* Mutant: the wait starts again at every update.
CandidateSinceRestarted(alarm, target, now) == now

\* When the current candidate began: a target that differs from it begins now.
CandidateSince(alarm, target, now) ==
    IF target # alarm.candidate \/ alarm.candidate_since = None
    THEN now
    ELSE alarm.candidate_since

\* One path's part of update(): settle, keep waiting, or move to the target.
\* (The code's 1e-9 s of slack is below the resolution of these integers.)
Debounced(alarm, target, now) ==
    LET since == CandidateSince(alarm, target, now)
    IN  IF /\ target # alarm.level
           /\ now - since < TransitionDelay(alarm.level, target)
        THEN [alarm EXCEPT !.candidate = target, !.candidate_since = since]
        ELSE [level |-> target, candidate |-> target, candidate_since |-> None]

-----------------------------------------------------------------------------
(* Voltages are in centivolts.  The raise thresholds of PolicyConfig scale    *)
(* with the series count; the clear thresholds of StatefulConfig do not.      *)

NormalMax      == 360 * CellCount   \* normal_max_voltage_v
PackProtection == 365 * CellCount   \* pack_overvoltage_protection_v
BlockedCharge  == 345 * CellCount   \* blocked_charge_cvl_v
DeltaWarning   == 100
DeltaAlarm     == 500
DeltaWarningClear == 50
DeltaAlarmClear   == 400
VebusWarningClear == 5720
VebusAlarmClear   == 5790

Distance(a, b) == IF a > b THEN a - b ELSE b - a

\* An observation pairs the pack voltage with the VE.Bus voltage; either may
\* be None, and then no comparison is made.
Comparable(obs) == obs.pack # None /\ obs.vebus # None

\* integration_alarm_level of evaluate_policy.
RawVoltageLevel(obs) ==
    IF ~Comparable(obs) THEN 0
    ELSE IF \/ Distance(obs.vebus, obs.pack) > DeltaAlarm
            \/ obs.vebus > PackProtection
    THEN 2
    ELSE IF \/ Distance(obs.vebus, obs.pack) > DeltaWarning
            \/ obs.vebus > NormalMax
    THEN 1
    ELSE 0

HoldsAlarm(obs) ==
    \/ Distance(obs.vebus, obs.pack) >= DeltaAlarmClear
    \/ obs.vebus >= VebusAlarmClear

\* Mutant: the exit threshold lies below the pack's working voltage.
HoldsWarningAtNominal(obs) ==
    \/ Distance(obs.vebus, obs.pack) >= DeltaWarningClear
    \/ obs.vebus >= 320 * CellCount

HoldsWarning(obs) ==
    \/ Distance(obs.vebus, obs.pack) >= DeltaWarningClear
    \/ obs.vebus >= VebusWarningClear

\* Mutant: a level that is up is held before a higher one is looked for.
VoltageAlarmTargetHeldFirst(obs, current) ==
    IF ~Comparable(obs) THEN 0
    ELSE IF current = 2 /\ HoldsAlarm(obs) THEN 2
    ELSE IF current >= 1 /\ HoldsWarning(obs) THEN 1
    ELSE RawVoltageLevel(obs)

\* _voltage_alarm_target: a raise takes effect at the raw level, a level that
\* is already up is held until its own clear thresholds are passed.
VoltageAlarmTarget(obs, current) ==
    LET raw == RawVoltageLevel(obs)
    IN  IF ~Comparable(obs) \/ raw > current THEN raw
        ELSE IF current = 2 /\ HoldsAlarm(obs) THEN 2
        ELSE IF current >= 1 /\ HoldsWarning(obs) THEN 1
        ELSE raw
====
