------------------------------- MODULE PackAlarms -------------------------------
(***************************************************************************)
(* The alarms the policy derives from the condition tables (0x110) and the *)
(* fault levels (0x400) of the packs of a bank: which path is raised, and  *)
(* whether a protection is one the bank has not acted on (policy.py,       *)
(* packs.py).                                                              *)
(*                                                                         *)
(* A pack is in one of a few states.  Conditions stand for the table they  *)
(* are in: `over' for a protection that is to stop charge, `warning' for   *)
(* its warning, `hot' for a protection that names no direction to stop     *)
(* (mos_over_temperature), `minor' and `major' for the fault level as a    *)
(* condition.                                                              *)
(* The system's own tables (0x359) say nothing here, and the debouncing of *)
(* the alarms is AlarmBank's.                                              *)
(***************************************************************************)
EXTENDS Integers, FiniteSetsExt

CONSTANTS
    AlarmPacks,
    FrameFor      \* how long a critical field is usable (TIMEOUTS)

ASSUME AlarmPacksAssumption == AlarmPacks # {}
ASSUME FrameForAssumption == FrameFor \in Nat

VARIABLES
    state,      \* of each pack, the state it is in,
    told,       \* the age of its last 0x110 frame and the state that frame told of,
    ranked,     \* and the age and fault level of its last 0x400 frame
    asked,      \* directions 0x351 asks current for
    stood       \* ticks since a pack changed its state

avars == <<state, told, ranked, asked, stood>>

Old == FrameFor + 1
Aged(age) == IF age < Old THEN age + 1 ELSE Old

\* What a pack may be in: no condition, a warning, full (a protection it has answered with
\* its charge MOS), too hot with both MOS open, and failed with its MOS closed.
Quiet  == [conditions |-> {}, closed |-> {"charge", "discharge"}, level |-> "none"]
Warned == [conditions |-> {"warning"}, closed |-> {"charge", "discharge"}, level |-> "minor"]
Full   == [conditions |-> {"over", "warning"}, closed |-> {"discharge"}, level |-> "none"]
Hot    == [conditions |-> {"hot"}, closed |-> {}, level |-> "minor"]
Failed == [conditions |-> {"over"}, closed |-> {"charge", "discharge"}, level |-> "major"]
States == {Quiet, Warned, Full, Hot, Failed}

Paths == {"HighCellVoltage", "HighTemperature", "InternalFailure"}

\* CONDITION_ALARMS, FAULT_RANK and the sets of conditions that concern a direction.
Severity(condition, path) ==
    CASE condition = "warning" /\ path = "HighCellVoltage" -> 1
      [] condition = "over" /\ path = "HighCellVoltage" -> 2
      [] condition = "hot" /\ path = "HighTemperature" -> 2
      [] condition = "minor" /\ path = "InternalFailure" -> 1
      [] condition = "major" /\ path = "InternalFailure" -> 2
      [] OTHER -> 0

Rank == [none |-> 0, minor |-> 1, major |-> 2]

Stops == [charge |-> {"over", "major"}, discharge |-> {"major"}]

\* NO_DIRECTIONAL_STOP_PROTECTION_CONDITIONS.
NoStop == {"hot"}

FaultConditions(level) == {level} \ {"none"}

-----------------------------------------------------------------------------
(* BankView and evaluate_policy. *)

Telling == {p \in AlarmPacks : told[p].age <= FrameFor}

\* The levels in effect of the packs that are online.
Levels == {ranked[p].level : p \in {q \in Telling : ranked[q].age <= FrameFor}}

\* The worst of them; none when nobody tells.
FaultLevel ==
    IF Levels = {} THEN "none"
    ELSE CHOOSE level \in Levels : \A other \in Levels : Rank[other] <= Rank[level]

\* Mutant: the conditions of one pack stand for the bank's.
ConditionsOfOne ==
    LET p == CHOOSE q \in AlarmPacks : TRUE
    IN  (IF p \in Telling THEN told[p].is.conditions ELSE {}) \cup FaultConditions(FaultLevel)

Conditions == (UNION {told[p].is.conditions : p \in Telling}) \cup FaultConditions(FaultLevel)

Alarm(path) == Max({0} \cup {Severity(condition, path) : condition \in Conditions})

\* The conditions of pack p and its own fault level.
Group(p) ==
    told[p].is.conditions
        \cup (IF ranked[p].age <= FrameFor THEN FaultConditions(ranked[p].level) ELSE {})

\* Mutant: a pack's protection is judged by the MOS of the bank.
UncoordinatedByBank(p) ==
    \/ Group(p) \cap NoStop # {}
    \/ \E direction \in asked :
           /\ Group(p) \cap Stops[direction] # {}
           /\ \E q \in Telling : direction \in told[q].is.closed

\* A protection of pack p names no direction, or one that is asked for and that the pack
\* itself has not closed off.
Uncoordinated(p) ==
    \/ Group(p) \cap NoStop # {}
    \/ \E direction \in asked \cap told[p].is.closed : Group(p) \cap Stops[direction] # {}

ProtectionWithoutDirectionalLimit == \E p \in Telling : Uncoordinated(p)

-----------------------------------------------------------------------------
(* The packs and their frames. *)

AInit ==
    /\ state \in [AlarmPacks -> States]
    /\ told = [p \in AlarmPacks |-> [age |-> Old, is |-> Quiet]]
    /\ ranked = [p \in AlarmPacks |-> [age |-> Old, level |-> "none"]]
    /\ asked = {}
    /\ stood = Old

\* What a frame has told is kept in the cache but not read once it is old.
ATick ==
    /\ told' = [p \in AlarmPacks |->
           IF told[p].age < FrameFor THEN [told[p] EXCEPT !.age = @ + 1]
           ELSE [age |-> Old, is |-> Quiet]]
    /\ ranked' = [p \in AlarmPacks |->
           IF ranked[p].age < FrameFor THEN [ranked[p] EXCEPT !.age = @ + 1]
           ELSE [age |-> Old, level |-> "none"]]
    /\ stood' = Aged(stood)
    /\ UNCHANGED <<state, asked>>

HearConditions(p) ==
    /\ told' = [told EXCEPT ![p] = [age |-> 0, is |-> state[p]]]
    /\ UNCHANGED <<state, ranked, asked, stood>>

HearLevel(p) ==
    /\ ranked' = [ranked EXCEPT ![p] = [age |-> 0, level |-> state[p].level]]
    /\ UNCHANGED <<state, told, asked, stood>>

HearRequest ==
    /\ asked' \in SUBSET {"charge", "discharge"}
    /\ UNCHANGED <<state, told, ranked, stood>>

Turn(p) ==
    /\ \E next \in States \ {state[p]} : state' = [state EXCEPT ![p] = next]
    /\ stood' = 0
    /\ UNCHANGED <<told, ranked, asked>>

ANext ==
    \/ ATick
    \/ HearRequest
    \/ \E p \in AlarmPacks : HearConditions(p) \/ HearLevel(p) \/ Turn(p)

ASpec == AInit /\ [][ANext]_avars

-----------------------------------------------------------------------------
(* Properties. *)

AlarmsTypeOK ==
    /\ state \in [AlarmPacks -> States]
    /\ told \in [AlarmPacks -> [age : 0..Old, is : States]]
    /\ ranked \in [AlarmPacks -> [age : 0..Old, level : DOMAIN Rank]]
    /\ asked \subseteq {"charge", "discharge"} /\ stood \in 0..Old

\* Packs both frames of which are in effect.
Heard == {p \in Telling : ranked[p].age <= FrameFor}

\* The level a pack in state s is worth on a path, and whether it has a protection that
\* its MOS does not answer: no MOS does when the protection names no direction.
Worth(s, path) ==
    Max({0} \cup {Severity(condition, path) :
                      condition \in s.conditions \cup FaultConditions(s.level)})
Unanswered(s) ==
    LET protections == s.conditions \cup FaultConditions(s.level)
    IN  \/ protections \cap NoStop # {}
        \/ \E direction \in asked \cap s.closed : protections \cap Stops[direction] # {}

\* "Every pack's faults raise alarms, and the worst pack's fault level is the bank's"
\* (README.md:264-265): once the packs have stood for longer than the freshness limit, no
\* alarm is below what a pack that is heard has, and none is above what some pack has,
\* whichever frames of the others are lost (policy.py:381-410, packs.py:147-160).
AlarmsFollowPacks ==
    stood = Old => \A path \in Paths :
        /\ \A p \in Heard : Worth(state[p], path) <= Alarm(path)
        /\ \E p \in AlarmPacks : Alarm(path) <= Worth(state[p], path)

\* "A protection is coordinated when the MOS it concerns is open" (policy.py:550-555), and
\* one that concerns no direction never is (policy.py:144-157, 724): once the packs have
\* stood, the flag is up for a pack that is heard and whose protection its MOS does not
\* answer, and never for packs of which each answers its own, although others charge.
FlagFollowsPacks ==
    stood = Old =>
        /\ (\E p \in Heard : Unanswered(state[p])) => ProtectionWithoutDirectionalLimit
        /\ ProtectionWithoutDirectionalLimit => \E p \in AlarmPacks : Unanswered(state[p])

\* What holds them up: a frame still in effect tells of the state its pack was in then, and
\* of the one it is in when it has stood since.
AlarmsInv ==
    /\ AlarmsTypeOK
    /\ \A p \in AlarmPacks :
           /\ told[p].age <= FrameFor /\ told[p].age < stood => told[p].is = state[p]
           /\ ranked[p].age <= FrameFor /\ ranked[p].age < stood =>
                  ranked[p].level = state[p].level
====
