---------------------------- MODULE PackAlarmsProofs ----------------------------
(***************************************************************************)
(* Proofs about PackAlarms, for any number of packs.                       *)
(***************************************************************************)
EXTENDS PackAlarms, TLAPS

Kinds == {"warning", "over", "hot", "minor", "major"}

LEMMA OldIsNat == Old \in Nat /\ Old = FrameFor + 1 /\ FrameFor \in Nat
  BY FrameForAssumption DEF Old

LEMMA StatesTyped ==
    ASSUME NEW s \in States
    PROVE  s.conditions \in SUBSET Kinds /\ s.level \in DOMAIN Rank
  BY DEF States, Quiet, Warned, Full, Hot, Failed, Kinds, Rank

\* Severities and ranks are at most 2, and the worse fault level is the worse alarm.
LEMMA SeverityTyped ==
    ASSUME NEW condition, NEW path
    PROVE  Severity(condition, path) \in 0..2
  BY DEF Severity

LEMMA RankOrders ==
    ASSUME NEW level \in DOMAIN Rank, NEW other \in DOMAIN Rank, Rank[other] <= Rank[level],
           NEW path, NEW c \in FaultConditions(other)
    PROVE  level \in FaultConditions(level) /\ Severity(c, path) <= Severity(level, path)
<1>1. other \in {"minor", "major"} /\ c = other
  BY DEF FaultConditions, Rank
<1>2. level = "major" \/ level = other
  BY <1>1 DEF Rank
<1> QED
  BY <1>1, <1>2 DEF FaultConditions, Severity

LEMMA MaxOfLevels ==
    ASSUME NEW S \in SUBSET (0..2), S # {}
    PROVE  Max(S) \in S /\ \A x \in S : x <= Max(S)
<1>1. \E m \in S : \A x \in S : x <= m
  <2>1. CASE 2 \in S
    BY <2>1
  <2>2. CASE 2 \notin S /\ 1 \in S
    BY <2>2
  <2>3. CASE 2 \notin S /\ 1 \notin S
    <3>1. ASSUME NEW x \in S PROVE x = 0
      BY <2>3
    <3>2. PICK m \in S : TRUE
      OBVIOUS
    <3>3. \A x \in S : x <= m
      BY <3>1, <3>2
    <3> QED
      BY <3>2, <3>3
  <2> QED
    BY <2>1, <2>2, <2>3
<1>2. \E m \in S : \A x \in S : m >= x
  BY <1>1
<1> QED
  BY <1>2 DEF Max

\* Alarm and Worth are such a maximum.
LEMMA AlarmIsWorst ==
    ASSUME NEW path, NEW C
    PROVE  LET worst == Max({0} \cup {Severity(c, path) : c \in C})
           IN  /\ worst \in 0..2
               /\ \A c \in C : Severity(c, path) <= worst
               /\ worst = 0 \/ \E c \in C : worst = Severity(c, path)
<1> DEFINE S == {0} \cup {Severity(c, path) : c \in C}
<1>1. S \in SUBSET (0..2) /\ S # {}
  BY SeverityTyped
<1>2. Max(S) \in S /\ \A x \in S : x <= Max(S)
  BY <1>1, MaxOfLevels
<1> QED
  BY <1>1, <1>2

LEMMA ConditionsToldOrRanked ==
    \A c : c \in Conditions <=>
              (\E p \in Telling : c \in told[p].is.conditions)
                  \/ c \in FaultConditions(FaultLevel)
  BY DEF Conditions

-----------------------------------------------------------------------------
(* The invariant. *)

LEMMA InitialAlarms == AInit => AlarmsInv
<1> SUFFICES ASSUME AInit PROVE AlarmsInv
  OBVIOUS
<1>1. AlarmsTypeOK
  BY OldIsNat DEF AInit, AlarmsTypeOK, States, Rank
<1>2. \A p \in AlarmPacks : told[p].age = Old /\ ranked[p].age = Old
  BY DEF AInit
<1> QED
  BY <1>1, <1>2, OldIsNat DEF AlarmsInv

LEMMA ATickStep ==
    ASSUME AlarmsInv, ATick
    PROVE  AlarmsInv'
<1>1. AlarmsTypeOK /\ UNCHANGED <<state, asked>> /\ Quiet \in States /\ "none" \in DOMAIN Rank
  BY DEF AlarmsInv, ATick, States, Rank
<1>2. stood \in 0..Old /\ stood' \in 0..Old /\ (stood' = stood + 1 \/ (stood' = Old /\ stood = Old))
  <2>1. stood \in 0..Old /\ stood' = IF stood < Old THEN stood + 1 ELSE Old
    BY <1>1 DEF AlarmsTypeOK, ATick, Aged
  <2> QED
    BY <2>1, OldIsNat
<1>3. ASSUME NEW p \in AlarmPacks
      PROVE  /\ told'[p] \in [age : 0..Old, is : States]
             /\ told'[p].age <= FrameFor =>
                    told[p].age <= FrameFor /\ told'[p].age = told[p].age + 1
                    /\ told'[p].is = told[p].is
             /\ told[p].age \in 0..Old
  <2>1. told[p] \in [age : 0..Old, is : States]
    BY <1>1 DEF AlarmsTypeOK
  <2>2. told'[p] = IF told[p].age < FrameFor THEN [told[p] EXCEPT !.age = told[p].age + 1]
                   ELSE [age |-> Old, is |-> Quiet]
    BY DEF ATick
  <2>3. CASE told[p].age < FrameFor
    <3>1. told'[p] = [told[p] EXCEPT !.age = told[p].age + 1]
      BY <2>2, <2>3
    <3>2. told'[p].age = told[p].age + 1 /\ told'[p].is = told[p].is
      BY <2>1, <3>1
    <3> QED
      BY <2>1, <2>3, <3>1, <3>2, OldIsNat
  <2>4. CASE ~(told[p].age < FrameFor)
    <3>1. told'[p] = [age |-> Old, is |-> Quiet]
      BY <2>2, <2>4
    <3> QED
      BY <1>1, <2>1, <3>1, OldIsNat
  <2> QED
    BY <2>3, <2>4
<1>4. ASSUME NEW p \in AlarmPacks
      PROVE  /\ ranked'[p] \in [age : 0..Old, level : DOMAIN Rank]
             /\ ranked'[p].age <= FrameFor =>
                    ranked[p].age <= FrameFor /\ ranked'[p].age = ranked[p].age + 1
                    /\ ranked'[p].level = ranked[p].level
             /\ ranked[p].age \in 0..Old
  <2>1. ranked[p] \in [age : 0..Old, level : DOMAIN Rank]
    BY <1>1 DEF AlarmsTypeOK
  <2>2. ranked'[p] = IF ranked[p].age < FrameFor
                     THEN [ranked[p] EXCEPT !.age = ranked[p].age + 1]
                     ELSE [age |-> Old, level |-> "none"]
    BY DEF ATick
  <2>3. CASE ranked[p].age < FrameFor
    <3>1. ranked'[p] = [ranked[p] EXCEPT !.age = ranked[p].age + 1]
      BY <2>2, <2>3
    <3>2. ranked'[p].age = ranked[p].age + 1 /\ ranked'[p].level = ranked[p].level
      BY <2>1, <3>1
    <3> QED
      BY <2>1, <2>3, <3>1, <3>2, OldIsNat
  <2>4. CASE ~(ranked[p].age < FrameFor)
    <3>1. ranked'[p] = [age |-> Old, level |-> "none"]
      BY <2>2, <2>4
    <3> QED
      BY <1>1, <2>1, <3>1, OldIsNat
  <2> QED
    BY <2>3, <2>4
<1>5. AlarmsTypeOK'
  <2>1. told' \in [AlarmPacks -> [age : 0..Old, is : States]]
    BY <1>3 DEF ATick
  <2>2. ranked' \in [AlarmPacks -> [age : 0..Old, level : DOMAIN Rank]]
    BY <1>4 DEF ATick
  <2> QED
    BY <1>1, <1>2, <2>1, <2>2 DEF AlarmsTypeOK, Old
<1>6. ASSUME NEW p \in AlarmPacks, told'[p].age <= FrameFor, told'[p].age < stood'
      PROVE  told'[p].is = state'[p]
  <2>1. told[p].age < stood
    BY <1>2, <1>3, <1>6, OldIsNat
  <2> QED
    BY <1>1, <1>3, <1>6, <2>1 DEF AlarmsInv
<1>7. ASSUME NEW p \in AlarmPacks, ranked'[p].age <= FrameFor, ranked'[p].age < stood'
      PROVE  ranked'[p].level = state'[p].level
  <2>1. ranked[p].age < stood
    BY <1>2, <1>4, <1>7, OldIsNat
  <2> QED
    BY <1>1, <1>4, <1>7, <2>1 DEF AlarmsInv
<1> QED
  BY <1>5, <1>6, <1>7 DEF AlarmsInv

LEMMA HearConditionsStep ==
    ASSUME AlarmsInv, NEW p \in AlarmPacks, HearConditions(p)
    PROVE  AlarmsInv'
<1>1. AlarmsTypeOK /\ UNCHANGED <<state, ranked, asked, stood>>
  BY DEF AlarmsInv, HearConditions
<1>2. [age |-> 0, is |-> state[p]] \in [age : 0..Old, is : States]
  BY <1>1, OldIsNat DEF AlarmsTypeOK
<1>3. \A q \in AlarmPacks : told'[q] = IF q = p THEN [age |-> 0, is |-> state[p]] ELSE told[q]
  BY <1>1 DEF HearConditions, AlarmsTypeOK
<1>4. AlarmsTypeOK'
  <2>1. told' \in [AlarmPacks -> [age : 0..Old, is : States]]
    BY <1>1, <1>2 DEF HearConditions, AlarmsTypeOK
  <2> QED
    BY <1>1, <2>1 DEF AlarmsTypeOK, Old
<1>5. ASSUME NEW q \in AlarmPacks, told'[q].age <= FrameFor, told'[q].age < stood'
      PROVE  told'[q].is = state'[q]
  <2>1. CASE q = p
    BY <1>1, <1>3, <2>1
  <2>2. CASE q # p
    BY <1>1, <1>3, <1>5, <2>2 DEF AlarmsInv
  <2> QED
    BY <2>1, <2>2
<1> QED
  BY <1>1, <1>4, <1>5 DEF AlarmsInv

LEMMA HearLevelStep ==
    ASSUME AlarmsInv, NEW p \in AlarmPacks, HearLevel(p)
    PROVE  AlarmsInv'
<1>1. AlarmsTypeOK /\ UNCHANGED <<state, told, asked, stood>>
  BY DEF AlarmsInv, HearLevel
<1>2. state[p].level \in DOMAIN Rank
  BY <1>1, StatesTyped DEF AlarmsTypeOK
<1>3. \A q \in AlarmPacks :
          ranked'[q] = IF q = p THEN [age |-> 0, level |-> state[p].level] ELSE ranked[q]
  BY <1>1 DEF HearLevel, AlarmsTypeOK
<1>4. AlarmsTypeOK'
  <2>1. [age |-> 0, level |-> state[p].level] \in [age : 0..Old, level : DOMAIN Rank]
    BY <1>2, OldIsNat
  <2>2. ranked' \in [AlarmPacks -> [age : 0..Old, level : DOMAIN Rank]]
    BY <1>1, <2>1 DEF HearLevel, AlarmsTypeOK
  <2> QED
    BY <1>1, <2>2 DEF AlarmsTypeOK, Old
<1>5. ASSUME NEW q \in AlarmPacks, ranked'[q].age <= FrameFor, ranked'[q].age < stood'
      PROVE  ranked'[q].level = state'[q].level
  <2>1. CASE q = p
    BY <1>1, <1>3, <2>1
  <2>2. CASE q # p
    BY <1>1, <1>3, <1>5, <2>2 DEF AlarmsInv
  <2> QED
    BY <2>1, <2>2
<1> QED
  BY <1>1, <1>4, <1>5 DEF AlarmsInv

LEMMA TurnStep ==
    ASSUME AlarmsInv, NEW p \in AlarmPacks, Turn(p)
    PROVE  AlarmsInv'
<1>1. AlarmsTypeOK /\ UNCHANGED <<told, ranked, asked>> /\ stood' = 0
  BY DEF AlarmsInv, Turn
<1>2. AlarmsTypeOK'
  BY <1>1, OldIsNat DEF AlarmsTypeOK, Turn, Old
<1>3. \A q \in AlarmPacks : told'[q].age \in 0..Old /\ ranked'[q].age \in 0..Old
  BY <1>1 DEF AlarmsTypeOK
<1> QED
  BY <1>1, <1>2, <1>3 DEF AlarmsInv

LEMMA AlarmsStep == AlarmsInv /\ [ANext]_avars => AlarmsInv'
<1> SUFFICES ASSUME AlarmsInv, [ANext]_avars PROVE AlarmsInv'
  OBVIOUS
<1>1. CASE HearRequest
  <2>1. asked' \subseteq {"charge", "discharge"} /\ UNCHANGED <<state, told, ranked, stood>>
    BY <1>1 DEF HearRequest
  <2> QED
    BY <2>1 DEF AlarmsInv, AlarmsTypeOK, Old
<1>2. CASE UNCHANGED avars
  BY <1>2 DEF avars, AlarmsInv, AlarmsTypeOK, Old
<1> QED
  BY <1>1, <1>2, ATickStep, HearConditionsStep, HearLevelStep, TurnStep DEF ANext

\* The invariant behind the results below (cache.py:121-134).
THEOREM AlarmsInvariance == ASpec => []AlarmsInv
<1> QED
  BY InitialAlarms, AlarmsStep, PTL DEF ASpec

-----------------------------------------------------------------------------
(* What follows once the packs have stood. *)

LEMMA FramesTellTheState ==
    ASSUME AlarmsInv, stood = Old
    PROVE  /\ \A p \in Telling : p \in AlarmPacks /\ told[p].is = state[p]
           /\ \A p \in AlarmPacks : ranked[p].age <= FrameFor => ranked[p].level = state[p].level
<1>1. \A p \in AlarmPacks : told[p].age \in 0..Old /\ ranked[p].age \in 0..Old
  BY DEF AlarmsInv, AlarmsTypeOK
<1> QED
  BY <1>1, OldIsNat DEF AlarmsInv, Telling

LEMMA FaultLevelIsWorst ==
    ASSUME AlarmsInv
    PROVE  /\ Levels \in SUBSET DOMAIN Rank
           /\ FaultLevel \in Levels \cup {"none"}
           /\ \A level \in Levels : Rank[level] <= Rank[FaultLevel]
<1>1. Levels \in SUBSET DOMAIN Rank
  BY DEF AlarmsInv, AlarmsTypeOK, Levels, Telling
<1>2. ASSUME Levels # {}
      PROVE  \E level \in Levels : \A other \in Levels : Rank[other] <= Rank[level]
  <2>1. CASE "major" \in Levels
    BY <1>1, <2>1 DEF Rank
  <2>2. CASE "major" \notin Levels /\ "minor" \in Levels
    BY <1>1, <2>2 DEF Rank
  <2>3. CASE "major" \notin Levels /\ "minor" \notin Levels
    BY <1>1, <1>2, <2>3 DEF Rank
  <2> QED
    BY <2>1, <2>2, <2>3
<1> QED
  BY <1>1, <1>2 DEF FaultLevel

\* For a bank of any number of packs: no alarm stays below what a heard pack has or above
\* what some pack has, once the packs have stood (policy.py:381-410).
THEOREM AlarmsAreThePacks == ASpec => []AlarmsFollowPacks
<1>1. ASSUME AlarmsInv PROVE AlarmsFollowPacks
  <2> SUFFICES ASSUME stood = Old, NEW path \in Paths
               PROVE  /\ \A p \in Heard : Worth(state[p], path) <= Alarm(path)
                      /\ \E p \in AlarmPacks : Alarm(path) <= Worth(state[p], path)
    BY DEF AlarmsFollowPacks
  <2>1. /\ \A p \in Telling : p \in AlarmPacks /\ told[p].is = state[p]
        /\ \A p \in AlarmPacks : ranked[p].age <= FrameFor => ranked[p].level = state[p].level
    BY <1>1, FramesTellTheState
  <2>2. /\ Alarm(path) \in 0..2
        /\ \A c \in Conditions : Severity(c, path) <= Alarm(path)
        /\ Alarm(path) = 0 \/ \E c \in Conditions : Alarm(path) = Severity(c, path)
    BY AlarmIsWorst DEF Alarm
  <2>3. ASSUME NEW p \in AlarmPacks
        PROVE  LET own == state[p].conditions \cup FaultConditions(state[p].level)
               IN  /\ Worth(state[p], path) \in 0..2
                   /\ \A c \in own : Severity(c, path) <= Worth(state[p], path)
                   /\ Worth(state[p], path) = 0
                          \/ \E c \in own : Worth(state[p], path) = Severity(c, path)
    BY AlarmIsWorst DEF Worth
  <2>4. ASSUME NEW p \in Heard PROVE Worth(state[p], path) <= Alarm(path)
    <3>1. p \in Telling /\ p \in AlarmPacks /\ ranked[p].age <= FrameFor
      BY <2>1 DEF Heard
    <3>2. CASE Worth(state[p], path) = 0
      BY <2>2, <3>2
    <3>3. ASSUME NEW c \in state[p].conditions PROVE Severity(c, path) <= Alarm(path)
      <4>1. c \in Conditions
        BY <2>1, <3>1 DEF Conditions
      <4> QED
        BY <2>2, <4>1
    <3>4. ASSUME NEW c \in FaultConditions(state[p].level)
          PROVE  Severity(c, path) <= Alarm(path)
      <4>1. state[p].level \in Levels
        BY <2>1, <3>1 DEF Levels
      <4>2. /\ state[p].level \in DOMAIN Rank /\ FaultLevel \in DOMAIN Rank
            /\ Rank[state[p].level] <= Rank[FaultLevel]
        BY <1>1, <4>1, FaultLevelIsWorst DEF Rank
      <4>3. /\ FaultLevel \in FaultConditions(FaultLevel)
            /\ Severity(c, path) <= Severity(FaultLevel, path)
        BY <4>2, RankOrders
      <4>4. Severity(FaultLevel, path) <= Alarm(path)
        <5>1. FaultLevel \in Conditions
          BY <4>3, ConditionsToldOrRanked
        <5> QED
          BY <2>2, <5>1
      <4>5. Severity(c, path) \in 0..2 /\ Severity(FaultLevel, path) \in 0..2
        BY SeverityTyped
      <4> QED
        BY <2>2, <4>3, <4>4, <4>5
    <3> QED
      BY <2>3, <3>1, <3>2, <3>3, <3>4
  <2>5. \E p \in AlarmPacks : Alarm(path) <= Worth(state[p], path)
    <3>1. CASE Alarm(path) = 0
      BY <2>3, <3>1, AlarmPacksAssumption
    <3>2. CASE Alarm(path) # 0
      <4>1. PICK c \in Conditions : Alarm(path) = Severity(c, path)
        BY <2>2, <3>2
      <4>2. CASE c \in FaultConditions(FaultLevel)
        <5>1. c = FaultLevel /\ FaultLevel \in Levels
          BY <1>1, <4>2, FaultLevelIsWorst DEF FaultConditions
        <5>2. PICK p \in Telling : ranked[p].age <= FrameFor /\ c = ranked[p].level
          BY <5>1 DEF Levels
        <5>3. p \in AlarmPacks /\ c = state[p].level
          BY <2>1, <5>2
        <5>4. c \in FaultConditions(state[p].level)
          BY <4>2, <5>1, <5>3
        <5> QED
          BY <2>3, <4>1, <5>3, <5>4
      <4>3. CASE c \notin FaultConditions(FaultLevel)
        <5>1. PICK p \in Telling : c \in told[p].is.conditions
          BY <4>3, ConditionsToldOrRanked
        <5> QED
          BY <2>1, <2>3, <4>1, <5>1
      <4> QED
        BY <4>2, <4>3
    <3> QED
      BY <3>1, <3>2
  <2> QED
    BY <2>4, <2>5
<1> QED
  BY <1>1, AlarmsInvariance, PTL

\* For a bank of any number of packs: the flag is that of a pack with a protection its MOS
\* does not answer, or that no MOS can (policy.py:550-571, 716-741).
THEOREM FlagIsThePacks == ASpec => []FlagFollowsPacks
<1>1. ASSUME AlarmsInv PROVE FlagFollowsPacks
  <2> SUFFICES ASSUME stood = Old
               PROVE  /\ (\E p \in Heard : Unanswered(state[p])) =>
                             ProtectionWithoutDirectionalLimit
                      /\ ProtectionWithoutDirectionalLimit =>
                             \E p \in AlarmPacks : Unanswered(state[p])
    BY DEF FlagFollowsPacks
  <2>1. /\ \A p \in Telling : p \in AlarmPacks /\ told[p].is = state[p]
        /\ \A p \in AlarmPacks : ranked[p].age <= FrameFor => ranked[p].level = state[p].level
    BY <1>1, FramesTellTheState
  <2>2. ASSUME NEW p \in Heard, Unanswered(state[p]) PROVE Uncoordinated(p)
    <3>1. /\ told[p].is = state[p] /\ ranked[p].age <= FrameFor
          /\ ranked[p].level = state[p].level
      BY <2>1 DEF Heard
    <3>2. Group(p) = state[p].conditions \cup FaultConditions(state[p].level)
      BY <3>1 DEF Group
    <3> QED
      BY <2>2, <3>1, <3>2 DEF Uncoordinated, Unanswered
  <2>3. ASSUME NEW p \in Telling, Uncoordinated(p) PROVE Unanswered(state[p])
    <3>1. p \in AlarmPacks /\ told[p].is = state[p]
      BY <2>1
    <3>2. Group(p) \subseteq state[p].conditions \cup FaultConditions(state[p].level)
      BY <2>1, <3>1 DEF Group
    <3> QED
      BY <2>3, <3>1, <3>2 DEF Uncoordinated, Unanswered
  <2> QED
    BY <2>1, <2>2, <2>3 DEF ProtectionWithoutDirectionalLimit, Heard
<1> QED
  BY <1>1, AlarmsInvariance, PTL

\* Types of the packs and of their cached frames.
THEOREM AlarmTypes == ASpec => []AlarmsTypeOK
<1>1. AlarmsInv => AlarmsTypeOK
  BY DEF AlarmsInv
<1> QED
  BY <1>1, AlarmsInvariance, PTL
====
