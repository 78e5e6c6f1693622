------------------------------- MODULE Profile -------------------------------
(***************************************************************************)
(* The protocol profile detector of profile.py, which tells from marker    *)
(* frames whether the battery speaks the Deye native or the victronCAN     *)
(* profile (they give the current opposite signs), and the part of         *)
(* cache.py that uses it: the log of profile changes, the cross-check of   *)
(* the current's sign, and the snapshot.                                   *)
(*                                                                         *)
(* Asking the detector for the profile may change it, so every question    *)
(* the code asks is a step Resolved of the detector, in the code's order.  *)
(***************************************************************************)
EXTENDS Integers, Sequences, FiniteSets

CONSTANTS
    EvidenceTimeout,   \* evidence_timeout_seconds
    SwitchQuiet,       \* switch_quiet_seconds
    SwitchCount,       \* switch_evidence_count
    Hold,              \* hold_last_profile_seconds
    Settle,            \* transition_settle_seconds
    RecentKept,        \* marker times kept per family
    TransitionsKept,   \* profile changes kept in the detector's list
    Disagreements      \* SIGN_CROSSCHECK_DISAGREEMENTS

ASSUME ProfileTimesAssumption ==
    {EvidenceTimeout, SwitchQuiet, Hold, Settle} \subseteq Nat

ASSUME ProfileCountsAssumption ==
    /\ {SwitchCount, TransitionsKept, Disagreements} \subseteq Nat \ {0}
    /\ RecentKept \in Nat
    /\ RecentKept >= SwitchCount

Deye     == "deye_native"
Victron  == "victron_can"
Unknown  == "unknown"
Families == {Deye, Victron}
Other(family) == IF family = Deye THEN Victron ELSE Deye

None == -1

VARIABLES
    clock,
    evidence,      \* the last marker times of each family, oldest first
    detector,      \* profile, profile_since, and the number of changes so far
    check,         \* the cache's sign cross-check and its place in the list of changes
    current_seen   \* a current frame (0x356) has been decoded

pvars == <<clock, evidence, detector, check, current_seen>>

DetectorState == [profile : Families \cup {Unknown}, since : Nat \cup {None}, changes : Nat]
CheckState    == [synced : Nat, streak : Nat, conflict : BOOLEAN]

PInit ==
    /\ clock = 0
    /\ evidence = [f \in Families |-> <<>>]
    /\ detector = [profile |-> Unknown, since |-> None, changes |-> 0]
    /\ check = [synced |-> 0, streak |-> 0, conflict |-> FALSE]
    /\ current_seen = FALSE

-----------------------------------------------------------------------------
(* The detector. *)

\* Mutant: old marker times are kept.
ObservedUntrimmed(recent) == Append(recent, clock)

\* _Evidence.observe
Observed(recent) ==
    LET longer == Append(recent, clock)
    IN  IF Len(longer) > RecentKept THEN Tail(longer) ELSE longer

Heard(ev, f) == ev[f] # <<>>
Age(ev, f)   == clock - ev[f][Len(ev[f])]

Fresh(ev, f) == Heard(ev, f) /\ Age(ev, f) <= EvidenceTimeout

CountSince(recent, since) == Cardinality({i \in DOMAIN recent : recent[i] >= since})

\* Mutant: one frame of the incoming family is enough.
SwitchDueOnce(ev, p) == Age(ev, p) >= SwitchQuiet

\* The established family is quiet and the other one has repeated itself.
SwitchDue(ev, p) ==
    /\ Age(ev, p) >= SwitchQuiet
    /\ CountSince(ev[Other(p)], clock - EvidenceTimeout) >= SwitchCount

OverlapCandidate(ev, p) ==
    IF p = Unknown
    THEN IF Age(ev, Victron) < Age(ev, Deye) THEN Victron ELSE Deye
    ELSE IF SwitchDue(ev, p) THEN Other(p) ELSE p

\* A known profile is held for a while after the last marker of either family.
ExpiredCandidate(ev, p) ==
    IF p # Unknown /\ \E f \in Families : Heard(ev, f) /\ Age(ev, f) <= Hold
    THEN p ELSE Unknown

Candidate(ev, p) ==
    IF \A f \in Families : Fresh(ev, f) THEN OverlapCandidate(ev, p)
    ELSE IF \E f \in Families : Fresh(ev, f) THEN CHOOSE f \in Families : Fresh(ev, f)
    ELSE ExpiredCandidate(ev, p)

\* _resolve: the state of the detector after it has been asked.
Resolved(d, ev) ==
    LET p == Candidate(ev, d.profile)
    IN  IF p = d.profile THEN d
        ELSE [profile |-> p, since |-> clock, changes |-> d.changes + 1]

InTransition(d) == d.since # None /\ clock - d.since < Settle

\* The list of changes is trimmed to its newest entries.
Listed(changes) == IF changes > TransitionsKept THEN TransitionsKept ELSE changes

-----------------------------------------------------------------------------
(* The cache. *)

\* Mutant: a profile change leaves the running count of contradictions alone.
SyncedKeepsStreak(c, changes) ==
    IF c.synced < Listed(changes)
    THEN [synced |-> Listed(changes), streak |-> c.streak, conflict |-> FALSE]
    ELSE c

\* _sync_profile_events: entries of the list beyond those already copied.
Synced(c, changes) ==
    IF c.synced < Listed(changes)
    THEN [synced |-> Listed(changes), streak |-> 0, conflict |-> FALSE]
    ELSE c

Tick == clock' = clock + 1 /\ UNCHANGED <<evidence, detector, check, current_seen>>

\* apply() of a frame that only one family sends.
Marker(family) ==
    /\ evidence' = [evidence EXCEPT ![family] = Observed(@)]
    /\ detector' = Resolved(detector, evidence')
    /\ check' = Synced(check, detector'.changes)
    /\ UNCHANGED <<clock, current_seen>>

\* apply() of a manufacturer name of neither family: the detector resolves, the
\* changes are copied, and the decoder asks again.
NeutralName ==
    LET resolved == Resolved(detector, evidence)
    IN  /\ detector' = Resolved(resolved, evidence)
        /\ check' = Synced(check, resolved.changes)
        /\ UNCHANGED <<clock, evidence, current_seen>>

\* apply() of a limit frame (0x351): its decoder asks for the profile.
LimitFrame ==
    /\ check' = Synced(check, detector.changes)
    /\ detector' = Resolved(detector, evidence)
    /\ UNCHANGED <<clock, evidence, current_seen>>

\* _observe_current_sign: `product` is the sign of the frame's current in the wire
\* convention of victronCAN times that of the packs' own, 0 if either is small.
Agrees(p, product)    == product = (IF p = Victron THEN 1 ELSE -1)
Compared(p, product)  == p # Unknown /\ product # 0

Compare(c, p, product) ==
    IF ~Compared(p, product) THEN c
    ELSE IF Agrees(p, product) THEN [c EXCEPT !.streak = 0, !.conflict = FALSE]
    ELSE [c EXCEPT !.streak = @ + 1, !.conflict = @ \/ c.streak + 1 >= Disagreements]

\* Whether this frame is compared at all: not while settling, and not without a
\* fresh current of every pack.
Comparable(packs) == packs /\ ~InTransition(detector)

\* apply() of a current frame (0x356), `packs` telling whether the currents of all
\* packs are fresh.  A new conflict asks for the profile once more, for the log.
CurrentFrame(packs, product) ==
    LET asked  == IF Comparable(packs) THEN Resolved(detector, evidence) ELSE detector
        synced == Synced(check, detector.changes)
    IN  /\ check' = IF Comparable(packs) THEN Compare(synced, asked.profile, product)
                    ELSE synced
        /\ detector' = IF check'.conflict /\ ~synced.conflict
                       THEN Resolved(asked, evidence) ELSE asked
        /\ current_seen' = TRUE
        /\ UNCHANGED <<clock, evidence>>

\* snapshot(): the profile is asked for to expire old evidence, for the sign of the
\* published current, for the policy and for the health summary.
FirstReading    == Resolved(detector, evidence)
CurrentReading  == IF current_seen THEN Resolved(FirstReading, evidence) ELSE FirstReading
RequiredReading == Resolved(CurrentReading, evidence)
HealthReading   == Resolved(RequiredReading, evidence)

Snapshot ==
    /\ check' = Synced(check, FirstReading.changes)
    /\ detector' = HealthReading
    /\ UNCHANGED <<clock, evidence, current_seen>>
====
