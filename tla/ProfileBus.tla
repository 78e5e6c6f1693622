------------------------------ MODULE ProfileBus ------------------------------
(***************************************************************************)
(* The profile detector on a bus: one sender, which may change its profile *)
(* once (somebody changes the battery's settings), and stray identifiers,  *)
(* frames that look like the other family's.  What the detector and the    *)
(* cache promise about it.                                                 *)
(***************************************************************************)
EXTENDS Profile

CONSTANTS
    MaxTime,       \* bound on the clock
    MaxStrays,     \* bound on stray identifiers
    MaxChanges,    \* bound on the changes the detector has made
    MaxStreak      \* bound on contradictions in a row

VARIABLES
    sender,           \* the profile the battery speaks
    switched_at,      \* when it changed it, None if it has not
    strays,
    contradictions    \* contradicting samples since the last agreement or change of profile

bvars == <<pvars, sender, switched_at, strays, contradictions>>

Init ==
    /\ PInit
    /\ sender \in Families
    /\ strays = 0
    /\ switched_at = None
    /\ contradictions = 0

\* A contradicting sample counts for the profile it was compared under.
Observe(compared, agrees) ==
    contradictions' =
        IF detector'.changes # detector.changes \/ (compared /\ agrees) THEN 0
        ELSE IF compared THEN contradictions + 1 ELSE contradictions

Time ==
    /\ clock < MaxTime
    /\ Tick
    /\ UNCHANGED <<sender, switched_at, strays, contradictions>>

SwitchSender ==
    /\ switched_at = None
    /\ switched_at' = clock
    /\ sender' = Other(sender)
    /\ UNCHANGED <<pvars, strays, contradictions>>

Genuine == Marker(sender) /\ UNCHANGED strays

Stray ==
    /\ strays < MaxStrays
    /\ strays' = strays + 1
    /\ Marker(Other(sender))

Quiet == (NeutralName \/ LimitFrame \/ Snapshot) /\ UNCHANGED strays

Frame ==
    /\ Genuine \/ Stray \/ Quiet
    /\ Observe(FALSE, FALSE)
    /\ UNCHANGED <<sender, switched_at>>

Current(packs, product) ==
    /\ CurrentFrame(packs, product)
    /\ Observe(Comparable(packs) /\ Compared(detector.profile, product),
               Agrees(detector.profile, product))
    /\ UNCHANGED <<sender, switched_at, strays>>

Next ==
    /\ \/ Time
       \/ SwitchSender
       \/ Frame
       \/ \E packs \in BOOLEAN, product \in {-1, 0, 1} : Current(packs, product)
    /\ detector'.changes <= MaxChanges
    /\ contradictions' <= MaxStreak

Spec == Init /\ [][Next]_bvars

-----------------------------------------------------------------------------

\* Types; and the cache has never copied more changes than the detector lists.
ProfileTypeOK ==
    /\ clock \in Nat
    /\ evidence \in [Families -> Seq(0..clock)]
    /\ \A f \in Families : Len(evidence[f]) <= RecentKept
    /\ detector \in DetectorState
    /\ check \in CheckState
    /\ current_seen \in BOOLEAN
    /\ {strays, contradictions} \subseteq Nat
    /\ switched_at \in Nat \cup {None}
    /\ sender \in Families
    /\ check.synced <= Listed(detector.changes)

\* A profile that is the sender's stays: neither strays too few to count as evidence,
\* whenever they come, nor markers from before a change of the sender, once it is older
\* than the evidence timeout, move it while the sender is transmitting ("a single
\* corrupted identifier cannot move the profile while the current profile is still
\* transmitting", profile.py:78).
RightProfileStays ==
    [][ /\ switched_at = None \/ clock - switched_at > EvidenceTimeout
        /\ strays' < SwitchCount
        /\ detector.profile = sender /\ sender' = sender
        /\ Fresh(evidence', sender)
        => detector'.profile = sender ]_bvars

\* "The running cross-check must not carry contradictions across the boundary" of a
\* profile change (cache.py:429): while the detector's list of changes has not been
\* trimmed, the contradictions the cache acts on all belong to the present profile.
\* After 200 changes it copies none any more (cache.py:414, profile.py:188).
CrosscheckWhileListed ==
    /\ detector.changes <= TransitionsKept
    /\ check.synced = detector.changes
    => /\ check.streak = contradictions
       /\ check.conflict <=> contradictions >= Disagreements

\* What one snapshot says of the profile is one profile: the sign of the published
\* current, the control fields the policy requires and the health summary agree
\* (cache.py:644, "keeps one source of truth").
SnapshotSeesOneProfile ==
    /\ CurrentReading.profile = RequiredReading.profile
    /\ RequiredReading.profile = HealthReading.profile

(***************************************************************************)
(* The inductive invariant behind the type invariant and the cross-check.  *)
(***************************************************************************)
\* A change that has not been copied yet has put an end to the contradictions counted
\* before it; when all are copied the cache counts what there is to count.
CrosscheckInv ==
    detector.changes <= TransitionsKept =>
        IF check.synced = detector.changes
        THEN /\ check.streak = contradictions
             /\ check.conflict <=> contradictions >= Disagreements
        ELSE contradictions = 0

IInv == ProfileTypeOK /\ CrosscheckInv

\* What RightProfileStays needs: of the markers of the other family that are kept, those
\* from after the sender's change are among the last ones, no more than there were strays.
StraysInv ==
    LET ev == evidence[Other(sender)]
    IN  \A i \in DOMAIN ev : ev[i] > switched_at => i > Len(ev) - strays

\* What one profile per snapshot needs: both families at once quiet for long enough and
\* repeated often enough to take over from the other, or a detector that knew no profile
\* while a marker was fresh, would make it flip from one question to the next.
BothOvertaken == \A f \in Families : Fresh(evidence, f) /\ SwitchDue(evidence, f)

UnknownInv == detector.profile = Unknown => \A f \in Families : ~Fresh(evidence, f)
====
