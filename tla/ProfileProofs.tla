----------------------------- MODULE ProfileProofs -----------------------------
(***************************************************************************)
(* Proofs about ProfileBus: its types, and that the sign cross-check the   *)
(* cache acts on is that of the present profile as long as the detector's  *)
(* list of changes has not been trimmed, and that a profile that is right  *)
(* stays, for every bus and every choice of times and counts.              *)
(***************************************************************************)
EXTENDS ProfileBus, SequenceTheorems, FiniteSetTheorems, TLAPS

Profiles == Families \cup {Unknown}

\* What the detector answers is a profile, whatever it has heard.
LEMMA CandidateIsProfile ==
    ASSUME NEW ev, NEW p \in Profiles
    PROVE  Candidate(ev, p) \in Profiles
<1>1. OverlapCandidate(ev, p) \in Profiles
  BY DEF OverlapCandidate, Profiles, Families, Other
<1>2. ExpiredCandidate(ev, p) \in Profiles
  BY DEF ExpiredCandidate, Profiles
<1>3. ASSUME \E f \in Families : Fresh(ev, f)
      PROVE  (CHOOSE f \in Families : Fresh(ev, f)) \in Profiles
  BY <1>3 DEF Profiles
<1> QED
  BY <1>1, <1>2, <1>3 DEF Candidate

\* Asking the detector leaves it alone or records one change.
LEMMA ResolvedOnce ==
    ASSUME NEW d \in DetectorState, NEW ev, clock \in Nat
    PROVE  /\ Resolved(d, ev) \in DetectorState
           /\ Resolved(d, ev) = d \/ Resolved(d, ev).changes = d.changes + 1
<1>1. d.profile \in Profiles
  BY DEF DetectorState, Profiles
<1>2. Candidate(ev, d.profile) \in Profiles
  BY <1>1, CandidateIsProfile
<1> QED
  BY <1>2 DEF Resolved, DetectorState, Profiles

\* Copying the changes leaves nothing behind that is listed.
LEMMA SyncedAll ==
    ASSUME NEW c \in CheckState, NEW n \in Nat
    PROVE  /\ Synced(c, n) \in CheckState
           /\ c.synced <= Listed(n) => Synced(c, n).synced = Listed(n)
           /\ Synced(c, n) = c
              \/ Synced(c, n) = [synced |-> Listed(n), streak |-> 0, conflict |-> FALSE]
  BY ProfileCountsAssumption DEF Synced, Listed, CheckState

\* The list only gets longer.
LEMMA ListedGrows ==
    ASSUME NEW m \in Nat, NEW n \in Nat, m <= n
    PROVE  Listed(m) <= Listed(n) /\ Listed(n) \in Nat
  BY ProfileCountsAssumption DEF Listed

\* A marker time is appended, and an old one dropped when there are too many.
LEMMA ObservedKeepsTimes ==
    ASSUME clock \in Nat, NEW recent \in Seq(0..clock), Len(recent) <= RecentKept
    PROVE  Observed(recent) \in Seq(0..clock) /\ Len(Observed(recent)) <= RecentKept
<1> DEFINE longer == Append(recent, clock)
<1>1. longer \in Seq(0..clock) /\ Len(longer) = Len(recent) + 1 /\ longer # <<>>
  OBVIOUS
<1>2. Tail(longer) \in Seq(0..clock) /\ Len(Tail(longer)) = Len(recent)
  BY <1>1, HeadTailProperties
<1>3. Len(recent) \in Nat /\ RecentKept \in Nat
  BY ProfileCountsAssumption, LenProperties
<1>4. Observed(recent) = IF Len(longer) > RecentKept THEN Tail(longer) ELSE longer
  BY DEF Observed
<1> HIDE DEF longer
<1>5. CASE Len(longer) > RecentKept
  BY <1>2, <1>4, <1>5
<1>6. CASE ~(Len(longer) > RecentKept)
  BY <1>1, <1>3, <1>4, <1>6
<1> QED
  BY <1>5, <1>6

\* Later times are times.
LEMMA TimesGrow ==
    ASSUME clock \in Nat, clock' = clock + 1
    PROVE  Seq(0..clock) \subseteq Seq(0..clock')
<1>1. 0..clock \subseteq 0..clock'
  OBVIOUS
<1> QED
  BY <1>1, SeqMonotonic

-----------------------------------------------------------------------------
(* One step of the cache: changes up to d1 are copied, more may follow. *)

LEMMA Copied ==
    ASSUME ProfileTypeOK, CrosscheckInv,
           NEW m \in Nat, detector.changes <= m,
           check' = Synced(check, m),
           detector' \in DetectorState, m <= detector'.changes,
           contradictions' = IF detector'.changes # detector.changes THEN 0 ELSE contradictions
    PROVE  /\ check' \in CheckState
           /\ contradictions' \in Nat
           /\ check'.synced <= Listed(detector'.changes)
           /\ CrosscheckInv'
<1> DEFINE c == detector.changes
           n == detector'.changes
<1>1. c \in Nat /\ n \in Nat /\ check \in CheckState /\ contradictions \in Nat
      /\ check.synced <= Listed(c)
  BY DEF ProfileTypeOK, DetectorState
<1>2. /\ Listed(c) \in Nat /\ Listed(m) \in Nat /\ Listed(n) \in Nat
      /\ Listed(c) <= Listed(m) /\ Listed(m) <= Listed(n)
  BY <1>1, ListedGrows
<1>3. check.synced \in Nat
  BY <1>1 DEF CheckState
<1>4. check' \in CheckState /\ check'.synced = Listed(m)
  BY <1>1, <1>2, <1>3, SyncedAll
<1>5. contradictions' \in Nat /\ check'.synced <= Listed(n)
  BY <1>1, <1>2, <1>4
<1>6. ASSUME n <= TransitionsKept
      PROVE  IF check'.synced = n
             THEN /\ check'.streak = contradictions'
                  /\ check'.conflict <=> contradictions' >= Disagreements
             ELSE contradictions' = 0
  <2>1. Listed(c) = c /\ Listed(m) = m
    BY <1>1, <1>6, ProfileCountsAssumption DEF Listed
  <2>2. CASE check.synced < m
    <3>1. check' = [synced |-> m, streak |-> 0, conflict |-> FALSE]
      BY <2>1, <2>2 DEF Synced
    <3>2. contradictions' = 0
      BY <1>1, <1>3, <1>6, <2>1, <2>2, ProfileCountsAssumption DEF CrosscheckInv
    <3> QED
      BY <3>1, <3>2, ProfileCountsAssumption
  <2>3. CASE check.synced = m
    <3>1. check' = check /\ m = c
      BY <1>1, <1>2, <1>3, <2>1, <2>3 DEF Synced
    <3> QED
      BY <1>1, <1>6, <2>3, <3>1, ProfileCountsAssumption DEF CrosscheckInv
  <2> QED
    BY <1>1, <1>2, <1>3, <2>1, <2>2, <2>3
<1> QED
  BY <1>4, <1>5, <1>6 DEF CrosscheckInv

\* A sample leaves the place in the list of changes alone.
LEMMA ComparedType ==
    ASSUME NEW c \in CheckState, NEW p, NEW product
    PROVE  Compare(c, p, product) \in CheckState /\ Compare(c, p, product).synced = c.synced
<1>1. \A n \in Nat, b \in BOOLEAN :
         LET d == [c EXCEPT !.streak = n, !.conflict = b]
         IN  d \in CheckState /\ d.synced = c.synced
  BY Zenon DEF CheckState
<1>2. c.streak + 1 \in Nat
  BY DEF CheckState
<1>3. (c.conflict \/ c.streak + 1 >= Disagreements) \in BOOLEAN
  OBVIOUS
<1>4. [c EXCEPT !.streak = @ + 1, !.conflict = @ \/ c.streak + 1 >= Disagreements]
      = [c EXCEPT !.streak = c.streak + 1,
                  !.conflict = c.conflict \/ c.streak + 1 >= Disagreements]
  BY Zenon
<1> QED
  BY <1>1, <1>2, <1>3, <1>4, Zenon DEF Compare

\* A current frame: the changes so far are copied, then the sample is compared.
LEMMA ComparedSample ==
    ASSUME ProfileTypeOK, CrosscheckInv, NEW packs \in BOOLEAN, NEW product \in {-1, 0, 1},
           Current(packs, product)
    PROVE  /\ check' \in CheckState
           /\ contradictions' \in Nat
           /\ detector' \in DetectorState
           /\ check'.synced <= Listed(detector'.changes)
           /\ CrosscheckInv'
<1> DEFINE asked  == IF Comparable(packs) THEN Resolved(detector, evidence) ELSE detector
           synced == Synced(check, detector.changes)
           c == detector.changes
<1>1. /\ check' = IF Comparable(packs) THEN Compare(synced, asked.profile, product) ELSE synced
      /\ detector' = IF check'.conflict /\ ~synced.conflict
                     THEN Resolved(asked, evidence) ELSE asked
  BY DEF Current, CurrentFrame
<1>2. contradictions' =
         IF detector'.changes # c
            \/ (Comparable(packs) /\ Compared(detector.profile, product)
                /\ Agrees(detector.profile, product))
         THEN 0
         ELSE IF Comparable(packs) /\ Compared(detector.profile, product)
              THEN contradictions + 1 ELSE contradictions
  BY DEF Current, Observe
<1>3. /\ detector \in DetectorState /\ check \in CheckState /\ contradictions \in Nat
      /\ clock \in Nat /\ c \in Nat /\ check.synced <= Listed(c) /\ check.synced \in Nat
  BY DEF ProfileTypeOK, DetectorState, CheckState
<1>4. /\ asked \in DetectorState
      /\ asked = detector \/ (Comparable(packs) /\ asked.changes = c + 1)
  BY <1>3, ResolvedOnce
<1>5. /\ Resolved(asked, evidence) \in DetectorState
      /\ Resolved(asked, evidence) = asked \/ Resolved(asked, evidence).changes = asked.changes + 1
  BY <1>3, <1>4, ResolvedOnce
<1>6. detector' \in DetectorState /\ detector'.changes \in Nat /\ asked.changes \in Nat
      /\ c <= asked.changes /\ asked.changes <= detector'.changes
  <2> HIDE DEF asked, synced
  <2>1. detector' \in DetectorState /\ asked.changes \in Nat /\ detector'.changes \in Nat
    BY <1>1, <1>4, <1>5 DEF DetectorState
  <2>2. detector' = asked \/ detector'.changes = asked.changes + 1
    BY <1>1, <1>5
  <2> QED
    BY <1>3, <1>4, <2>1, <2>2
<1>7. /\ Listed(c) \in Nat /\ Listed(detector'.changes) \in Nat
      /\ Listed(c) <= Listed(detector'.changes)
  BY <1>3, <1>6, ListedGrows
<1>8. /\ synced \in CheckState /\ synced.synced = Listed(c)
      /\ synced = check \/ synced = [synced |-> Listed(c), streak |-> 0, conflict |-> FALSE]
  BY <1>3, <1>7, SyncedAll
<1> HIDE DEF asked, synced
<1>9. check' \in CheckState /\ check'.synced = Listed(c)
  <2>1. check' = synced \/ check' = Compare(synced, asked.profile, product)
    BY <1>1
  <2>2. Compare(synced, asked.profile, product) \in CheckState
        /\ Compare(synced, asked.profile, product).synced = synced.synced
    BY <1>8, ComparedType
  <2> QED
    BY <1>8, <2>1, <2>2
<1>10. contradictions' \in Nat
  BY <1>2, <1>3
<1>11. ASSUME detector'.changes <= TransitionsKept
       PROVE  IF check'.synced = detector'.changes
              THEN /\ check'.streak = contradictions'
                   /\ check'.conflict <=> contradictions' >= Disagreements
              ELSE contradictions' = 0
  <2>1. Listed(c) = c
    BY <1>3, <1>6, <1>11, ProfileCountsAssumption DEF Listed
  <2>2. CASE detector'.changes # c
    BY <1>2, <1>9, <2>1, <2>2
  <2>3. CASE detector'.changes = c
    <3>1. asked = detector
      BY <1>3, <1>4, <1>6, <2>3
    <3>2. /\ synced.streak = contradictions
          /\ synced.conflict <=> contradictions >= Disagreements
      <4>1. CASE check.synced = c
        <5>1. synced = check
          BY <1>3, <2>1, <4>1 DEF Synced, synced
        <5> QED
          BY <1>3, <1>6, <1>11, <2>3, <4>1, <5>1, ProfileCountsAssumption DEF CrosscheckInv
      <4>2. CASE check.synced # c
        <5>1. synced = [synced |-> c, streak |-> 0, conflict |-> FALSE]
          BY <1>3, <2>1, <4>2 DEF Synced, synced
        <5>2. contradictions = 0
          BY <1>3, <1>6, <1>11, <2>3, <4>2, ProfileCountsAssumption DEF CrosscheckInv
        <5> QED
          BY <5>1, <5>2, ProfileCountsAssumption
      <4> QED
        BY <4>1, <4>2
    <3>3. synced.streak \in Nat /\ synced.conflict \in BOOLEAN
      BY <1>8 DEF CheckState
    <3>4. CASE ~(Comparable(packs) /\ Compared(detector.profile, product))
      BY <1>1, <1>2, <1>9, <2>1, <2>3, <3>1, <3>2, <3>4 DEF Compare
    <3>5. CASE /\ Comparable(packs) /\ Compared(detector.profile, product)
               /\ Agrees(detector.profile, product)
      <4>1. check' = [synced EXCEPT !.streak = 0, !.conflict = FALSE] /\ contradictions' = 0
        BY <1>1, <1>2, <3>1, <3>5 DEF Compare
      <4> QED
        BY <1>8, <1>9, <2>1, <2>3, <4>1, ProfileCountsAssumption DEF CheckState
    <3>6. CASE /\ Comparable(packs) /\ Compared(detector.profile, product)
               /\ ~Agrees(detector.profile, product)
      <4>1. check' = [synced EXCEPT !.streak = @ + 1,
                                    !.conflict = @ \/ synced.streak + 1 >= Disagreements]
        BY <1>1, <3>1, <3>6 DEF Compare
      <4>2. contradictions' = contradictions + 1
        BY <1>2, <2>3, <3>6
      <4>3. /\ check'.streak = synced.streak + 1
            /\ check'.conflict = (synced.conflict \/ synced.streak + 1 >= Disagreements)
        BY <1>8, <4>1 DEF CheckState
      <4>4. contradictions >= Disagreements => contradictions + 1 >= Disagreements
        BY <1>3, ProfileCountsAssumption
      <4> QED
        BY <1>9, <2>1, <2>3, <3>2, <4>2, <4>3, <4>4
    <3> QED
      BY <3>4, <3>5, <3>6
  <2> QED
    BY <2>2, <2>3
<1> QED
  BY <1>6, <1>7, <1>9, <1>10, <1>11 DEF CrosscheckInv

-----------------------------------------------------------------------------
(* The invariant. *)

LEMMA InitialProfile == Init => IInv
<1> SUFFICES ASSUME Init PROVE IInv
  OBVIOUS
<1>1. evidence \in [Families -> Seq(0..clock)] /\ \A f \in Families : Len(evidence[f]) <= RecentKept
  BY ProfileCountsAssumption DEF Init, PInit
<1>2. Listed(0) = 0
  BY ProfileCountsAssumption DEF Listed
<1>3. detector \in DetectorState /\ check \in CheckState
  BY DEF Init, PInit, DetectorState, CheckState, None
<1>4. check.synced = 0 /\ detector.changes = 0 /\ check.streak = 0 /\ check.conflict = FALSE
      /\ contradictions = 0
  BY DEF Init, PInit
<1>5. ProfileTypeOK
  <2>1. check.synced <= Listed(detector.changes)
    BY <1>2, <1>4
  <2>2. clock \in Nat /\ current_seen \in BOOLEAN
    BY DEF Init, PInit
  <2>4. strays \in Nat /\ contradictions \in Nat
    BY DEF Init, PInit
  <2>3. switched_at \in Nat \cup {None} /\ sender \in Families
    BY DEF Init
  <2> QED
    BY <1>1, <1>3, <2>1, <2>2, <2>3, <2>4 DEF ProfileTypeOK
<1>6. CrosscheckInv
  BY <1>4, ProfileCountsAssumption DEF CrosscheckInv
<1> QED
  BY <1>5, <1>6 DEF IInv

\* Asking several times in a row: changes only accumulate.
LEMMA ResolvedGrows ==
    ASSUME NEW d \in DetectorState, NEW ev, clock \in Nat
    PROVE  /\ Resolved(d, ev) \in DetectorState
           /\ d.changes \in Nat /\ Resolved(d, ev).changes \in Nat
           /\ d.changes <= Resolved(d, ev).changes
<1>1. Resolved(d, ev) \in DetectorState
      /\ (Resolved(d, ev) = d \/ Resolved(d, ev).changes = d.changes + 1)
  BY ResolvedOnce
<1>2. d.changes \in Nat /\ Resolved(d, ev).changes \in Nat
  BY <1>1 DEF DetectorState
<1> QED
  BY <1>1, <1>2

\* Every frame and every snapshot copies the changes up to some point.
LEMMA FrameCopies ==
    ASSUME ProfileTypeOK, Frame
    PROVE  \E m \in Nat : /\ detector.changes <= m /\ m <= detector'.changes
                         /\ check' = Synced(check, m)
                         /\ detector' \in DetectorState
<1>1. detector \in DetectorState /\ clock \in Nat
  BY DEF ProfileTypeOK
<1>2. ASSUME NEW f, Marker(f)
      PROVE  /\ detector' = Resolved(detector, evidence')
             /\ check' = Synced(check, detector'.changes)
  BY <1>2 DEF Marker
<1>3. ASSUME NEW f, Marker(f)
      PROVE  /\ detector.changes <= detector'.changes
             /\ detector'.changes \in Nat /\ detector' \in DetectorState
  BY <1>1, <1>2, <1>3, ResolvedGrows
<1>4. CASE Genuine
  BY <1>2, <1>3, <1>4 DEF Genuine
<1>5. CASE Stray
  BY <1>2, <1>3, <1>5 DEF Stray
<1>6. CASE NeutralName
  <2> DEFINE resolved == Resolved(detector, evidence)
  <2>1. detector' = Resolved(resolved, evidence) /\ check' = Synced(check, resolved.changes)
    BY <1>6 DEF NeutralName
  <2>2. resolved \in DetectorState /\ detector.changes <= resolved.changes
    BY <1>1, ResolvedGrows
  <2> HIDE DEF resolved
  <2> QED
    BY <1>1, <2>1, <2>2, ResolvedGrows
<1>7. CASE LimitFrame
  BY <1>1, <1>7, ResolvedGrows DEF LimitFrame
<1>8. CASE Snapshot
  <2>1. detector' = HealthReading /\ check' = Synced(check, FirstReading.changes)
    BY <1>8 DEF Snapshot
  <2>2. /\ FirstReading \in DetectorState /\ FirstReading.changes \in Nat
        /\ detector.changes <= FirstReading.changes
    BY <1>1, ResolvedGrows DEF FirstReading
  <2>3. /\ CurrentReading \in DetectorState /\ CurrentReading.changes \in Nat
        /\ FirstReading.changes <= CurrentReading.changes
    BY <1>1, <2>2, ResolvedGrows DEF CurrentReading
  <2>4. /\ RequiredReading \in DetectorState /\ RequiredReading.changes \in Nat
        /\ CurrentReading.changes <= RequiredReading.changes
    BY <1>1, <2>3, ResolvedGrows DEF RequiredReading
  <2>5. /\ HealthReading \in DetectorState /\ HealthReading.changes \in Nat
        /\ RequiredReading.changes <= HealthReading.changes
    BY <1>1, <2>4, ResolvedGrows DEF HealthReading
  <2> QED
    BY <2>1, <2>2, <2>3, <2>4, <2>5
<1> QED
  BY <1>4, <1>5, <1>6, <1>7, <1>8 DEF Frame, Quiet

\* The marker times stay times, at most RecentKept of them per family.
LEMMA FrameKeepsTimes ==
    ASSUME ProfileTypeOK, Frame
    PROVE  /\ clock' = clock
           /\ evidence' \in [Families -> Seq(0..clock)]
           /\ \A f \in Families : Len(evidence'[f]) <= RecentKept
<1>1. clock' = clock
  BY DEF Frame, Genuine, Stray, Quiet, Marker, NeutralName, LimitFrame, Snapshot
<1>2. CASE evidence' = evidence
  BY <1>1, <1>2 DEF ProfileTypeOK
<1>3. ASSUME NEW f, evidence' = [evidence EXCEPT ![f] = Observed(@)]
      PROVE  /\ evidence' \in [Families -> Seq(0..clock)]
             /\ \A g \in Families : Len(evidence'[g]) <= RecentKept
  <2>1. /\ clock \in Nat /\ evidence \in [Families -> Seq(0..clock)]
        /\ \A g \in Families : Len(evidence[g]) <= RecentKept
    BY DEF ProfileTypeOK
  <2>2. \A g \in Families : /\ Observed(evidence[g]) \in Seq(0..clock)
                            /\ Len(Observed(evidence[g])) <= RecentKept
    BY <2>1, ObservedKeepsTimes
  <2>3. \A g \in Families : evidence'[g] = IF g = f THEN Observed(evidence[g]) ELSE evidence[g]
    BY <1>3, <2>1
  <2> QED
    BY <1>3, <2>1, <2>2, <2>3
<1> QED
  BY <1>1, <1>2, <1>3
     DEF Frame, Genuine, Stray, Quiet, Marker, NeutralName, LimitFrame, Snapshot

LEMMA ProfileStep ==
    ASSUME IInv, [Next]_bvars
    PROVE  IInv'
<1>1. /\ ProfileTypeOK /\ CrosscheckInv /\ clock \in Nat /\ sender \in Families
      /\ strays \in Nat /\ contradictions \in Nat /\ switched_at \in Nat \cup {None}
      /\ current_seen \in BOOLEAN
  BY DEF IInv, ProfileTypeOK
<1>2. CASE Time
  <2>1. /\ clock' = clock + 1
        /\ UNCHANGED <<evidence, detector, check, current_seen,
                       sender, switched_at, strays, contradictions>>
    BY <1>2 DEF Time, Tick
  <2>2. evidence' \in [Families -> Seq(0..clock')]
    BY <1>1, <2>1, TimesGrow DEF ProfileTypeOK
  <2>3. ProfileTypeOK'
    BY <1>1, <2>1, <2>2 DEF ProfileTypeOK
  <2>4. CrosscheckInv'
    BY <1>1, <2>1 DEF CrosscheckInv
  <2> QED
    BY <2>3, <2>4 DEF IInv
<1>3. CASE SwitchSender
  <2>1. sender' \in Families /\ switched_at' \in Nat
    BY <1>1, <1>3 DEF SwitchSender, Other, Families
  <2> QED
    BY <1>1, <1>3, <2>1 DEF SwitchSender, pvars, IInv, ProfileTypeOK, CrosscheckInv
<1>4. CASE Frame
  <2>1. PICK m \in Nat : /\ detector.changes <= m /\ m <= detector'.changes
                         /\ check' = Synced(check, m)
                         /\ detector' \in DetectorState
    BY <1>1, <1>4, FrameCopies
  <2>2. contradictions' = IF detector'.changes # detector.changes THEN 0 ELSE contradictions
    BY <1>4 DEF Frame, Observe
  <2>3. /\ check' \in CheckState /\ contradictions' \in Nat
        /\ check'.synced <= Listed(detector'.changes)
        /\ CrosscheckInv'
    BY <1>1, <2>1, <2>2, Copied
  <2>4. /\ current_seen' = current_seen /\ strays' \in Nat
        /\ UNCHANGED <<sender, switched_at>>
    BY <1>1, <1>4 DEF Frame, Genuine, Stray, Quiet, Marker, NeutralName, LimitFrame, Snapshot
  <2> QED
    BY <1>1, <1>4, <2>1, <2>3, <2>4, FrameKeepsTimes DEF IInv, ProfileTypeOK
<1>5. ASSUME NEW packs \in BOOLEAN, NEW product \in {-1, 0, 1}, Current(packs, product)
      PROVE  IInv'
  <2>1. /\ check' \in CheckState /\ contradictions' \in Nat /\ detector' \in DetectorState
        /\ check'.synced <= Listed(detector'.changes)
        /\ CrosscheckInv'
    BY <1>1, <1>5, ComparedSample
  <2>2. current_seen' = TRUE /\ UNCHANGED <<clock, evidence, sender, switched_at, strays>>
    BY <1>5 DEF Current, CurrentFrame
  <2> QED
    BY <1>1, <2>1, <2>2 DEF IInv, ProfileTypeOK
<1>6. CASE UNCHANGED bvars
  BY <1>6 DEF bvars, pvars, IInv, ProfileTypeOK, CrosscheckInv
<1> QED
  BY <1>2, <1>3, <1>4, <1>5, <1>6 DEF Next

\* The strengthened invariant holds of every behaviour.
THEOREM ProfileInvariance == Spec => []IInv
  BY InitialProfile, ProfileStep, PTL DEF Spec

\* The types of the detector, the cross-check and the bus, and the cache never ahead of
\* the detector's list (cache.py:405).
THEOREM ProfileTypes == Spec => []ProfileTypeOK
<1>1. IInv => ProfileTypeOK
  BY DEF IInv
<1> QED
  BY <1>1, ProfileInvariance, PTL

\* While the detector's list of changes is untrimmed, a conflict the cache acts on is one
\* of the present profile, whatever the bus says and however often the detector is asked
\* (cache.py:452).
THEOREM Crosscheck == Spec => []CrosscheckWhileListed
<1>1. IInv => CrosscheckWhileListed
  BY DEF IInv, CrosscheckInv, CrosscheckWhileListed
<1> QED
  BY <1>1, ProfileInvariance, PTL

-----------------------------------------------------------------------------
(* The profile that is the sender's stays. *)

LEMMA SeqElement ==
    ASSUME NEW S, NEW s \in Seq(S), NEW i \in DOMAIN s
    PROVE  s[i] \in S
  OBVIOUS

\* Markers that are all among the last n are at most n.
LEMMA FewSince ==
    ASSUME NEW ev \in Seq(Nat), NEW n \in Nat, NEW since,
           \A i \in DOMAIN ev : ev[i] >= since => i > Len(ev) - n
    PROVE  CountSince(ev, since) \in Nat /\ CountSince(ev, since) <= n
<1> DEFINE late == {i \in DOMAIN ev : ev[i] >= since}
           last == (Len(ev) - n + 1)..Len(ev)
<1>1. Len(ev) \in Nat /\ DOMAIN ev = 1..Len(ev)
  OBVIOUS
<1>2. late \subseteq last
  BY <1>1
<1>3. IsFiniteSet(last) /\ Cardinality(last) = n
  <2>1. Len(ev) - n + 1 \in Int /\ Len(ev) \in Int
    BY <1>1
  <2>2. IsFiniteSet(last)
        /\ Cardinality(last) = IF Len(ev) - n + 1 > Len(ev) THEN 0 ELSE Len(ev) - (Len(ev) - n + 1) + 1
    BY <2>1, FS_Interval
  <2> QED
    BY <1>1, <2>2
<1>4. IsFiniteSet(late) /\ Cardinality(late) <= Cardinality(last)
  BY <1>2, <1>3, FS_Subset
<1>5. Cardinality(late) \in Nat
  BY <1>4, FS_CardinalityType
<1>6. CountSince(ev, since) = Cardinality(late)
  BY DEF CountSince
<1> HIDE DEF late, last
<1> QED
  BY <1>3, <1>4, <1>5, <1>6

\* A marker pushes the earlier ones by one place towards the past.
LEMMA ObservedIs ==
    ASSUME clock \in Nat, NEW recent \in Seq(Nat)
    PROVE  /\ Observed(recent) \in Seq(Nat)
           /\ \E d \in {0, 1} :
                /\ Len(Observed(recent)) = Len(recent) + 1 - d
                /\ \A i \in 1..(Len(recent) - d) : Observed(recent)[i] = recent[i + d]
<1> DEFINE longer == Append(recent, clock)
<1>1. longer \in Seq(Nat) /\ Len(longer) = Len(recent) + 1 /\ longer # <<>> /\ Len(recent) \in Nat
      /\ \A i \in 1..Len(recent) : longer[i] = recent[i]
  OBVIOUS
<1>2. /\ Tail(longer) \in Seq(Nat) /\ Len(Tail(longer)) = Len(recent)
      /\ \A i \in 1..Len(recent) : Tail(longer)[i] = longer[i + 1]
  BY <1>1, HeadTailProperties
<1>3. Observed(recent) = longer \/ Observed(recent) = Tail(longer)
  BY DEF Observed
<1> HIDE DEF longer
<1>4. CASE Observed(recent) = longer
  <2>1. /\ Len(longer) = Len(recent) + 1 - 0
        /\ \A i \in 1..(Len(recent) - 0) : longer[i] = recent[i + 0]
    BY <1>1
  <2> QED
    BY <1>1, <1>4, <2>1
<1>5. CASE Observed(recent) = Tail(longer)
  <2>1. /\ Len(Tail(longer)) = Len(recent) + 1 - 1
        /\ \A i \in 1..(Len(recent) - 1) : Tail(longer)[i] = recent[i + 1]
    BY <1>1, <1>2
  <2> QED
    BY <1>2, <1>5, <2>1
<1> QED
  BY <1>3, <1>4, <1>5

LEMMA TimesAreNat ==
    ASSUME ProfileTypeOK
    PROVE  /\ clock \in Nat /\ strays \in Nat /\ sender \in Families
           /\ switched_at \in Nat \cup {None}
           /\ Other(sender) \in Families /\ Other(sender) # sender
           /\ evidence \in [Families -> Seq(Nat)]
           /\ \A f \in Families : \A i \in DOMAIN evidence[f] : evidence[f][i] <= clock
<1>1. /\ clock \in Nat /\ evidence \in [Families -> Seq(0..clock)] /\ sender \in Families
      /\ strays \in Nat /\ switched_at \in Nat \cup {None}
  BY DEF ProfileTypeOK
<1>2. Seq(0..clock) \subseteq Seq(Nat)
  <2>1. 0..clock \subseteq Nat
    OBVIOUS
  <2> QED
    BY <2>1, SeqMonotonic
<1>3. evidence \in [Families -> Seq(Nat)]
  BY <1>1, <1>2
<1>4. ASSUME NEW f \in Families, NEW i \in DOMAIN evidence[f] PROVE evidence[f][i] <= clock
  <2>1. evidence[f] \in Seq(0..clock)
    BY <1>1
  <2>2. evidence[f][i] \in 0..clock
    BY <2>1, SeqElement
  <2> QED
    BY <2>2
<1>5. Other(sender) \in Families /\ Other(sender) # sender
  BY <1>1 DEF Other, Families, Deye, Victron
<1> QED
  BY <1>1, <1>3, <1>4, <1>5

LEMMA StraysStep ==
    ASSUME ProfileTypeOK, StraysInv, [Next]_bvars
    PROVE  StraysInv'
<1> DEFINE ev == evidence[Other(sender)]
<1>1. /\ clock \in Nat /\ strays \in Nat /\ ev \in Seq(Nat) /\ Len(ev) \in Nat
      /\ DOMAIN ev = 1..Len(ev)
      /\ \A i \in DOMAIN ev : ev[i] > switched_at => i > Len(ev) - strays
  BY TimesAreNat DEF StraysInv
<1>2. ASSUME UNCHANGED <<sender, switched_at, strays>>,
             evidence'[Other(sender)] = evidence[Other(sender)]
      PROVE  StraysInv'
  BY <1>2 DEF StraysInv, Other
<1>3. CASE SwitchSender
  <2>1. /\ sender' = Other(sender) /\ switched_at' = clock /\ evidence' = evidence
        /\ strays' = strays
    BY <1>3 DEF SwitchSender, pvars
  <2>2. Other(sender') = sender
    BY <2>1, TimesAreNat DEF Other, Families, Deye, Victron
  <2>3. \A i \in DOMAIN evidence[sender] : ~(evidence[sender][i] > clock)
    <3> SUFFICES ASSUME NEW i \in DOMAIN evidence[sender] PROVE ~(evidence[sender][i] > clock)
      OBVIOUS
    <3>1. evidence[sender] \in Seq(Nat)
      BY TimesAreNat
    <3>2. evidence[sender][i] \in Nat /\ evidence[sender][i] <= clock
      BY <3>1, TimesAreNat
    <3> QED
      BY <1>1, <3>2
  <2> QED
    BY <2>1, <2>2, <2>3 DEF StraysInv
<1>4. CASE Frame
  <2>1. UNCHANGED <<sender, switched_at>>
    BY <1>4 DEF Frame
  <2>2. CASE Genuine
    <3>1. evidence'[Other(sender)] = evidence[Other(sender)] /\ strays' = strays
      BY <2>2, TimesAreNat DEF Genuine, Marker
    <3> QED
      BY <1>2, <2>1, <3>1
  <2>3. CASE Quiet
    BY <1>2, <2>1, <2>3 DEF Quiet, NeutralName, LimitFrame, Snapshot
  <2>4. CASE Stray
    <3> DEFINE new == evidence'[Other(sender)]
    <3>1. new = Observed(ev) /\ strays' = strays + 1
      BY <2>4, TimesAreNat DEF Stray, Marker
    <3>2. PICK d \in {0, 1} :
             /\ Len(new) = Len(ev) + 1 - d
             /\ \A i \in 1..(Len(ev) - d) : new[i] = ev[i + d]
      BY <1>1, <3>1, ObservedIs
    <3>3. new \in Seq(Nat) /\ DOMAIN new = 1..Len(new)
      BY <1>1, <3>1, ObservedIs
    <3> HIDE DEF new, ev
    <3>4. ASSUME NEW i \in DOMAIN new, new[i] > switched_at
          PROVE  i > Len(new) - strays'
      <4>1. i \in 1..(Len(ev) + 1 - d)
        BY <3>2, <3>3
      <4>2. CASE i = Len(ev) + 1 - d
        BY <1>1, <3>1, <3>2, <4>2
      <4>3. CASE i \in 1..(Len(ev) - d)
        <5>1. new[i] = ev[i + d] /\ i + d \in DOMAIN ev
          BY <1>1, <3>2, <4>3
        <5>2. i + d > Len(ev) - strays
          BY <1>1, <3>4, <5>1
        <5> QED
          BY <1>1, <3>1, <3>2, <4>3, <5>2
      <4> QED
        BY <1>1, <3>2, <4>1, <4>2, <4>3
    <3>5. Other(sender)' = Other(sender)
      BY <2>1 DEF Other
    <3> QED
      BY <2>1, <3>4, <3>5 DEF StraysInv, new
  <2> QED
    BY <1>4, <2>2, <2>3, <2>4 DEF Frame
<1>5. CASE Time
  BY <1>2, <1>5 DEF Time, Tick
<1>6. ASSUME NEW packs \in BOOLEAN, NEW product \in {-1, 0, 1}, Current(packs, product)
      PROVE  StraysInv'
  BY <1>2, <1>6 DEF Current, CurrentFrame
<1>7. CASE UNCHANGED bvars
  BY <1>2, <1>7 DEF bvars, pvars
<1> QED
  BY <1>3, <1>4, <1>5, <1>6, <1>7 DEF Next

\* With too little evidence for the other family the detector answers what it was.
LEMMA AnswerStays ==
    ASSUME NEW ev, NEW p \in Families, Fresh(ev, p), ~SwitchDue(ev, p)
    PROVE  Candidate(ev, p) = p
<1>1. p # Unknown
  BY DEF Families, Deye, Victron, Unknown
<1>2. CASE \A f \in Families : Fresh(ev, f)
  BY <1>1, <1>2 DEF Candidate, OverlapCandidate
<1>3. CASE ~ \A f \in Families : Fresh(ev, f)
  <2>1. \A f \in Families : Fresh(ev, f) => f = p
    BY <1>3 DEF Families
  <2>2. (CHOOSE f \in Families : Fresh(ev, f)) = p
    BY <2>1
  <2> QED
    BY <1>3, <2>2 DEF Candidate
<1> QED
  BY <1>2, <1>3

LEMMA AskedStays ==
    ASSUME NEW ev, NEW d, d.profile \in Families, Fresh(ev, d.profile), ~SwitchDue(ev, d.profile)
    PROVE  Resolved(d, ev) = d
  BY AnswerStays DEF Resolved

LEMMA FewStrays ==
    ASSUME ProfileTypeOK, ProfileTypeOK', StraysInv', clock' = clock,
           UNCHANGED <<sender, switched_at>>,
           switched_at = None \/ clock - switched_at > EvidenceTimeout,
           strays' < SwitchCount
    PROVE  ~SwitchDue(evidence', sender)
<1> DEFINE ev == evidence'[Other(sender)]
           since == clock - EvidenceTimeout
<1>1. /\ clock \in Nat /\ switched_at \in Nat \cup {None} /\ Other(sender) \in Families
      /\ EvidenceTimeout \in Nat /\ SwitchCount \in Nat
  BY TimesAreNat, ProfileTimesAssumption, ProfileCountsAssumption
<1>2. ev \in Seq(0..clock) /\ strays' \in Nat
  BY <1>1 DEF ProfileTypeOK
<1>3. \A i \in DOMAIN ev : ev[i] > switched_at => i > Len(ev) - strays'
  BY DEF StraysInv, Other
<1> HIDE DEF ev
<1>4. ev \in Seq(Nat) /\ \A i \in DOMAIN ev : ev[i] \in Nat
  <2>1. 0..clock \subseteq Nat
    OBVIOUS
  <2>2. ev \in Seq(Nat)
    BY <1>2, <2>1, SeqMonotonic
  <2> QED
    BY <2>2, SeqElement
<1>5. \A i \in DOMAIN ev : ev[i] >= since => i > Len(ev) - strays'
  <2> SUFFICES ASSUME NEW i \in DOMAIN ev, ev[i] >= since PROVE ev[i] > switched_at
    BY <1>3
  <2> QED
    BY <1>1, <1>4 DEF None
<1>6. CountSince(ev, since) \in Nat /\ CountSince(ev, since) <= strays'
  BY <1>2, <1>4, <1>5, FewSince
<1>7. ~(CountSince(ev, since) >= SwitchCount)
  BY <1>1, <1>2, <1>6
<1> QED
  BY <1>7 DEF SwitchDue, ev

\* However often the detector is asked in one step, it answers what it was.
LEMMA RightStaysStep ==
    ASSUME ProfileTypeOK, ProfileTypeOK', StraysInv', [Next]_bvars,
           switched_at = None \/ clock - switched_at > EvidenceTimeout,
           strays' < SwitchCount, detector.profile = sender, sender' = sender,
           Fresh(evidence', sender)
    PROVE  detector'.profile = sender
<1>0. sender \in Families
  BY TimesAreNat
<1>1. ASSUME clock' = clock, switched_at' = switched_at
      PROVE  Resolved(detector, evidence') = detector
  <2>1. ~SwitchDue(evidence', sender)
    BY <1>1, FewStrays
  <2> QED
    BY <1>0, <2>1, AskedStays
<1>2. CASE detector' = detector
  BY <1>2
<1>3. CASE Frame
  <2>1. clock' = clock /\ switched_at' = switched_at
    BY <1>3 DEF Frame, Genuine, Stray, Quiet, Marker, NeutralName, LimitFrame, Snapshot
  <2>2. Resolved(detector, evidence') = detector
    BY <1>1, <2>1
  <2>3. detector' = detector
    <3>1. ASSUME NEW f, Marker(f) PROVE detector' = detector
      BY <2>2, <3>1 DEF Marker
    <3>2. CASE NeutralName
      BY <2>2, <3>2 DEF NeutralName
    <3>3. CASE LimitFrame
      BY <2>2, <3>3 DEF LimitFrame
    <3>4. CASE Snapshot
      <4>1. detector' = HealthReading /\ evidence' = evidence
        BY <3>4 DEF Snapshot
      <4>2. FirstReading = detector
        BY <2>2, <4>1 DEF FirstReading
      <4>3. CurrentReading = detector
        BY <2>2, <4>1, <4>2 DEF CurrentReading
      <4>4. RequiredReading = detector
        BY <2>2, <4>1, <4>3 DEF RequiredReading
      <4> QED
        BY <2>2, <4>1, <4>4 DEF HealthReading
    <3> QED
      BY <1>3, <3>1, <3>2, <3>3, <3>4 DEF Frame, Genuine, Stray, Quiet
  <2> QED
    BY <2>3
<1>4. ASSUME NEW packs \in BOOLEAN, NEW product \in {-1, 0, 1}, Current(packs, product)
      PROVE  detector'.profile = sender
  <2> DEFINE asked == IF Comparable(packs) THEN Resolved(detector, evidence) ELSE detector
             synced == Synced(check, detector.changes)
  <2>1. /\ evidence' = evidence /\ clock' = clock /\ switched_at' = switched_at
        /\ detector' = IF check'.conflict /\ ~synced.conflict
                       THEN Resolved(asked, evidence) ELSE asked
    BY <1>4 DEF Current, CurrentFrame
  <2>2. asked = detector
    BY <1>1, <2>1
  <2> HIDE DEF synced
  <2> QED
    BY <1>1, <2>1, <2>2
<1>5. CASE Time \/ SwitchSender \/ UNCHANGED bvars
  BY <1>2, <1>5 DEF Time, Tick, SwitchSender, bvars, pvars
<1> QED
  BY <1>3, <1>4, <1>5 DEF Next

\* A profile that is the sender's is not moved by strays too few to count as evidence,
\* whenever they come, nor by markers from before the sender's change, as long as the
\* sender transmits (profile.py:78): for all times, counts and numbers of strays.
THEOREM RightProfileIsKept == Spec => RightProfileStays
<1>1. Init => StraysInv
  <2> SUFFICES ASSUME Init PROVE StraysInv
    OBVIOUS
  <2>1. sender \in Families /\ evidence = [f \in Families |-> <<>>]
    BY DEF Init, PInit
  <2>2. Other(sender) \in Families
    BY <2>1 DEF Other, Families
  <2>3. DOMAIN evidence[Other(sender)] = {}
    BY <2>1, <2>2
  <2> QED
    BY <2>3 DEF StraysInv
<1>2. IInv => ProfileTypeOK
  BY DEF IInv
<1>3. ProfileTypeOK /\ ProfileTypeOK' /\ StraysInv' /\ [Next]_bvars =>
        [ /\ switched_at = None \/ clock - switched_at > EvidenceTimeout
          /\ strays' < SwitchCount
          /\ detector.profile = sender /\ sender' = sender
          /\ Fresh(evidence', sender)
          => detector'.profile = sender ]_bvars
  BY RightStaysStep
<1> QED
  BY <1>1, <1>2, <1>3, StraysStep, ProfileInvariance, PTL DEF Spec, RightProfileStays

-----------------------------------------------------------------------------
(* When a snapshot sees one profile. *)

\* The detector does not answer "unknown" while a marker of either family is fresh.
LEMMA AnswerKnown ==
    ASSUME NEW ev, NEW p \in Profiles, Candidate(ev, p) = Unknown
    PROVE  \A f \in Families : ~Fresh(ev, f)
<1> SUFFICES ASSUME NEW f \in Families, Fresh(ev, f) PROVE FALSE
  OBVIOUS
<1>0. Deye # Unknown /\ Victron # Unknown
  BY DEF Deye, Victron, Unknown
<1>1. CASE \A g \in Families : Fresh(ev, g)
  <2>1. OverlapCandidate(ev, p) # Unknown
    BY <1>0 DEF OverlapCandidate, Other, Profiles, Families
  <2> QED
    BY <1>1, <2>1 DEF Candidate
<1>2. CASE ~ \A g \in Families : Fresh(ev, g)
  <2>1. (CHOOSE g \in Families : Fresh(ev, g)) \in Families
    OBVIOUS
  <2> QED
    BY <1>0, <1>2, <2>1 DEF Candidate, Families
<1> QED
  BY <1>1, <1>2

LEMMA AskedKnown ==
    ASSUME NEW ev, NEW d \in DetectorState, Resolved(d, ev).profile = Unknown
    PROVE  \A f \in Families : ~Fresh(ev, f)
<1>1. d.profile \in Profiles
  BY DEF DetectorState, Profiles
<1>2. Candidate(ev, d.profile) = Unknown
  BY DEF Resolved
<1> QED
  BY <1>1, <1>2, AnswerKnown

LEMMA UnknownStep ==
    ASSUME ProfileTypeOK, UnknownInv, [Next]_bvars
    PROVE  UnknownInv'
<1>1. detector \in DetectorState /\ clock \in Nat
  BY DEF ProfileTypeOK
<1>2. ASSUME UNCHANGED <<clock, evidence, detector>> PROVE UnknownInv'
  BY <1>2 DEF UnknownInv, Fresh, Heard, Age
<1>3. ASSUME NEW d \in DetectorState, detector' = Resolved(d, evidence'), clock' = clock
      PROVE  UnknownInv'
  <2> SUFFICES ASSUME Resolved(d, evidence').profile = Unknown
               PROVE  \A f \in Families : ~Fresh(evidence, f)'
    BY <1>3 DEF UnknownInv
  <2>1. \A f \in Families : ~Fresh(evidence', f)
    BY AskedKnown
  <2> QED
    BY <1>3, <2>1 DEF Fresh, Heard, Age
<1>4. CASE Time
  <2>1. clock' = clock + 1 /\ UNCHANGED <<evidence, detector>>
    BY <1>4 DEF Time, Tick
  <2>2. ASSUME NEW f \in Families, ~Fresh(evidence, f) PROVE ~Fresh(evidence, f)'
    <3>1. CASE ~Heard(evidence, f)
      BY <2>1, <3>1 DEF Fresh, Heard
    <3>2. CASE Heard(evidence, f)
      <4> DEFINE last == evidence[f][Len(evidence[f])]
      <4>1. last \in Nat
        <5>1. evidence[f] \in Seq(Nat) /\ evidence[f] # <<>>
          BY <3>2, TimesAreNat DEF Heard
        <5>2. Len(evidence[f]) \in DOMAIN evidence[f]
          BY <5>1
        <5> QED
          BY <5>1, <5>2, SeqElement
      <4>2. ~(clock - last <= EvidenceTimeout)
        BY <2>2, <3>2 DEF Fresh, Age
      <4> HIDE DEF last
      <4>3. ~(clock' - last <= EvidenceTimeout)
        BY <1>1, <2>1, <4>1, <4>2, ProfileTimesAssumption
      <4> QED
        BY <2>1, <4>3 DEF Fresh, Age, last
    <3> QED
      BY <3>1, <3>2
  <2> QED
    BY <2>1, <2>2 DEF UnknownInv
<1>5. CASE SwitchSender
  BY <1>2, <1>5 DEF SwitchSender, pvars
<1>6. CASE Frame
  <2>1. ASSUME NEW f, Marker(f) PROVE UnknownInv'
    BY <1>1, <1>3, <2>1 DEF Marker
  <2>2. CASE NeutralName
    <3>1. Resolved(detector, evidence) \in DetectorState
      BY <1>1, ResolvedOnce
    <3> QED
      BY <1>3, <2>2, <3>1 DEF NeutralName
  <2>3. CASE LimitFrame
    BY <1>1, <1>3, <2>3 DEF LimitFrame
  <2>4. CASE Snapshot
    <3>1. FirstReading \in DetectorState
      BY <1>1, ResolvedOnce DEF FirstReading
    <3>2. CurrentReading \in DetectorState
      BY <1>1, <3>1, ResolvedOnce DEF CurrentReading
    <3>3. RequiredReading \in DetectorState
      BY <1>1, <3>2, ResolvedOnce DEF RequiredReading
    <3> QED
      BY <1>3, <2>4, <3>3 DEF Snapshot, HealthReading
  <2> QED
    BY <1>6, <2>1, <2>2, <2>3, <2>4 DEF Frame, Genuine, Stray, Quiet
<1>7. ASSUME NEW packs \in BOOLEAN, NEW product \in {-1, 0, 1}, Current(packs, product)
      PROVE  UnknownInv'
  <2> DEFINE asked == IF Comparable(packs) THEN Resolved(detector, evidence) ELSE detector
  <2>1. /\ evidence' = evidence /\ clock' = clock
        /\ detector' = asked \/ detector' = Resolved(asked, evidence)
    BY <1>7 DEF Current, CurrentFrame
  <2>2. asked \in DetectorState
    BY <1>1, ResolvedOnce
  <2>3. CASE detector' = detector
    BY <1>2, <2>1, <2>3
  <2>4. CASE detector' = Resolved(detector, evidence)
    BY <1>1, <1>3, <2>1, <2>4
  <2>5. CASE detector' = Resolved(asked, evidence)
    <3> HIDE DEF asked
    <3> QED
      BY <1>3, <2>1, <2>2, <2>5
  <2> QED
    BY <2>1, <2>3, <2>4, <2>5
<1>8. CASE UNCHANGED bvars
  BY <1>2, <1>8 DEF bvars, pvars
<1> QED
  BY <1>4, <1>5, <1>6, <1>7, <1>8 DEF Next

\* A second question gets the answer of the first.
LEMMA AskedAgain ==
    ASSUME NEW ev, NEW p \in Profiles, p = Unknown => \A f \in Families : ~Fresh(ev, f),
           ~ \A f \in Families : Fresh(ev, f) /\ SwitchDue(ev, f)
    PROVE  Candidate(ev, Candidate(ev, p)) = Candidate(ev, p)
<1>1. CASE \A f \in Families : Fresh(ev, f)
  <2>1. p \in Families /\ Other(p) \in Families /\ Families = {p, Other(p)} /\ Other(Other(p)) = p
        /\ Unknown \notin Families
    BY <1>1 DEF Profiles, Families, Other, Deye, Victron, Unknown
  <2>2. CASE ~SwitchDue(ev, p)
    BY <1>1, <2>1, <2>2 DEF Candidate, OverlapCandidate
  <2>3. CASE SwitchDue(ev, p)
    <3>1. ~SwitchDue(ev, Other(p))
      BY <1>1, <2>1, <2>3
    <3> QED
      BY <1>1, <2>1, <2>3, <3>1 DEF Candidate, OverlapCandidate
  <2> QED
    BY <2>2, <2>3
<1>2. CASE ~ \A f \in Families : Fresh(ev, f)
  <2>1. CASE \E f \in Families : Fresh(ev, f)
    BY <1>2, <2>1 DEF Candidate
  <2>2. CASE ~ \E f \in Families : Fresh(ev, f)
    BY <1>2, <2>2 DEF Candidate, ExpiredCandidate
  <2> QED
    BY <2>1, <2>2
<1> QED
  BY <1>1, <1>2

\* A snapshot sees one profile unless both families are overtaken at once: the overlap in
\* which each question turns the answer of the one before (profile.py:201), and no other
\* state, makes the four readings of a snapshot differ.
THEOREM SnapshotsAgree == Spec => [](BothOvertaken \/ SnapshotSeesOneProfile)
<1>1. Init => UnknownInv
  BY DEF Init, PInit, UnknownInv, Fresh, Heard
<1>2. IInv => ProfileTypeOK
  BY DEF IInv
<1>3. ASSUME ProfileTypeOK, UnknownInv, ~BothOvertaken PROVE SnapshotSeesOneProfile
  <2> DEFINE c == Candidate(evidence, detector.profile)
  <2>1. detector.profile \in Profiles
    BY <1>3 DEF ProfileTypeOK, DetectorState, Profiles
  <2>2. Candidate(evidence, c) = c
    BY <1>3, <2>1, AskedAgain DEF UnknownInv, BothOvertaken
  <2>3. \A d : Resolved(d, evidence).profile = Candidate(evidence, d.profile)
    BY DEF Resolved
  <2>4. FirstReading.profile = c
    BY <2>3 DEF FirstReading
  <2> HIDE DEF c
  <2>5. CurrentReading.profile = c
    BY <2>2, <2>3, <2>4 DEF CurrentReading
  <2>6. RequiredReading.profile = c
    BY <2>2, <2>3, <2>5 DEF RequiredReading
  <2>7. HealthReading.profile = c
    BY <2>2, <2>3, <2>6 DEF HealthReading
  <2> QED
    BY <2>5, <2>6, <2>7 DEF SnapshotSeesOneProfile
<1> QED
  BY <1>1, <1>2, <1>3, UnknownStep, ProfileInvariance, PTL DEF Spec
====
