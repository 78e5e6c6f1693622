----------------------------- MODULE InputsProofs -----------------------------
(***************************************************************************)
(* Proofs about LocatorRuns, IdLayout and Replay, for any names, times,    *)
(* packs, frames, captures and windows, and about MCInputs, whose          *)
(* behaviours are those of the three.                                      *)
(***************************************************************************)
EXTENDS MCInputs, WellFoundedInduction, TLAPS

-----------------------------------------------------------------------------
(* The locator. *)

LEMMA Times ==
    /\ Interval \in Nat /\ Interval > 0 /\ Cycle \in Nat /\ Cycle > 0 /\ MaxTime \in Nat
    /\ Longest \in Nat /\ Longest >= Interval /\ Longest >= Cycle
    /\ Names \subseteq Nat
  BY LocatorTimesAssumption, NamesAssumption DEF Longest

\* Names have a first one.
LEMMA First ==
    ASSUME NEW S, S \subseteq Nat, S # {}
    PROVE  \E n \in S : \A m \in S : n <= m
<1>1. PICK n \in S : \A m \in S : ~(<<m, n>> \in OpToRel(<, Nat))
  BY NatLessThanWellFounded, WFMin
<1>2. \A m \in S : ~(m < n)
  BY <1>1 DEF OpToRel
<1> QED
  BY <1>2

LEMMA DiscoveredIsOwned ==
    ASSUME LocatorTypeOK, NEW listed \in BOOLEAN
    PROVE  /\ Discovered(listed) \in owned \cup {None}
           /\ listed /\ owned # {} => Discovered(listed) \in owned
<1>1. owned \subseteq Nat
  BY Times DEF LocatorTypeOK
<1>2. CASE listed /\ owned # {}
  <2>1. \E n \in owned : \A m \in owned : n <= m
    BY <1>1, <1>2, First
  <2> QED
    BY <1>2, <2>1 DEF Discovered
<1>3. CASE ~(listed /\ owned # {})
  BY <1>3 DEF Discovered
<1> QED
  BY <1>2, <1>3

LEMMA InitialLocator == LocatorRunsInit => LocatorInv
<1> SUFFICES ASSUME LocatorRunsInit PROVE LocatorInv
  OBVIOUS
<1>1. LocatorTypeOK
  <2>1. 0 \in LTime
    BY Times DEF LTime
  <2>2. steady \in LTime \cup {None}
    BY <2>1 DEF LocatorRunsInit
  <2> QED
    BY <2>1, <2>2 DEF LocatorRunsInit, LocatorInit, LocatorTypeOK
<1>2. AskingInv /\ ListingsInv
  BY Times DEF LocatorRunsInit, LocatorInit, AskingInv, ListingsInv, None
<1>3. SteadyInv
  BY Times DEF LocatorRunsInit, LocatorInit, SteadyInv, None
<1> QED
  BY <1>1, <1>2, <1>3 DEF LocatorInv

-----------------------------------------------------------------------------
(* The steps. *)

LEMMA PassStep ==
    ASSUME LocatorInv, Pass, UNCHANGED <<listings, served>>,
           steady' = IF owned' = {} \/ answering' # owned' THEN None
                     ELSE IF bus' = bus THEN steady ELSE clock
    PROVE  LocatorInv'
<1>1. /\ clock' = clock + 1 /\ clock < MaxTime /\ clock - began < Cycle
      /\ UNCHANGED <<owned, answering, explicit, _resolved, _last_attempt, asking, began, voltage>>
  BY DEF Pass, bus, locator
<1>2. steady' \in {steady, None} /\ (steady' # None => steady' = steady /\ steady # None)
  BY <1>1 DEF bus
<1>3. LocatorTypeOK'
  BY <1>1, <1>2, Times DEF LocatorInv, LocatorTypeOK, LTime
<1>4. AskingInv' /\ ListingsInv'
  BY <1>1, Times DEF LocatorInv, LocatorTypeOK, LTime, AskingInv, ListingsInv, None
<1>5. SteadyInv'
  BY <1>1, <1>2, Times DEF LocatorInv, LocatorTypeOK, LTime, SteadyInv
<1> QED
  BY <1>3, <1>4, <1>5 DEF LocatorInv

LEMMA BusStep ==
    ASSUME LocatorInv, BusChanges, UNCHANGED <<listings, served>>,
           steady' = IF owned' = {} \/ answering' # owned' THEN None
                     ELSE IF bus' = bus THEN steady ELSE clock
    PROVE  LocatorInv'
<1>1. /\ owned' \subseteq Names /\ answering' \subseteq owned' /\ bus' # bus
      /\ UNCHANGED <<clock, explicit, _resolved, _last_attempt, asking, began, voltage>>
  BY DEF BusChanges, locator
<1>2. IF owned' = {} \/ answering' # owned' THEN steady' = None ELSE steady' = clock
  BY <1>1
<1>3. LocatorTypeOK'
  BY <1>1, <1>2, Times DEF LocatorInv, LocatorTypeOK, LTime
<1>4. AskingInv' /\ ListingsInv'
  BY <1>1 DEF LocatorInv, AskingInv, ListingsInv
<1>5. SteadyInv'
  BY <1>1, <1>2, Times DEF LocatorInv, LocatorTypeOK, LTime, AskingInv, SteadyInv
<1> QED
  BY <1>3, <1>4, <1>5 DEF LocatorInv

LEMMA ResolveStep ==
    ASSUME LocatorInv, NEW listed \in BOOLEAN, Resolve(listed),
           listings' = IF Listed THEN listings + 1 ELSE listings,
           steady' = IF steady # None /\ Listed /\ ~listed THEN clock ELSE steady,
           served' = IF asking' = None THEN None ELSE served
    PROVE  LocatorInv'
<1>1. /\ asking = None /\ began' = clock
      /\ asking' = IF explicit # None THEN explicit ELSE _resolved'
      /\ voltage' = IF asking' = None THEN FALSE ELSE voltage
      /\ UNCHANGED <<clock, owned, answering, explicit>>
  BY DEF Resolve, bus
<1>2. IF Listed THEN /\ explicit = None /\ _resolved = None
                     /\ _resolved' = Discovered(listed) /\ _last_attempt' = clock
                     /\ _last_attempt = None \/ clock - _last_attempt >= Interval
      ELSE /\ _resolved' = _resolved /\ _last_attempt' = _last_attempt
           /\ explicit # None \/ _resolved # None \/ clock - _last_attempt < Interval
  <2>1. CASE Listed
    BY <2>1 DEF Resolve, LookUp, Listed, Known, _may_retry
  <2>2. CASE ~Listed
    BY <2>2, Times
       DEF LocatorInv, LocatorTypeOK, LTime, Resolve, Refused, locator, Listed, Known,
           _may_retry, None
  <2> QED
    BY <2>1, <2>2
<1>3. /\ Discovered(listed) \in owned \cup {None}
      /\ listed /\ owned # {} => Discovered(listed) \in owned
  BY DiscoveredIsOwned DEF LocatorInv
<1>4. LocatorTypeOK
  BY DEF LocatorInv
<1>5. LocatorTypeOK'
  <2>1. clock' \in LTime /\ began' \in LTime /\ steady' \in LTime \cup {None}
        /\ _last_attempt' \in LTime \cup {None} /\ listings' \in Nat
    BY <1>1, <1>2, <1>4 DEF LocatorTypeOK, LTime
  <2>2. /\ _resolved' \in Names \cup {None} /\ asking' \in Names \cup {None}
        /\ served' \in Names \cup {None} /\ voltage' \in BOOLEAN
        /\ explicit # None => _resolved' = explicit
    BY <1>1, <1>2, <1>3, <1>4 DEF LocatorTypeOK
  <2> QED
    BY <1>1, <1>4, <2>1, <2>2 DEF LocatorTypeOK
<1>6. asking' = _resolved'
  BY <1>1, <1>5 DEF LocatorTypeOK
<1>7. AskingInv'
  BY <1>1, <1>2, <1>4, <1>5, <1>6, Times DEF LocatorInv, LocatorTypeOK, LTime, AskingInv, None
<1>8. ListingsInv'
  <2>1. CASE Listed
    <3>1. listings' = listings + 1 /\ _last_attempt' = clock /\ clock # None /\ listings \in Nat
      BY <2>1, <1>2, <1>4 DEF LocatorTypeOK, LTime, None
    <3>2. listings * Interval <= clock
      <4>1. CASE _last_attempt = None
        BY <4>1, <1>4, Times DEF LocatorInv, ListingsInv, LocatorTypeOK, LTime
      <4>2. CASE _last_attempt # None
        <5>1. (listings - 1) * Interval <= _last_attempt
          BY <4>2 DEF LocatorInv, ListingsInv
        <5>2. (listings - 1) * Interval + Interval = listings * Interval
          BY <3>1, Times
        <5>3. _last_attempt + Interval <= clock /\ _last_attempt \in Nat /\ clock \in Nat
          BY <4>2, <2>1, <1>2, <1>4, Times DEF LocatorTypeOK, LTime
        <5>4. (listings - 1) * Interval \in Int
          BY <3>1, Times
        <5> QED
          BY <5>1, <5>2, <5>3, <5>4, Times
      <4> QED
        BY <4>1, <4>2
    <3> QED
      BY <3>1, <3>2 DEF ListingsInv
  <2>2. CASE ~Listed
    BY <2>2, <1>2 DEF LocatorInv, ListingsInv
  <2> QED
    BY <2>1, <2>2
<1>9. SteadyInv'
  <2> SUFFICES ASSUME steady' # None PROVE SteadyInv'
    BY DEF SteadyInv
  <2>1. /\ steady # None /\ steady \in Nat /\ steady <= clock /\ steady' \in Nat
        /\ clock \in Nat /\ began \in Nat /\ owned # {} /\ answering = owned
        /\ steady <= steady' /\ steady' <= clock /\ clock - began <= Cycle
        /\ _last_attempt <= clock /\ _last_attempt \in Nat \cup {None}
    BY <1>4, Times DEF LocatorInv, LocatorTypeOK, LTime, SteadyInv, AskingInv
  <2>2. CASE Listed
    <3>1. CASE listed
      <4>1. _resolved' \in owned
        BY <2>1, <2>2, <3>1, <1>2, <1>3
      <4>2. explicit = None /\ _resolved = None /\ began <= steady + Longest
        BY <2>1, <2>2, <1>2 DEF LocatorInv, SteadyInv
      <4>3. clock <= steady' + Longest + Cycle
        BY <4>2, <2>1, Times
      <4>4. _resolved' # None
        BY <4>1, <1>4, Times DEF LocatorTypeOK, None
      <4> QED
        BY <4>1, <4>3, <4>4, <2>1, <1>1 DEF SteadyInv
    <3>2. CASE ~listed
      <4>1. steady' = clock
        BY <2>1, <2>2, <3>2
      <4> QED
        BY <4>1, <2>1, <2>2, <1>1, <1>2, Times DEF SteadyInv
    <3> QED
      BY <3>1, <3>2
  <2>3. CASE ~Listed
    <3>1. steady' = steady /\ _resolved' = _resolved /\ _last_attempt' = _last_attempt
      BY <2>3, <1>2
    <3>2. ASSUME explicit = None, _resolved = None
          PROVE  _last_attempt <= steady /\ clock <= steady + Longest
      <4>1. _last_attempt <= steady
        BY <3>2, <2>1 DEF LocatorInv, SteadyInv
      <4>2. clock - _last_attempt < Interval
        BY <3>2, <2>3, <1>2
      <4> QED
        BY <4>1, <4>2, <2>1, Times DEF None
    <3>3. ASSUME explicit = None, _resolved # None, _resolved \notin owned
          PROVE  _last_attempt <= steady /\ clock <= steady + Cycle
      <4>1. _last_attempt <= steady /\ began <= steady
        BY <3>3, <2>1, <1>1 DEF LocatorInv, SteadyInv
      <4> QED
        BY <4>1, <2>1, Times
    <3>4. ASSUME explicit = None, _resolved \in owned
          PROVE  voltage'
      <4>1. _resolved # None
        BY <3>4, <1>4, Times DEF LocatorTypeOK, None
      <4> QED
        BY <3>4, <4>1, <3>1, <1>1 DEF LocatorInv, AskingInv
    <3> QED
      BY <3>1, <3>2, <3>3, <3>4, <2>1, <1>1, <1>6 DEF SteadyInv
  <2> QED
    BY <2>2, <2>3
<1> QED
  BY <1>5, <1>7, <1>8, <1>9 DEF LocatorInv

LEMMA AnswerStep ==
    ASSUME LocatorInv, NEW number \in BOOLEAN, Answer(number),
           steady' = IF steady # None /\ asking \in answering /\ ~number THEN clock ELSE steady,
           served' = IF number THEN asking ELSE None,
           UNCHANGED listings
    PROVE  LocatorInv'
<1>1. /\ asking # None /\ asking' = None /\ voltage' = number
      /\ number => asking \in answering
      /\ _resolved' = IF number \/ explicit # None THEN _resolved ELSE None
      /\ UNCHANGED <<clock, owned, answering, explicit, _last_attempt, began>>
  BY DEF Answer, Forgotten, bus
<1>2. LocatorTypeOK /\ asking = _resolved
  BY <1>1 DEF LocatorInv, AskingInv
<1>3. LocatorTypeOK'
  BY <1>1, <1>2 DEF LocatorTypeOK
<1>4. AskingInv' /\ ListingsInv'
  BY <1>1, <1>2 DEF LocatorInv, LocatorTypeOK, AskingInv, ListingsInv
<1>5. SteadyInv'
  <2> SUFFICES ASSUME steady' # None PROVE SteadyInv'
    BY DEF SteadyInv
  <2>1. /\ steady # None /\ steady \in Nat /\ steady <= clock /\ steady' \in Nat
        /\ clock \in Nat /\ began \in Nat /\ owned # {} /\ answering = owned
        /\ steady <= steady' /\ steady' <= clock /\ began <= clock
        /\ _last_attempt <= clock /\ _last_attempt \in Nat \cup {None}
    BY <1>2 DEF LocatorInv, LocatorTypeOK, LTime, SteadyInv, AskingInv
  <2>2. CASE number
    BY <2>1, <2>2, <1>1, <1>2 DEF SteadyInv
  <2>3. CASE ~number /\ asking \in owned
    BY <2>1, <2>3, <1>1, <1>2, Times DEF SteadyInv
  <2>4. CASE ~number /\ asking \notin owned
    <3>1. explicit = None => _last_attempt <= steady /\ began <= steady + Cycle
      BY <2>1, <2>4, <1>1, <1>2 DEF LocatorInv, SteadyInv
    <3>2. None \notin owned
      BY <1>2, Times DEF LocatorTypeOK, None
    <3> QED
      BY <3>1, <3>2, <2>1, <2>4, <1>1, Times DEF SteadyInv
  <2> QED
    BY <2>2, <2>3, <2>4
<1> QED
  BY <1>3, <1>4, <1>5 DEF LocatorInv

LEMMA LocatorStuttering ==
    ASSUME LocatorInv, UNCHANGED lhvars
    PROVE  LocatorInv'
<1>1. UNCHANGED <<clock, owned, answering, explicit, _resolved, _last_attempt, asking, began,
                  voltage, listings, steady, served>>
  BY DEF lhvars, lvars, bus, locator
<1> QED
  BY <1>1 DEF LocatorInv, LocatorTypeOK, AskingInv, ListingsInv, SteadyInv

LEMMA LocatorSteps ==
    ASSUME LocatorInv, [LocatorRunsNext]_lhvars
    PROVE  LocatorInv'
  BY PassStep, BusStep, ResolveStep, AnswerStep, LocatorStuttering DEF LocatorRunsNext

\* What the locator knows, when it last looked, and since when, at each point of its loop.
THEOREM LocatorInvariance == LocatorRunsSpec => []LocatorInv
<1>1. LocatorRunsInit => LocatorInv
  BY InitialLocator
<1>2. LocatorInv /\ [LocatorRunsNext]_lhvars => LocatorInv'
  BY LocatorSteps
<1> QED
  BY <1>1, <1>2, PTL DEF LocatorRunsSpec

-----------------------------------------------------------------------------
(* The properties. *)

\* resolve() lists the names at most once per interval, whatever fails
\* (venus_discovery.py:24-26, 87-99).
THEOREM ListingsAreBounded == LocatorRunsSpec => []ListingsBounded
<1>1. LocatorInv => ListingsBounded
  <2> SUFFICES ASSUME LocatorInv PROVE listings <= 1 + clock \div Interval
    BY DEF ListingsBounded
  <2>1. clock \in Nat /\ listings \in Nat
    BY DEF LocatorInv, LocatorTypeOK, LTime
  <2>2. clock \div Interval \in Nat /\ clock < (clock \div Interval + 1) * Interval
    BY <2>1, Times
  <2>3. CASE _last_attempt = None
    BY <2>1, <2>2, <2>3 DEF LocatorInv, ListingsInv
  <2>4. CASE _last_attempt # None
    <3>1. (listings - 1) * Interval <= clock
      BY <2>4, <2>1, Times DEF LocatorInv, ListingsInv, AskingInv, LocatorTypeOK, LTime
    <3>2. (listings - 1) * Interval < (clock \div Interval + 1) * Interval
      BY <3>1, <2>1, <2>2, Times
    <3>3. listings - 1 < clock \div Interval + 1
      BY <3>2, <2>1, <2>2, Times
    <3> QED
      BY <3>3, <2>1, <2>2
  <2> QED
    BY <2>3, <2>4
<1> QED
  BY <1>1, LocatorInvariance, PTL

\* A steady bus gives a voltage again within the longest of interval and cycle, and two
\* cycles more, whichever reads and listings failed before (venus_discovery.py:82-124).
THEOREM SteadyIsFound == LocatorRunsSpec => []FoundAgain
<1>1. LocatorInv => FoundAgain
  <2> SUFFICES ASSUME LocatorInv, explicit = None, steady # None, ~voltage
               PROVE  clock - steady <= Longest + 2 * Cycle
    BY Times DEF FoundAgain, LocatorInv, LocatorTypeOK, LTime
  <2>1. /\ steady \in Nat /\ clock \in Nat /\ began \in Nat /\ clock - began <= Cycle
    BY DEF LocatorInv, LocatorTypeOK, LTime, AskingInv
  <2>2. began <= steady + Longest + Cycle
    <3>1. CASE _resolved = None
      BY <3>1, <2>1, Times DEF LocatorInv, SteadyInv
    <3>2. CASE _resolved # None /\ _resolved \notin owned
      BY <3>2, <2>1, Times DEF LocatorInv, SteadyInv
    <3>3. CASE _resolved \in owned
      BY <3>3, <2>1 DEF LocatorInv, SteadyInv
    <3> QED
      BY <3>1, <3>2, <3>3
  <2> QED
    BY <2>1, <2>2, Times
<1> QED
  BY <1>1, LocatorInvariance, PTL

\* The voltage cross-check changes its inverter only after a failed read, and a configured
\* one never (venus_discovery.py:101-109).
THEOREM CrosscheckStaysPut == LocatorRunsSpec => CrosscheckStays
<1>1. LocatorInv /\ [LocatorRunsNext]_lhvars =>
        [/\ served # None /\ served' # None => served' = served
         /\ explicit # None => served' \in {explicit, None}]_lhvars
  <2> SUFFICES ASSUME LocatorInv, LocatorRunsNext
               PROVE  /\ served # None /\ served' # None => served' = served
                      /\ explicit # None => served' \in {explicit, None}
    OBVIOUS
  <2>1. /\ served # None => _resolved = served
        /\ asking # None => asking = _resolved
        /\ explicit # None => _resolved = explicit
    BY DEF LocatorInv, AskingInv, LocatorTypeOK
  <2>2. CASE (Pass \/ BusChanges) /\ UNCHANGED <<listings, served>>
    BY <2>1, <2>2
  <2>3. ASSUME NEW listed \in BOOLEAN, served' = IF asking' = None THEN None ELSE served
        PROVE  /\ served # None /\ served' # None => served' = served
               /\ explicit # None => served' \in {explicit, None}
    BY <2>1, <2>3
  <2>4. ASSUME NEW number \in BOOLEAN, Answer(number), served' = IF number THEN asking ELSE None
        PROVE  /\ served # None /\ served' # None => served' = served
               /\ explicit # None => served' \in {explicit, None}
    BY <2>1, <2>4 DEF Answer
  <2> QED
    BY <2>2, <2>3, <2>4 DEF LocatorRunsNext
<1> QED
  BY <1>1, LocatorInvariance, PTL DEF LocatorRunsSpec, CrosscheckStays

-----------------------------------------------------------------------------
(* The id layout: where frames arrive. *)

LEMMA LayoutConstants ==
    /\ Rate \in Nat /\ Allowance \in Nat /\ Delay \in Nat /\ LastTime \in Nat
    /\ Packs \subseteq 1..32 /\ Rate * Delay <= Allowance
  BY EnergyAssumption, PacksAssumption

\* The ids that are sent.
Sent(doc) ==
    \/ \E base \in LOW_BASES \cup HIGH_BASES, p \in Packs : doc = base + p - 1
    \/ doc \in BANK_IDS \cup INVERTER_IDS

\* A shifted frame was sent on a high id of a pack that shifts, every other frame arrives
\* on its own id.
LEMMA Arrival ==
    ASSUME NEW doc, Sent(doc), shifting \subseteq Packs
    PROVE  \/ /\ \E base \in HIGH_BASES, p \in shifting : doc = base + p - 1
              /\ OnWire(doc) = doc - SHIFT /\ doc \in Nat
           \/ /\ OnWire(doc) = doc /\ doc \in Nat
              /\ \A p \in shifting : ~IsHigh(doc, p)
<1>1. doc \in Nat
  BY LayoutConstants DEF Sent, LOW_BASES, HIGH_BASES, BANK_IDS, INVERTER_IDS
<1> QED
  BY <1>1 DEF OnWire, IsHigh

\* What does not need bit 10 is not taken for a frame that does.
LEMMA OwnIds ==
    ASSUME NEW doc, Sent(doc), NEW p, NEW wh, NEW at, ~Veto(doc)
    PROVE  ~IsTarget(doc, doc, p, wh, at) /\ ~Proves(doc, doc)
<1>1. CASE doc \in BANK_IDS \cup INVERTER_IDS
  BY <1>1 DEF BANK_IDS, INVERTER_IDS, IsTarget, Proves, Remaps300, SHIFTED_750_IDS, _family,
              _version_frame, _text_frame, _energy_frame
<1>2. ASSUME NEW q \in 1..32, NEW base \in LOW_BASES, doc = base + q - 1
      PROVE  ~IsTarget(doc, doc, p, wh, at) /\ ~Proves(doc, doc)
  <2>1. base \in Nat /\ q \in Nat
    BY DEF LOW_BASES
  <2> QED
    BY <1>2, <2>1 DEF LOW_BASES, IsTarget, Proves, Remaps300, SHIFTED_750_IDS, _family,
              _version_frame, _text_frame, _energy_frame
<1>3. ASSUME NEW q \in 1..32, NEW base \in HIGH_BASES, doc = base + q - 1
      PROVE  Veto(doc)
  BY <1>3 DEF HIGH_BASES, Veto, _family
<1> QED
  BY <1>1, <1>2, <1>3, LayoutConstants DEF Sent

\* A shifted frame is recognised unless its id is left to another frame or it counts energy.
LEMMA ShiftedIds ==
    ASSUME NEW base \in HIGH_BASES, NEW q \in 1..32, NEW doc, doc = base + q - 1,
           NEW p, NEW wh, NEW at,
           doc - SHIFT \notin Aliases, ~_family(doc, \h550, 32)
    PROVE  IsTarget(doc, doc - SHIFT, p, wh, at)
<1>1. base \in Nat /\ q \in Nat
  BY DEF HIGH_BASES
<1> USE DEF _family, SHIFT
<1>2. CASE base = \h400
  BY <1>2, <1>1 DEF IsTarget
<1>3. CASE base = \h500
  <2>1. doc - SHIFT < \h110
    BY <1>3, <1>1 DEF Aliases
  <2> QED
    BY <2>1, <1>3, <1>1 DEF IsTarget, _version_frame
<1>4. CASE base = \h550
  BY <1>4, <1>1
<1>5. CASE base = \h600 \/ base = \h650
  BY <1>5, <1>1 DEF IsTarget, _text_frame
<1>6. CASE base = \h700
  BY <1>6, <1>1 DEF IsTarget, Remaps300, Aliases
<1>7. CASE base = \h750
  <2>1. doc - SHIFT \in \h350..\h36F
    BY <1>7, <1>1
  <2> QED
    BY <2>1 DEF IsTarget, Aliases
<1> QED
  BY <1>2, <1>3, <1>4, <1>5, <1>6, <1>7 DEF HIGH_BASES

\* Every frame is read as documented, whatever was known before it.
LEMMA Reading ==
    ASSUME NEW doc, Sent(doc), shifting \subseteq Packs, NEW p, NEW wh, NEW at,
           normalise(doc, p, wh, at)
    PROVE  ReadAsDocumented'
<1> DEFINE id == OnWire(doc)
<1>1. /\ last'.doc = doc /\ last'.can_id = id
      /\ last'.read = IF active' /\ IsTarget(doc, id, p, wh, at) THEN id + SHIFT ELSE id
      /\ active' => ~documented'
      /\ Veto(id) => documented'
  BY DEF normalise
<1>2. CASE id = doc
  <2>1. active' => ~IsTarget(doc, id, p, wh, at)
    BY <1>1, <1>2, OwnIds
  <2>2. last'.read = doc
    BY <1>1, <1>2, <2>1
  <2> QED
    BY <1>1, <1>2, <2>2 DEF ReadAsDocumented
<1>3. CASE id # doc
  <2>1. PICK base \in HIGH_BASES, q \in Packs : doc = base + q - 1 /\ id = doc - SHIFT
    BY <1>3, Arrival
  <2>2. doc \in Nat /\ id + SHIFT = doc
    BY <1>3, <2>1, Arrival DEF SHIFT
  <2>3. id \notin Aliases /\ ~_family(doc, \h550, 32) => IsTarget(doc, id, p, wh, at)
    BY <2>1, ShiftedIds, LayoutConstants
  <2> QED
    BY <1>1, <1>3, <2>2, <2>3 DEF ReadAsDocumented
<1> QED
  BY <1>2, <1>3

LEMMA SentFrame ==
    ASSUME LayoutNext
    PROVE  \E doc, p, from, at, wh :
             /\ Sent(doc) /\ Frame(doc, p, from, at, wh)
<1>1. PICK from \in 0..LastTime, at \in 0..LastTime :
        \/ \E frame \in Sends : PackFrame(frame[1], frame[2], from, at)
        \/ SystemFrame(from, at)
  BY DEF LayoutNext
<1>2. CASE SystemFrame(from, at)
  <2>1. PICK doc \in BANK_IDS \cup INVERTER_IDS : Frame(doc, 1, from, at, 0)
    BY <1>2 DEF SystemFrame
  <2> QED
    BY <2>1 DEF Sent
<1>3. ASSUME NEW frame \in Sends, PackFrame(frame[1], frame[2], from, at)
      PROVE  \E doc, p, wh : Sent(doc) /\ Frame(doc, p, from, at, wh)
  <2>1. frame[1] \in LOW_BASES \cup HIGH_BASES /\ frame[2] \in Packs
    BY PacksAssumption
  <2>2. Sent(frame[1] + frame[2] - 1)
    BY <2>1 DEF Sent
  <2>3. CASE frame[1] = \h550
    <3>1. Counters(frame[2], from, at)
      BY <1>3, <2>3 DEF PackFrame
    <3>2. PICK grown \in 0..(Rate * (from - energy[frame[2]].at)) :
            Frame(\h550 + frame[2] - 1, frame[2], from, at, energy[frame[2]].wh + grown)
      BY <3>1 DEF Counters
    <3> QED
      BY <3>2, <2>2, <2>3
  <2>4. CASE frame[1] # \h550
    BY <1>3, <2>2, <2>4 DEF PackFrame
  <2> QED
    BY <2>3, <2>4
<1> QED
  BY <1>1, <1>2, <1>3

\* normalise() reads a frame under the id it was sent with, or on the id it came on
\* (id_layout.py:81-131).
THEOREM FramesReadAsDocumented == LayoutSpec => []ReadAsDocumented
<1> DEFINE Inv == ReadAsDocumented /\ shifting \subseteq Packs
<1>1. LayoutInit => Inv
  BY DEF LayoutInit, ReadAsDocumented, NoFrame
<1>2. ASSUME Inv, [LayoutNext]_ivars PROVE Inv'
  <2>1. CASE LayoutNext
    <3>1. PICK doc, p, from, at, wh : Sent(doc) /\ Frame(doc, p, from, at, wh)
      BY <2>1, SentFrame
    <3>2. shifting' = shifting /\ normalise(doc, p, wh, at)
      BY <3>1 DEF Frame
    <3> QED
      BY <1>2, <3>1, <3>2, Reading
  <2>2. CASE UNCHANGED ivars
    BY <1>2, <2>2 DEF ivars, layout, ReadAsDocumented
  <2> QED
    BY <1>2, <2>1, <2>2
<1> QED
  BY <1>1, <1>2, PTL DEF LayoutSpec

-----------------------------------------------------------------------------
(* The id layout: evidence and energy counters. *)

LEMMA Grows ==
    ASSUME NEW a \in Int, NEW b \in Int, a <= b
    PROVE  Rate * a <= Rate * b
  BY LayoutConstants

LEMMA GrowsTogether ==
    ASSUME NEW a \in Int, NEW b \in Int
    PROVE  Rate * (a + b) = Rate * a + Rate * b
  BY LayoutConstants

LEMMA InitialLayout == LayoutInit => LayoutInv
<1> SUFFICES ASSUME LayoutInit PROVE LayoutInv
  OBVIOUS
<1> USE DEF LayoutInit
<1>1. \A p \in Packs : energy[p] = [wh |-> 0, at |-> 0]
  <2>1. \A p \in Packs : energy[p] \in [wh : {0}, at : {0}]
    OBVIOUS
  <2> QED
    BY <2>1
<1>2. \A p \in Packs : _energy[p].wh = Unseen
  OBVIOUS
<1>3. LayoutTypeOK
  <2>1. 0 \in 0..LastTime
    BY LayoutConstants
  <2>2. energy \in [Packs -> [wh : Nat, at : 0..LastTime]]
    BY <2>1
  <2>3. _energy \in [Packs -> [wh : Nat \cup {Unseen}, at : 0..LastTime]]
    BY <2>1
  <2>4. {sent, stamp} \subseteq 0..LastTime /\ sent <= stamp /\ shifting \subseteq Packs
    BY <2>1
  <2>5. active = FALSE /\ documented = FALSE /\ evidence \in 0..2
    OBVIOUS
  <2> QED
    BY <2>2, <2>3, <2>4, <2>5, <1>2 DEF LayoutTypeOK, EVIDENCE_REQUIRED
<1>4. EnergyInv /\ EvidenceInv
  BY <1>1, <1>2 DEF EnergyInv, EvidenceInv, EVIDENCE_REQUIRED
<1> QED
  BY <1>3, <1>4 DEF LayoutInv

\* The decision: evidence comes from a pack that shifts, a veto from one that does not.
LEMMA Decides ==
    ASSUME LayoutInv, NEW doc, Sent(doc), NEW p, NEW wh, NEW at, normalise(doc, p, wh, at),
           shifting' = shifting
    PROVE  /\ active' \in BOOLEAN /\ documented' \in BOOLEAN /\ evidence' \in 0..EVIDENCE_REQUIRED
           /\ active' => shifting' # {} /\ evidence' = EVIDENCE_REQUIRED
           /\ documented' => shifting' # Packs
           /\ EvidenceInv'
<1> DEFINE id == OnWire(doc)
           seen == evidence + (IF Proves(doc, id) THEN 1 ELSE 0)
<1>1. /\ active \in BOOLEAN /\ documented \in BOOLEAN /\ evidence \in 0..2
      /\ active => shifting # {} /\ evidence = 2
      /\ documented => shifting # Packs
      /\ ~active /\ ~documented => evidence < 2
      /\ shifting \subseteq Packs
  BY DEF LayoutInv, LayoutTypeOK, EvidenceInv, EVIDENCE_REQUIRED
<1>2. /\ documented' = (documented \/ Veto(id))
      /\ evidence' = IF documented' \/ active THEN evidence ELSE seen
      /\ active' = (~documented' /\ (active \/ seen >= 2))
  BY DEF normalise, EVIDENCE_REQUIRED
<1>3. Proves(doc, id) /\ ~Veto(id) => shifting # {}
  BY <1>1, Arrival, OwnIds
<1>4. Veto(id) => shifting # Packs
  <2> SUFFICES ASSUME Veto(id), shifting = Packs PROVE FALSE
    OBVIOUS
  <2>1. CASE id = doc /\ \A q \in shifting : ~IsHigh(doc, q)
    <3>1. \A base \in HIGH_BASES, q \in Packs : doc # base + q - 1
      BY <2>1 DEF IsHigh
    <3>2. doc \in BANK_IDS \cup INVERTER_IDS \/ \E base \in LOW_BASES, q \in 1..32 : doc = base + q - 1
      BY <3>1, LayoutConstants DEF Sent
    <3> QED
      BY <2>1, <3>2 DEF Veto, _family, HIGH_BASES, LOW_BASES, BANK_IDS, INVERTER_IDS
  <2>2. CASE \E base \in HIGH_BASES, q \in shifting : doc = base + q - 1 /\ id = doc - SHIFT
    <3>1. PICK base \in HIGH_BASES, q \in 1..32 : doc = base + q - 1 /\ id = doc - SHIFT
      BY <2>2, LayoutConstants
    <3> QED
      BY <3>1 DEF Veto, _family, HIGH_BASES, SHIFT
  <2> QED
    BY <1>1, <2>1, <2>2, Arrival
<1>5. Veto(id) => documented'
  BY <1>2
<1>6. /\ active' \in BOOLEAN /\ documented' \in BOOLEAN
      /\ active' => shifting # {}
      /\ documented' => shifting # Packs
  <2>1. ASSUME active' PROVE shifting # {}
    <3>1. CASE active
      BY <3>1, <1>1
    <3>2. CASE ~active
      BY <3>2, <2>1, <1>1, <1>2, <1>3
    <3> QED
      BY <3>1, <3>2
  <2> QED
    BY <2>1, <1>1, <1>2, <1>4
<1>7. evidence' \in 0..2 /\ (active' => evidence' = 2) /\ (~active' /\ ~documented' => evidence' < 2)
  <2>1. seen \in {evidence, evidence + 1}
    BY <1>1
  <2> HIDE DEF seen
  <2>2. CASE documented' \/ active
    <3>1. evidence' = evidence
      BY <1>2, <2>2
    <3>2. active' => active
      BY <1>2, <2>2
    <3>3. ~active' => documented'
      BY <1>2, <2>2
    <3> QED
      BY <1>1, <3>1, <3>2, <3>3
  <2>3. CASE ~documented' /\ ~active
    <3>1. /\ evidence' = seen
          /\ active' => seen >= 2
          /\ ~active' => ~(seen >= 2)
      BY <1>2, <2>3
    <3>2. evidence \in 0..1
      BY <1>1, <1>2, <2>3
    <3> QED
      BY <2>1, <3>1, <3>2
  <2> QED
    BY <2>2, <2>3
<1> QED
  BY <1>6, <1>7 DEF EvidenceInv, EVIDENCE_REQUIRED

\* The remembered counters: of every frame those of before, or those of the frame.
LEMMA Remembers ==
    ASSUME NEW doc, NEW p, NEW wh, NEW at, normalise(doc, p, wh, at)
    PROVE  \/ _energy' = _energy
           \/ /\ _family(doc, \h550, 32)
              /\ _energy' = [_energy EXCEPT ![p] = [wh |-> wh, at |-> at]]
  BY DEF normalise, _energy_frame

LEMMA CountersAreSent ==
    ASSUME NEW p \in Packs
    PROVE  Sent(\h550 + p - 1)
<1>1. \h550 \in LOW_BASES \cup HIGH_BASES
  BY DEF HIGH_BASES
<1> QED
  BY <1>1 DEF Sent

LEMMA OtherFamily ==
    ASSUME NEW base \in LOW_BASES \cup HIGH_BASES, base # \h550, NEW p \in Packs
    PROVE  ~_family(base + p - 1, \h550, 32)
  BY LayoutConstants DEF _family, LOW_BASES, HIGH_BASES

LEMMA UncountedStep ==
    ASSUME LayoutInv, NEW doc, Sent(doc), ~_family(doc, \h550, 32), NEW p,
           NEW from \in 0..LastTime, NEW at \in 0..LastTime,
           Frame(doc, p, from, at, 0), UNCHANGED energy
    PROVE  LayoutInv'
<1>1. /\ sent' = from /\ stamp' = at /\ sent <= from /\ from <= at
      /\ shifting' = shifting /\ normalise(doc, p, 0, at)
  BY LayoutConstants DEF Frame
<1>2. _energy' = _energy
  BY <1>1, Remembers
<1>3. /\ active' \in BOOLEAN /\ documented' \in BOOLEAN /\ evidence' \in 0..EVIDENCE_REQUIRED
      /\ active' => shifting' # {} /\ evidence' = EVIDENCE_REQUIRED
      /\ documented' => shifting' # Packs
      /\ EvidenceInv'
  BY <1>1, Decides
<1>4. LayoutTypeOK'
  BY <1>1, <1>2, <1>3 DEF LayoutInv, LayoutTypeOK
<1>5. EnergyInv'
  <2>1. \A q \in Packs : energy[q].at \in Int /\ sent \in Int
    BY DEF LayoutInv, LayoutTypeOK
  <2> QED
    BY <1>1, <1>2, <2>1 DEF LayoutInv, EnergyInv
<1> QED
  BY <1>3, <1>4, <1>5 DEF LayoutInv

\* Any two numbers that pack p counted up to are far enough apart in time.
LEMMA CountersStep ==
    ASSUME LayoutInv, NEW p \in Packs, NEW from \in 0..LastTime, NEW at \in 0..LastTime,
           Counters(p, from, at)
    PROVE  LayoutInv'
<1>1. PICK grown \in 0..(Rate * (from - energy[p].at)) :
        /\ Frame(\h550 + p - 1, p, from, at, energy[p].wh + grown)
        /\ energy' = [energy EXCEPT ![p] = [wh |-> energy[p].wh + grown, at |-> from]]
  BY DEF Counters
<1> DEFINE doc == \h550 + p - 1
           wh == energy[p].wh + grown
<1>2. /\ energy \in [Packs -> [wh : Nat, at : 0..LastTime]]
      /\ _energy \in [Packs -> [wh : Nat \cup {Unseen}, at : 0..LastTime]]
      /\ {sent, stamp} \subseteq 0..LastTime
  BY DEF LayoutInv, LayoutTypeOK
<1>3. energy[p].wh \in Nat /\ energy[p].at \in 0..LastTime /\ grown \in Nat /\ wh \in Nat
      /\ grown <= Rate * (from - energy[p].at)
  <2>1. energy[p] \in [wh : Nat, at : 0..LastTime]
    BY <1>2
  <2>2. energy[p].wh \in Nat /\ energy[p].at \in 0..LastTime
    BY <2>1
  <2>3. Rate * (from - energy[p].at) \in Int
    BY <2>2, LayoutConstants
  <2>4. grown \in Nat /\ grown <= Rate * (from - energy[p].at)
    BY <1>1, <2>3
  <2> QED
    BY <2>2, <2>4
<1>4. Sent(doc)
  BY CountersAreSent
<1>5. /\ sent' = from /\ stamp' = at /\ sent <= from /\ from <= at /\ at - from <= Delay
      /\ shifting' = shifting /\ normalise(doc, p, wh, at)
  BY <1>1, LayoutConstants DEF Frame
<1>6. _energy' = _energy \/ _energy' = [_energy EXCEPT ![p] = [wh |-> wh, at |-> at]]
  BY <1>5, Remembers
<1>7. /\ active' \in BOOLEAN /\ documented' \in BOOLEAN /\ evidence' \in 0..EVIDENCE_REQUIRED
      /\ active' => shifting' # {} /\ evidence' = EVIDENCE_REQUIRED
      /\ documented' => shifting' # Packs
      /\ EvidenceInv'
  BY <1>4, <1>5, Decides
<1>8. ASSUME NEW q \in Packs
      PROVE  /\ energy'[q].at <= sent'
             /\ _energy'[q].wh # Unseen =>
                  /\ _energy'[q].wh <= energy'[q].wh
                  /\ energy'[q].wh - _energy'[q].wh <= Rate * (energy'[q].at - _energy'[q].at + Delay)
  <2>0. /\ energy[q].at \in 0..LastTime /\ energy[q].wh \in Nat /\ energy[q].at <= sent
        /\ _energy[q].at \in 0..LastTime /\ _energy[q].wh \in Nat \cup {Unseen}
        /\ _energy[q].wh # Unseen =>
             /\ _energy[q].wh <= energy[q].wh
             /\ energy[q].wh - _energy[q].wh <= Rate * (energy[q].at - _energy[q].at + Delay)
    <3>1. energy[q] \in [wh : Nat, at : 0..LastTime] /\ _energy[q] \in [wh : Nat \cup {Unseen}, at : 0..LastTime]
      BY <1>2
    <3> QED
      BY <3>1 DEF LayoutInv, LayoutTypeOK, EnergyInv
  <2>1. CASE q # p
    <3>1. energy'[q] = energy[q] /\ _energy'[q] = _energy[q]
      BY <2>1, <1>1, <1>2, <1>6
    <3> QED
      BY <3>1, <2>0, <1>2, <1>5
  <2>2. CASE q = p /\ _energy' = _energy
    <3>1. energy'[q].wh = wh /\ energy'[q].at = from
      BY <2>2, <1>1, <1>2
    <3>2. ASSUME _energy[q].wh # Unseen
          PROVE  wh - _energy[q].wh <= Rate * (from - _energy[q].at + Delay)
      <4> DEFINE a == energy[q].at - _energy[q].at + Delay
                 b == from - energy[q].at
      <4>1. a \in Int /\ b \in Int
        BY <2>0, LayoutConstants
      <4>2. a + b = from - _energy[q].at + Delay
        BY <2>0, LayoutConstants
      <4>3. Rate * (a + b) = Rate * a + Rate * b
        BY <4>1, GrowsTogether
      <4>4. energy[q].wh - _energy[q].wh <= Rate * a /\ grown <= Rate * b
        BY <3>2, <2>0, <2>2, <1>3
      <4>5. Rate * a \in Int /\ Rate * b \in Int
        BY <4>1, LayoutConstants
      <4> HIDE DEF a, b
      <4> QED
        BY <4>2, <4>3, <4>4, <4>5, <3>2, <2>0, <2>2, <1>3
    <3> QED
      BY <3>1, <3>2, <2>0, <2>2, <1>3, <1>5
  <2>3. CASE q = p /\ _energy' = [_energy EXCEPT ![p] = [wh |-> wh, at |-> at]]
    <3>1. energy'[q].wh = wh /\ energy'[q].at = from /\ _energy'[q].wh = wh /\ _energy'[q].at = at
      BY <2>3, <1>1, <1>2
    <3>2. 0 <= Rate * (from - at + Delay)
      <4>1. from - at + Delay \in Int /\ 0 <= from - at + Delay
        BY <1>5, LayoutConstants
      <4> QED
        BY <4>1, Grows, LayoutConstants
    <3> QED
      BY <3>1, <3>2, <1>3, <1>5
  <2> QED
    BY <1>6, <2>1, <2>2, <2>3
<1>9. LayoutTypeOK'
  <2>1. energy' \in [Packs -> [wh : Nat, at : 0..LastTime]]
    BY <1>1, <1>2, <1>3
  <2>2. _energy' \in [Packs -> [wh : Nat \cup {Unseen}, at : 0..LastTime]]
    BY <1>2, <1>3, <1>6
  <2>3. shifting' \subseteq Packs
    BY <1>5 DEF LayoutInv, LayoutTypeOK
  <2> QED
    BY <2>1, <2>2, <2>3, <1>5, <1>7, <1>8 DEF LayoutTypeOK
<1>10. EnergyInv'
  BY <1>8 DEF EnergyInv
<1> QED
  BY <1>7, <1>9, <1>10 DEF LayoutInv

LEMMA LayoutSteps ==
    ASSUME LayoutInv, [LayoutNext]_ivars
    PROVE  LayoutInv'
<1>1. CASE UNCHANGED ivars
  BY <1>1 DEF ivars, layout, LayoutInv, LayoutTypeOK, EnergyInv, EvidenceInv
<1>2. ASSUME NEW from \in 0..LastTime, NEW at \in 0..LastTime, SystemFrame(from, at)
      PROVE  LayoutInv'
  <2>1. PICK doc \in BANK_IDS \cup INVERTER_IDS : Frame(doc, 1, from, at, 0)
    BY <1>2 DEF SystemFrame
  <2>2. Sent(doc) /\ ~_family(doc, \h550, 32)
    BY DEF Sent, _family, BANK_IDS, INVERTER_IDS
  <2> QED
    BY <1>2, <2>1, <2>2, UncountedStep DEF SystemFrame
<1>3. ASSUME NEW from \in 0..LastTime, NEW at \in 0..LastTime,
             NEW frame \in Sends, PackFrame(frame[1], frame[2], from, at)
      PROVE  LayoutInv'
  <2>1. frame[1] \in LOW_BASES \cup HIGH_BASES /\ frame[2] \in Packs
    BY PacksAssumption
  <2>2. CASE frame[1] = \h550
    BY <1>3, <2>1, <2>2, CountersStep DEF PackFrame
  <2>3. CASE frame[1] # \h550
    <3>1. Frame(frame[1] + frame[2] - 1, frame[2], from, at, 0) /\ UNCHANGED energy
      BY <1>3, <2>3 DEF PackFrame
    <3>2. Sent(frame[1] + frame[2] - 1)
      BY <2>1 DEF Sent
    <3>3. ~_family(frame[1] + frame[2] - 1, \h550, 32)
      BY <2>1, <2>3, OtherFamily
    <3> QED
      BY <3>1, <3>2, <3>3, UncountedStep
  <2> QED
    BY <2>2, <2>3
<1> QED
  BY <1>1, <1>2, <1>3 DEF LayoutNext

\* What the evidence and the remembered counters say of the bank, whatever it sends.
THEOREM LayoutInvariance == LayoutSpec => []LayoutInv
<1>1. LayoutInit => LayoutInv
  BY InitialLayout
<1>2. LayoutInv /\ [LayoutNext]_ivars => LayoutInv'
  BY LayoutSteps
<1> QED
  BY <1>1, <1>2, PTL DEF LayoutSpec

\* Counters once recognised are recognised from then on, although they pass through the
\* range of a summary: the allowance covers what the socket delays (id_layout.py:133-163).
THEOREM CountersAreRecognised == LayoutSpec => CountersStayCounters
<1> DEFINE A == \A p \in Packs :
                  last'.doc = \h550 + p - 1 /\ energy' # energy /\ active' /\ _energy[p].wh # Unseen =>
                     last'.read = last'.doc
<1>1. ASSUME LayoutInv, LayoutNext, NEW p \in Packs,
             last'.doc = \h550 + p - 1, energy' # energy, active', _energy[p].wh # Unseen
      PROVE  last'.read = last'.doc
  <2>1. PICK from \in 0..LastTime, at \in 0..LastTime, q \in Packs : Counters(q, from, at)
    <3>1. PICK from \in 0..LastTime, at \in 0..LastTime, frame \in Sends :
            Counters(frame[2], from, at)
      BY <1>1 DEF LayoutNext, SystemFrame, PackFrame
    <3>2. frame[2] \in Packs
      BY PacksAssumption
    <3> QED
      BY <3>1, <3>2
  <2>2. PICK grown \in 0..(Rate * (from - energy[q].at)) :
          Frame(\h550 + q - 1, q, from, at, energy[q].wh + grown)
    BY <2>1 DEF Counters
  <2> DEFINE doc == \h550 + p - 1
             wh == energy[p].wh + grown
             elapsed == IF at > _energy[p].at THEN at - _energy[p].at ELSE 0
  <2>3. q = p
    <3>1. last'.doc = \h550 + q - 1
      BY <2>2 DEF Frame, normalise
    <3> QED
      BY <3>1, <2>1, <1>1, LayoutConstants
  <2>4. /\ normalise(doc, p, wh, at) /\ sent <= from /\ from <= at
        /\ grown \in 0..(Rate * (from - energy[p].at))
    BY <2>2, <2>3, LayoutConstants DEF Frame
  <2>5. /\ energy[p].wh \in Nat /\ energy[p].at \in Nat /\ _energy[p].at \in Nat
        /\ _energy[p].wh \in Nat /\ _energy[p].wh <= energy[p].wh
        /\ energy[p].wh - _energy[p].wh <= Rate * (energy[p].at - _energy[p].at + Delay)
    <3>1. energy[p] \in [wh : Nat, at : 0..LastTime] /\ _energy[p] \in [wh : Nat \cup {Unseen}, at : 0..LastTime]
      BY <1>1 DEF LayoutInv, LayoutTypeOK
    <3> QED
      BY <3>1, <1>1, LayoutConstants DEF LayoutInv, LayoutTypeOK, EnergyInv
  <2>6. grown \in Nat /\ grown <= Rate * (from - energy[p].at)
    BY <2>4, <2>5, LayoutConstants
  <2>7. wh - _energy[p].wh <= Allowance + Rate * elapsed
    <3> DEFINE a == energy[p].at - _energy[p].at
               b == from - energy[p].at
    <3>1. a \in Int /\ b \in Int /\ elapsed \in Int /\ a + b <= elapsed
      BY <2>4, <2>5, LayoutConstants
    <3>2. Rate * (a + Delay) = Rate * a + Rate * Delay
      BY <3>1, GrowsTogether, LayoutConstants
    <3>3. Rate * (a + b) = Rate * a + Rate * b /\ Rate * (a + b) <= Rate * elapsed
      <4> HIDE DEF a, b, elapsed
      <4>1. a + b \in Int
        BY <3>1
      <4> QED
        BY <3>1, <4>1, GrowsTogether, Grows
    <3>4. /\ energy[p].wh - _energy[p].wh <= Rate * (a + Delay)
          /\ grown <= Rate * b
      BY <2>5, <2>6
    <3>5. /\ Rate * a \in Int /\ Rate * b \in Int /\ Rate * elapsed \in Int
          /\ Rate * Delay \in Int /\ Rate * Delay <= Allowance
      BY <3>1, LayoutConstants
    <3> HIDE DEF a, b, elapsed
    <3> QED
      BY <3>2, <3>3, <3>4, <3>5, <2>5, <2>6, LayoutConstants
  <2>8. Continues(p, wh, at)
    <3>1. wh - _energy[p].wh \in Nat /\ Allowance + Rate * elapsed \in Int
      BY <2>4, <2>5, <2>6, LayoutConstants
    <3> QED
      BY <3>1, <2>7, <1>1 DEF Continues
  <2>9. _family(doc, \h550, 32)
    BY LayoutConstants DEF _family
  <2>10. OnWire(doc) = doc - SHIFT
    <3>1. Sent(doc)
      BY CountersAreSent
    <3>2. OnWire(doc) # doc
      <4>1. Veto(doc)
        BY <2>9 DEF Veto, HIGH_BASES
      <4>2. ~Veto(OnWire(doc))
        BY <2>4, <1>1 DEF normalise
      <4> QED
        BY <4>1, <4>2
    <3> QED
      BY <3>1, <3>2, <1>1, Arrival DEF LayoutInv, LayoutTypeOK
  <2>11. IsTarget(doc, OnWire(doc), p, wh, at)
    <3>1. _family(OnWire(doc), \h150, 32)
      BY <2>10, LayoutConstants DEF _family, SHIFT
    <3> QED
      BY <3>1, <2>8, <2>9 DEF IsTarget, _energy_frame
  <2>12. last'.read = OnWire(doc) + SHIFT
    BY <2>4, <2>11, <1>1 DEF normalise
  <2> QED
    BY <2>10, <2>12, <1>1, LayoutConstants DEF SHIFT
<1>2. LayoutInv /\ [LayoutNext]_ivars => [A]_ivars
  BY <1>1
<1> QED
  BY <1>2, LayoutInvariance, PTL DEF LayoutSpec, CountersStayCounters

-----------------------------------------------------------------------------
(* The replay. *)

LEMMA ReplayConstants ==
    Stamps \subseteq Nat /\ Lines \in Nat /\ Window \in Nat /\ Readings \in Nat
  BY StampsAssumption

\* The recordings do not change.
Recordings ==
    /\ Len(capture) \in Nat /\ DOMAIN capture = 1..Len(capture)
    /\ \A i \in DOMAIN capture : capture[i] \in Stamps \cup {NotAFrame}
    /\ Len(events) \in Nat /\ DOMAIN events = 1..Len(events)
    /\ \A i \in DOMAIN events : events[i] \in Stamps
    /\ Sorted(events)

LEMMA InitialRecordings == ReplayInit => Recordings
<1> SUFFICES ASSUME ReplayInit PROVE Recordings
  OBVIOUS
<1>1. PICK n \in Nat : capture \in [1..n -> Stamps \cup {NotAFrame}]
  BY ReplayConstants DEF ReplayInit, Captures
<1>2. PICK m \in Nat : events \in [1..m -> Stamps]
  BY ReplayConstants DEF ReplayInit
<1>3. Len(capture) = n /\ Len(events) = m
  BY <1>1, <1>2
<1> QED
  BY <1>1, <1>2, <1>3 DEF Recordings, ReplayInit

LEMMA FrameStamps ==
    ASSUME Recordings
    PROVE  /\ Frames \subseteq 1..Len(capture) /\ Frames \subseteq Nat
           /\ \A i \in Frames : capture[i] \in Nat
<1>1. Len(capture) \in Nat /\ Frames \subseteq 1..Len(capture)
  BY DEF Recordings, Frames
<1>2. ASSUME NEW i \in Frames PROVE capture[i] \in Nat
  <2>1. i \in DOMAIN capture /\ capture[i] # NotAFrame
    BY DEF Frames
  <2>2. capture[i] \in Stamps
    BY <2>1 DEF Recordings
  <2> QED
    BY <2>2, ReplayConstants
<1> QED
  BY <1>1, <1>2

\* The heap has a first frame.
LEMMA TopIsFirst ==
    ASSUME Recordings, heap \subseteq Frames, heap # {}
    PROVE  Top \in heap /\ \A j \in heap \ {Top} : Before(Top, j)
<1> DEFINE stamps == {capture[i] : i \in heap}
<1>1. stamps \subseteq Nat /\ stamps # {}
  BY FrameStamps
<1>2. PICK s \in stamps : \A t \in stamps : s <= t
  BY <1>1, First
<1> DEFINE firsts == {i \in heap : capture[i] = s}
<1>3. firsts \subseteq Nat /\ firsts # {}
  BY <1>2, FrameStamps
<1>4. PICK i \in firsts : \A j \in firsts : i <= j
  BY <1>3, First
<1>5. \A j \in heap \ {i} : Before(i, j)
  <2> SUFFICES ASSUME NEW j \in heap \ {i} PROVE Before(i, j)
    OBVIOUS
  <2>1. capture[i] = s /\ s <= capture[j] /\ s \in Nat /\ capture[j] \in Nat /\ i \in Nat /\ j \in Nat
    BY <1>1, <1>2, <1>4, FrameStamps
  <2>2. capture[j] = s => i <= j
    BY <1>4
  <2> QED
    BY <2>1, <2>2 DEF Before
<1>6. i \in heap
  BY <1>4
<1> QED
  BY <1>5, <1>6 DEF Top

LEMMA BeforeIsTransitive ==
    ASSUME Recordings, NEW i \in Frames, NEW j \in Frames, NEW k \in Frames,
           Before(i, j), Before(j, k)
    PROVE  Before(i, k)
  BY FrameStamps DEF Before

LEMMA InitialReplay == ReplayInit => Recordings /\ ReplayInv
<1> SUFFICES ASSUME ReplayInit PROVE Recordings /\ ReplayInv
  OBVIOUS
<1>1. Recordings
  BY InitialRecordings
<1>2. /\ line = 0 /\ maximum_seen = NotAFrame /\ heap = {} /\ current_frame = Nothing
      /\ applied = <<>> /\ samples = <<>> /\ refused = FALSE
  BY DEF ReplayInit
<1>3. DOMAIN applied = {} /\ DOMAIN samples = {} /\ Len(samples) = 0
  BY <1>2
<1>4. Yielded = {}
  BY <1>2, <1>3 DEF Yielded
<1>5. ReplayTypeOK
  <2>1. applied \in Seq(Nat) /\ samples \in Seq(Nat)
    BY <1>2
  <2>2. line \in 0..Len(capture) /\ Len(samples) <= Len(events)
    BY <1>1, <1>2, <1>3 DEF Recordings
  <2> QED
    BY <2>1, <2>2, <1>2, <1>3 DEF ReplayTypeOK
<1>6. ReadInv
  BY <1>2, <1>4 DEF ReadInv
<1>7. YieldedInv /\ AppliedInv /\ ReplayInOrder /\ SampleSeesItsPast
  BY <1>2, <1>3, <1>4 DEF YieldedInv, AppliedInv, ReplayInOrder, SampleSeesItsPast, Nothing, End
<1> QED
  BY <1>1, <1>5, <1>6, <1>7 DEF ReplayInv

\* While the recordings stay the same, so does what is said of their lines.
LEMMA SameInput ==
    ASSUME UNCHANGED input
    PROVE  /\ capture' = capture /\ events' = events
           /\ Frames' = Frames
           /\ \A i : Late(i)' = Late(i)
           /\ \A i, j : Before(i, j)' = Before(i, j)
<1>1. capture' = capture /\ events' = events
  BY DEF input
<1> QED
  BY <1>1 DEF Frames, Late, Before

-----------------------------------------------------------------------------
(* The generator. *)

LEMMA ReadLineStep ==
    ASSUME Recordings, ReplayInv, ReadLine
    PROVE  ReplayInv'
<1>1. /\ current_frame = Nothing /\ ~refused /\ line < Len(capture) /\ line' = line + 1
      /\ UNCHANGED <<capture, events, current_frame, applied, samples>>
      /\ UNCHANGED input
  BY DEF ReadLine, Asked, input
<1>2. /\ applied \in Seq(Nat) /\ samples \in Seq(Nat)
      /\ maximum_seen \in Stamps \cup {NotAFrame}
      /\ line \in 0..Len(capture) /\ heap \subseteq Frames
      /\ current_frame \in Frames \cup {Nothing, End}
      /\ \A n \in DOMAIN applied : applied[n] \in Frames \ heap
      /\ Len(samples) <= Len(events)
      /\ \A n \in DOMAIN samples : samples[n] <= Len(applied)
      /\ refused \in BOOLEAN
  BY DEF ReplayInv, ReplayTypeOK
<1>3. Yielded' = Yielded /\ Frames' = Frames
  BY <1>1, SameInput DEF Yielded
<1>4. line \in Nat /\ line' \in Nat /\ line' \in 1..Len(capture) /\ Len(capture) \in Nat
      /\ 1..line' = 1..line \cup {line'} /\ line' \notin 1..line
  BY <1>1, <1>2 DEF Recordings
<1>5. Yielded \subseteq Frames \cap (1..line) /\ heap \subseteq 1..line
  BY <1>1, <1>2 DEF ReplayInv, ReadInv, Yielded, Frames, Recordings
<1>6. AppliedInv' /\ SampleSeesItsPast' /\ \A m, n \in DOMAIN applied : m < n => Before(applied[m], applied[n])
  BY <1>1, <1>3, SameInput DEF ReplayInv, AppliedInv, MoreEvents, SampleSeesItsPast, ReplayInOrder
<1>7. \A i \in 1..Len(capture) : capture[i] \in Int /\ (capture[i] # NotAFrame <=> i \in Frames)
      /\ NotAFrame <= capture[i]
  <2> SUFFICES ASSUME NEW i \in 1..Len(capture)
               PROVE  /\ capture[i] \in Int /\ NotAFrame <= capture[i]
                      /\ capture[i] # NotAFrame <=> i \in Frames
    OBVIOUS
  <2>1. i \in DOMAIN capture
    BY DEF Recordings
  <2>2. capture[i] \in Nat \cup {NotAFrame}
    BY <2>1, ReplayConstants DEF Recordings
  <2> QED
    BY <2>1, <2>2 DEF Frames, NotAFrame
<1>8. maximum_seen \in Int /\ NotAFrame <= maximum_seen /\ Window \in Nat
  BY <1>2, ReplayConstants DEF NotAFrame
<1>9. CASE capture[line'] = NotAFrame
  <2>1. UNCHANGED <<maximum_seen, heap, refused>>
    BY <1>9 DEF ReadLine
  <2>2. ReplayTypeOK'
    BY <1>1, <1>2, <1>3, <1>4, <2>1 DEF ReplayTypeOK
  <2>3. Frames \cap (1..line') = Frames \cap (1..line)
    BY <1>4, <1>9 DEF Frames
  <2>4. ReadInv'
    <3>1. \A i \in 1..line' : capture[i] <= maximum_seen
      BY <1>4, <1>8, <1>9 DEF ReplayInv, ReadInv
    <3> QED
      BY <1>1, <1>3, <1>4, <2>1, <2>3, <3>1, SameInput DEF ReplayInv, ReadInv
  <2>5. YieldedInv'
    <3>1. \A i \in Yielded : capture[i] <= maximum_seen - Window
      BY <1>1, <1>4 DEF ReplayInv, YieldedInv
    <3> QED
      BY <1>1, <1>3, <2>1, <3>1, SameInput DEF ReplayInv, YieldedInv, Nothing, End
  <2>6. ReplayInOrder'
    BY <1>1, <1>6, <2>1, SameInput DEF ReplayInOrder
  <2> QED
    BY <1>6, <2>2, <2>4, <2>5, <2>6 DEF ReplayInv
<1>10. CASE capture[line'] # NotAFrame
  <2>1. /\ maximum_seen' = Later(maximum_seen, capture[line'])
        /\ refused' \in BOOLEAN /\ (refused' <=> capture[line'] < maximum_seen' - Window)
        /\ heap' = IF refused' THEN heap ELSE heap \cup {line'}
    <3>1. /\ maximum_seen' = Later(maximum_seen, capture[line'])
          /\ refused' = TooLate(capture[line'], maximum_seen')
          /\ heap' = IF refused' THEN heap ELSE heap \cup {line'}
      BY <1>10 DEF ReadLine
    <3>2. refused' = (capture[line'] < maximum_seen' - Window)
      BY <3>1 DEF TooLate
    <3>3. refused' \in BOOLEAN
      BY <3>2
    <3> QED
      BY <3>1, <3>2, <3>3
  <2>2. line' \in Frames /\ capture[line'] \in Nat
    BY <1>4, <1>10, FrameStamps DEF Frames, Recordings
  <2>3. /\ maximum_seen' \in Stamps \cup {NotAFrame} /\ maximum_seen' \in Int
        /\ maximum_seen <= maximum_seen' /\ capture[line'] <= maximum_seen'
        /\ maximum_seen' = maximum_seen \/ maximum_seen' = capture[line']
    BY <1>2, <1>4, <1>8, <2>1, <2>2 DEF Later, Recordings
  <2>4. Frames \cap (1..line') = (Frames \cap (1..line)) \cup {line'}
    BY <1>4, <2>2
  <2>5. \A i \in 1..line' : capture[i] <= maximum_seen'
    <3>1. \A i \in 1..line : capture[i] <= maximum_seen /\ capture[i] \in Int
      BY <1>4, <1>7, <1>2 DEF ReplayInv, ReadInv
    <3> SUFFICES ASSUME NEW i \in 1..line' PROVE capture[i] <= maximum_seen'
      OBVIOUS
    <3>2. CASE i \in 1..line
      BY <1>8, <2>3, <3>1, <3>2
    <3>3. CASE i = line'
      BY <2>3, <3>3
    <3> QED
      BY <1>4, <3>2, <3>3
  <2>6. \E j \in Frames \cap (1..line') : capture[j] = maximum_seen'
    BY <2>2, <2>3, <2>4 DEF ReplayInv, ReadInv, NotAFrame
  <2>7. refused' <=> Late(line')
    <3>1. ASSUME refused' PROVE Late(line')
      <4>1. PICK j \in Frames \cap (1..line') : capture[j] = maximum_seen'
        BY <2>6
      <4>2. capture[line'] < capture[j] - Window
        BY <3>1, <2>1, <4>1
      <4>3. j # line'
        BY <4>2, <2>2, <1>8
      <4>4. j < line'
        BY <4>3, <1>4
      <4> QED
        BY <4>1, <4>2, <4>4 DEF Late
    <3>2. ASSUME Late(line') PROVE refused'
      <4>1. PICK j \in Frames : j < line' /\ capture[line'] < capture[j] - Window
        BY <3>2 DEF Late
      <4>2. j \in 1..line' /\ capture[j] \in Nat
        BY <4>1, <1>4, FrameStamps
      <4>3. capture[j] <= maximum_seen'
        BY <2>5, <4>2
      <4> QED
        BY <4>1, <4>2, <4>3, <2>1, <2>2, <2>3, <1>8
    <3> QED
      BY <3>1, <3>2
  <2>8. refused' \in BOOLEAN
    BY <2>1
  <2>9. \A n \in DOMAIN applied : applied[n] \in Frames \ heap'
    <3>1. \A n \in DOMAIN applied : applied[n] \in Yielded
      BY DEF Yielded
    <3> QED
      BY <1>2, <1>4, <1>5, <2>1, <3>1
  <2>10. ReplayTypeOK'
    BY <1>1, <1>2, <1>3, <1>4, <2>1, <2>2, <2>3, <2>8, <2>9 DEF ReplayTypeOK
  <2>11. ReadInv'
    <3>1. heap' \cup Yielded \subseteq 1..line'
      BY <1>4, <1>5, <2>1
    <3>2. \A i \in heap' \cup Yielded : ~Late(i)
      BY <2>1, <2>7 DEF ReplayInv, ReadInv
    <3>3. \A i \in Frames \cap (1..line') : Late(i) \/ i \in heap' \cup Yielded
      BY <2>1, <2>4, <2>7 DEF ReplayInv, ReadInv
    <3> QED
      BY <1>1, <1>3, <2>5, <2>6, <3>1, <3>2, <3>3, SameInput DEF ReadInv
  <2>12. YieldedInv'
    <3>1. ASSUME NEW i \in Yielded
          PROVE  /\ capture[i] <= maximum_seen' - Window
                 /\ ~refused' => Before(i, line')
      <4>1. capture[i] <= maximum_seen - Window /\ capture[i] \in Nat /\ i \in Nat /\ i < line'
        BY <1>1, <1>4, <1>5, FrameStamps DEF ReplayInv, YieldedInv
      <4>2. ~refused' => capture[line'] >= maximum_seen' - Window
        BY <2>1, <2>2, <2>3, <1>8
      <4> QED
        BY <4>1, <4>2, <2>2, <2>3, <1>8 DEF Before
    <3>2. \A i \in Yielded : \A j \in heap' : Before(i, j)
      BY <2>1, <3>1 DEF ReplayInv, YieldedInv
    <3> QED
      BY <1>1, <1>3, <3>1, <3>2, SameInput DEF YieldedInv, Nothing, End
  <2>13. ReplayInOrder'
    <3>1. refused' => \E i \in Frames : Late(i)
      BY <2>2, <2>7
    <3> QED
      BY <1>1, <1>3, <1>6, <3>1, SameInput DEF ReplayInOrder
  <2> QED
    BY <1>6, <2>10, <2>11, <2>12, <2>13 DEF ReplayInv
<1> QED
  BY <1>9, <1>10

LEMMA YieldStep ==
    ASSUME Recordings, ReplayInv, Yield
    PROVE  ReplayInv'
<1>1. /\ current_frame = Nothing /\ ~refused /\ refused' = refused
      /\ UNCHANGED <<capture, events, line, maximum_seen, applied, samples>>
      /\ UNCHANGED input
  BY DEF Yield, Asked, input
<1>2. /\ applied \in Seq(Nat) /\ samples \in Seq(Nat)
      /\ maximum_seen \in Stamps \cup {NotAFrame}
      /\ line \in 0..Len(capture) /\ heap \subseteq Frames
      /\ \A n \in DOMAIN applied : applied[n] \in Frames \ heap
      /\ Len(samples) <= Len(events)
      /\ \A n \in DOMAIN samples : samples[n] <= Len(applied)
      /\ refused \in BOOLEAN
  BY DEF ReplayInv, ReplayTypeOK
<1>3. Yielded = {applied[m] : m \in DOMAIN applied}
  BY <1>1 DEF Yielded
<1>4. Frames' = Frames /\ AppliedInv' /\ SampleSeesItsPast' /\ ReplayInOrder'
  BY <1>1, SameInput DEF ReplayInv, AppliedInv, MoreEvents, SampleSeesItsPast, ReplayInOrder
<1>5. CASE heap = {}
  <2>1. line = Len(capture) /\ current_frame' = End /\ heap' = heap
    BY <1>5 DEF Yield
  <2>2. Yielded' = Yielded
    BY <1>1, <1>3, <2>1 DEF Yielded
  <2>3. ReplayTypeOK'
    BY <1>1, <1>2, <1>4, <2>1 DEF ReplayTypeOK
  <2>4. ReadInv'
    BY <1>1, <1>4, <2>1, <2>2, SameInput DEF ReplayInv, ReadInv
  <2>5. YieldedInv'
    BY <1>1, <1>5, <2>1, <2>2, SameInput DEF ReplayInv, YieldedInv
  <2> QED
    BY <1>4, <2>3, <2>4, <2>5 DEF ReplayInv
<1>6. CASE heap # {}
  <2>1. /\ Due \/ line = Len(capture)
        /\ current_frame' = Top /\ heap' = heap \ {Top}
    BY <1>6 DEF Yield
  <2>2. Top \in heap /\ \A j \in heap \ {Top} : Before(Top, j)
    BY <1>2, <1>6, TopIsFirst
  <2>3. Top \in Frames /\ Top \in Nat /\ Top # Nothing /\ Top # End
    BY <1>2, <2>2, FrameStamps DEF Nothing, End
  <2>4. Yielded' = Yielded \cup {Top}
    BY <1>1, <1>3, <2>1, <2>3 DEF Yielded
  <2>5. heap' \cup Yielded' = heap \cup Yielded
    BY <2>1, <2>2, <2>4
  <2>6. ReplayTypeOK'
    BY <1>1, <1>2, <1>4, <2>1, <2>3 DEF ReplayTypeOK
  <2>7. ReadInv'
    BY <1>1, <1>4, <2>5, SameInput DEF ReplayInv, ReadInv
  <2>8. YieldedInv'
    <3>1. ASSUME NEW i \in Yielded \cup {Top}
          PROVE  /\ \A j \in heap \ {Top} : Before(i, j)
                 /\ line = Len(capture) \/ capture[i] <= maximum_seen - Window
      BY <2>1, <2>2 DEF ReplayInv, YieldedInv, Due
    <3>2. \A m \in DOMAIN applied : Before(applied[m], Top)
      BY <1>3, <2>2 DEF ReplayInv, YieldedInv
    <3> QED
      BY <1>1, <2>1, <2>3, <2>4, <3>1, <3>2, SameInput DEF YieldedInv
  <2> QED
    BY <1>4, <2>6, <2>7, <2>8 DEF ReplayInv
<1> QED
  BY <1>5, <1>6

-----------------------------------------------------------------------------
(* The loops. *)

LEMMA ApplyStep ==
    ASSUME Recordings, ReplayInv, Apply
    PROVE  ReplayInv'
<1>1. /\ current_frame \notin {Nothing, End} /\ BelongsBefore
      /\ applied' = Append(applied, current_frame) /\ current_frame' = Nothing
      /\ UNCHANGED <<capture, events, line, maximum_seen, heap, samples, refused>>
      /\ UNCHANGED input
  BY DEF Apply, input, generator
<1>2. /\ applied \in Seq(Nat) /\ samples \in Seq(Nat)
      /\ maximum_seen \in Stamps \cup {NotAFrame}
      /\ line \in 0..Len(capture) /\ heap \subseteq Frames
      /\ current_frame \in Frames
      /\ \A n \in DOMAIN applied : applied[n] \in Frames \ heap
      /\ Len(samples) <= Len(events)
      /\ \A n \in DOMAIN samples : samples[n] <= Len(applied)
      /\ refused \in BOOLEAN
  BY <1>1 DEF ReplayInv, ReplayTypeOK
<1>3. current_frame \in Nat /\ capture[current_frame] \in Nat
  BY <1>2, FrameStamps
<1>4. /\ applied' \in Seq(Nat) /\ Len(applied') = Len(applied) + 1 /\ Len(applied) \in Nat
      /\ DOMAIN applied = 1..Len(applied) /\ DOMAIN applied' = 1..Len(applied')
      /\ \A m \in 1..Len(applied) : applied'[m] = applied[m]
      /\ applied'[Len(applied')] = current_frame
      /\ DOMAIN samples = 1..Len(samples) /\ \A n \in DOMAIN samples : samples[n] \in Nat
  BY <1>1, <1>2, <1>3
<1>5. DOMAIN applied' = DOMAIN applied \cup {Len(applied')}
  BY <1>4
<1>6. current_frame \in Yielded /\ current_frame \notin heap
  <2>1. current_frame \in Yielded
    BY <1>1 DEF Yielded
  <2>2. ~Before(current_frame, current_frame)
    BY <1>3 DEF Before
  <2> QED
    BY <2>1, <2>2 DEF ReplayInv, YieldedInv
<1>7. Yielded' = Yielded /\ Frames' = Frames
  <2>1. Yielded' = {applied'[m] : m \in DOMAIN applied'}
    BY <1>1 DEF Yielded
  <2>2. {applied'[m] : m \in DOMAIN applied'} = {applied[m] : m \in DOMAIN applied} \cup {current_frame}
    BY <1>4, <1>5
  <2> QED
    BY <1>1, <2>1, <2>2, SameInput DEF Yielded
<1>8. ReplayTypeOK'
  BY <1>1, <1>2, <1>4, <1>5, <1>6, <1>7 DEF ReplayTypeOK
<1>9. ReadInv'
  BY <1>1, <1>7, SameInput DEF ReplayInv, ReadInv
<1>10. YieldedInv'
  BY <1>1, <1>7, SameInput DEF ReplayInv, YieldedInv, Nothing, End
<1>11. AppliedInv'
  <2> SUFFICES ASSUME MoreEvents', NEW m \in DOMAIN applied'
               PROVE  capture[applied'[m]] <= events[Len(samples) + 1]
    BY <1>1, SameInput DEF AppliedInv
  <2>1. MoreEvents
    BY <1>1 DEF MoreEvents
  <2> QED
    BY <1>1, <1>4, <1>5, <2>1 DEF ReplayInv, AppliedInv, BelongsBefore
<1>12. ReplayInOrder'
  <2>1. ASSUME NEW m \in DOMAIN applied', NEW n \in DOMAIN applied', m < n
        PROVE  Before(applied'[m], applied'[n])
    <3>1. m \in DOMAIN applied
      BY <1>4, <2>1
    <3>2. CASE n \in DOMAIN applied
      BY <1>4, <2>1, <3>1, <3>2 DEF ReplayInv, ReplayInOrder
    <3>3. CASE n = Len(applied')
      BY <1>1, <1>4, <3>1, <3>3 DEF ReplayInv, YieldedInv
    <3> QED
      BY <1>5, <3>2, <3>3
  <2> QED
    BY <1>1, <1>7, <2>1, SameInput DEF ReplayInv, ReplayInOrder
<1>13. SampleSeesItsPast'
  <2>1. ASSUME NEW n \in DOMAIN samples
        PROVE  {applied'[m] : m \in 1..samples[n]} = {applied[m] : m \in 1..samples[n]}
    <3>1. 1..samples[n] \subseteq 1..Len(applied)
      BY <1>2, <1>4
    <3> QED
      BY <1>4, <3>1
  <2> QED
    BY <1>1, <1>7, <2>1, SameInput DEF ReplayInv, SampleSeesItsPast
<1> QED
  BY <1>8, <1>9, <1>10, <1>11, <1>12, <1>13 DEF ReplayInv

LEMMA SampleStep ==
    ASSUME Recordings, ReplayInv, Sample
    PROVE  ReplayInv'
<1>1. /\ MoreEvents /\ current_frame # Nothing /\ (current_frame # End => ~BelongsBefore)
      /\ samples' = Append(samples, Len(applied))
      /\ UNCHANGED <<capture, events, line, maximum_seen, heap, current_frame, applied, refused>>
      /\ UNCHANGED input
  BY DEF Sample, input, generator
<1>2. /\ applied \in Seq(Nat) /\ samples \in Seq(Nat)
      /\ maximum_seen \in Stamps \cup {NotAFrame}
      /\ line \in 0..Len(capture) /\ heap \subseteq Frames
      /\ current_frame \in Frames \cup {End}
      /\ \A n \in DOMAIN applied : applied[n] \in Frames \ heap
      /\ \A n \in DOMAIN samples : samples[n] <= Len(applied)
  BY <1>1 DEF ReplayInv, ReplayTypeOK
<1> DEFINE new == Len(samples) + 1
<1>3. /\ samples' \in Seq(Nat) /\ Len(samples') = new /\ Len(samples) \in Nat
      /\ DOMAIN samples = 1..Len(samples) /\ DOMAIN samples' = 1..new
      /\ \A n \in 1..Len(samples) : samples'[n] = samples[n]
      /\ samples'[new] = Len(applied)
      /\ DOMAIN applied = 1..Len(applied) /\ Len(applied) \in Nat
  BY <1>1, <1>2
<1>4. Yielded' = Yielded /\ Frames' = Frames
  BY <1>1, SameInput DEF Yielded
<1>5. new \in DOMAIN events /\ events[new] \in Nat /\ Len(events) \in Nat
  <2>1. Len(events) \in Nat /\ Len(samples) < Len(events) /\ DOMAIN events = 1..Len(events)
    BY <1>1 DEF MoreEvents, Recordings
  <2>2. new \in DOMAIN events
    BY <1>3, <2>1
  <2>3. events[new] \in Stamps
    BY <2>2 DEF Recordings
  <2> QED
    BY <2>1, <2>2, <2>3, ReplayConstants
<1>6. ReplayTypeOK'
  BY <1>1, <1>2, <1>3, <1>4, <1>5 DEF ReplayInv, ReplayTypeOK, Recordings
<1>7. ReadInv' /\ YieldedInv' /\ ReplayInOrder'
  BY <1>1, <1>4, SameInput DEF ReplayInv, ReadInv, YieldedInv, ReplayInOrder
<1>8. \A m \in DOMAIN applied : capture[applied[m]] <= events[new]
  BY <1>1 DEF ReplayInv, AppliedInv
<1>9. AppliedInv'
  <2> SUFFICES ASSUME MoreEvents', NEW m \in DOMAIN applied
               PROVE  capture[applied[m]] <= events[new + 1]
    BY <1>1, <1>3, SameInput DEF AppliedInv
  <2>1. new + 1 \in DOMAIN events
    BY <1>1, <1>3 DEF MoreEvents, Recordings
  <2>2. events[new] <= events[new + 1] /\ events[new + 1] \in Nat
    <3>1. events[new + 1] \in Stamps
      BY <2>1 DEF Recordings
    <3>2. new <= new + 1
      BY <1>3
    <3>3. events[new] <= events[new + 1]
      BY <1>5, <2>1, <3>2 DEF Recordings, Sorted
    <3> QED
      BY <3>1, <3>3, ReplayConstants
  <2>3. capture[applied[m]] \in Nat
    BY <1>2, FrameStamps
  <2> QED
    BY <1>5, <1>8, <2>2, <2>3
<1>10. {applied[m] : m \in 1..Len(applied)} = {i \in Frames : capture[i] <= events[new] /\ ~Late(i)}
  <2>1. ASSUME NEW m \in 1..Len(applied)
        PROVE  applied[m] \in Frames /\ capture[applied[m]] <= events[new] /\ ~Late(applied[m])
    <3>1. applied[m] \in Yielded
      BY <1>3 DEF Yielded
    <3> QED
      BY <1>2, <1>3, <1>8, <3>1 DEF ReplayInv, ReadInv
  <2>2. ASSUME NEW i \in Frames, capture[i] <= events[new], ~Late(i)
        PROVE  \E m \in 1..Len(applied) : applied[m] = i
    <3> SUFFICES ASSUME i \notin {applied[m] : m \in DOMAIN applied} PROVE FALSE
      BY <1>3
    <3>1. i \in 1..Len(capture) /\ capture[i] \in Nat
      BY FrameStamps
    <3>2. i \in 1..line => i \in heap \/ (current_frame # End /\ i = current_frame)
      BY <1>1, <2>2 DEF ReplayInv, ReadInv, Yielded
    <3>3. CASE current_frame = End
      BY <3>1, <3>2, <3>3 DEF ReplayInv, YieldedInv
    <3>4. CASE current_frame # End
      <4>1. current_frame \in Frames /\ current_frame \in Yielded /\ capture[current_frame] \in Nat
        BY <1>1, <1>2, <3>4, FrameStamps DEF Yielded
      <4>2. events[new] < capture[current_frame]
        BY <1>1, <1>5, <3>4, <4>1 DEF BelongsBefore
      <4>3. i \notin heap
        BY <2>2, <3>1, <4>1, <4>2, <1>5 DEF ReplayInv, YieldedInv, Before
      <4>4. i # current_frame
        BY <2>2, <4>1, <4>2, <1>5
      <4>5. i \notin 1..line
        BY <3>2, <4>3, <4>4
      <4>6. i > line /\ line # Len(capture) /\ line \in Nat
        <5>1. Len(capture) \in Nat
          BY DEF Recordings
        <5>2. line \in Nat /\ line <= Len(capture)
          BY <5>1, <1>2
        <5>3. i \in Nat /\ i >= 1 /\ i <= Len(capture)
          BY <5>1, <3>1
        <5> QED
          BY <5>1, <5>2, <5>3, <4>5
      <4>7. capture[current_frame] <= maximum_seen - Window
        BY <4>1, <4>6 DEF ReplayInv, YieldedInv
      <4>8. maximum_seen # NotAFrame /\ maximum_seen \in Int
        BY <1>2, <4>1, <4>7, ReplayConstants DEF NotAFrame
      <4>9. PICK j \in Frames \cap (1..line) : capture[j] = maximum_seen
        BY <4>8 DEF ReplayInv, ReadInv
      <4>10. capture[i] < capture[j] - Window /\ j < i
        BY <2>2, <3>1, <4>1, <4>2, <4>6, <4>7, <4>8, <4>9, <1>5, ReplayConstants
      <4> QED
        BY <2>2, <4>9, <4>10 DEF Late
    <3> QED
      BY <3>3, <3>4
  <2> QED
    BY <2>1, <2>2
<1>11. SampleSeesItsPast'
  <2>1. \A n \in 1..Len(samples) :
          {applied[m] : m \in 1..samples[n]} = {i \in Frames : capture[i] <= events[n] /\ ~Late(i)}
    BY <1>3 DEF ReplayInv, SampleSeesItsPast
  <2>2. \A n \in 1..new :
          {applied[m] : m \in 1..samples'[n]} = {i \in Frames : capture[i] <= events[n] /\ ~Late(i)}
    <3> SUFFICES ASSUME NEW n \in 1..new
                 PROVE  {applied[m] : m \in 1..samples'[n]}
                          = {i \in Frames : capture[i] <= events[n] /\ ~Late(i)}
      OBVIOUS
    <3>1. CASE n = new
      BY <1>3, <1>10, <3>1
    <3>2. CASE n # new
      <4>1. n \in 1..Len(samples)
        BY <1>3, <3>2
      <4>2. samples'[n] = samples[n]
        BY <1>3, <4>1
      <4> QED
        BY <2>1, <4>1, <4>2
    <3> QED
      BY <3>1, <3>2
  <2> QED
    BY <1>1, <1>3, <1>4, <2>2, SameInput DEF SampleSeesItsPast
<1> QED
  BY <1>6, <1>7, <1>9, <1>11 DEF ReplayInv

LEMMA ReplaySteps ==
    ASSUME Recordings, ReplayInv, [ReplayNext]_rvars
    PROVE  Recordings' /\ ReplayInv'
<1>1. UNCHANGED input
  BY DEF ReplayNext, ReadLine, Yield, Apply, Sample, rvars
<1>2. Recordings'
  BY <1>1 DEF Recordings, input, Sorted
<1>3. CASE UNCHANGED rvars
  <2>1. UNCHANGED <<line, maximum_seen, heap, current_frame, applied, samples, refused>>
    BY <1>3 DEF rvars, generator
  <2>2. capture' = capture /\ events' = events
    BY <1>1 DEF input
  <2>3. Yielded' = Yielded
    BY <2>1 DEF Yielded
  <2>4. ReplayTypeOK'
    BY <1>1, <2>1, <2>2, SameInput DEF ReplayInv, ReplayTypeOK
  <2>5. ReadInv' /\ YieldedInv'
    BY <1>1, <2>1, <2>2, <2>3, SameInput DEF ReplayInv, ReadInv, YieldedInv
  <2>6. AppliedInv' /\ ReplayInOrder' /\ SampleSeesItsPast'
    BY <1>1, <2>1, <2>2, SameInput
       DEF ReplayInv, AppliedInv, MoreEvents, ReplayInOrder, SampleSeesItsPast
  <2> QED
    BY <1>2, <2>4, <2>5, <2>6 DEF ReplayInv
<1> QED
  BY <1>2, <1>3, ReadLineStep, YieldStep, ApplyStep, SampleStep DEF ReplayNext

\* What has been read, put aside and yielded at each point of the generator and its loops.
THEOREM ReplayInvariance == ReplaySpec => []ReplayInv
<1>1. ReplayInit => Recordings /\ ReplayInv
  BY InitialReplay
<1>2. Recordings /\ ReplayInv /\ [ReplayNext]_rvars => Recordings' /\ ReplayInv'
  BY ReplaySteps
<1> QED
  BY <1>1, <1>2, PTL DEF ReplaySpec

\* _iter_can_frames puts every capture in order or refuses it for a line that is late
\* (simulation.py:224-268).
THEOREM ReplayIsInOrder == ReplaySpec => []ReplayInOrder
<1>1. ReplayInv => ReplayInOrder
  BY DEF ReplayInv
<1> QED
  BY <1>1, ReplayInvariance, PTL

\* A reading is compared with exactly the frames of its past, for any window and captures.
THEOREM SamplesSeeTheirPast == ReplaySpec => []SampleSeesItsPast
<1>1. ReplayInv => SampleSeesItsPast
  BY DEF ReplayInv
<1> QED
  BY <1>1, ReplayInvariance, PTL

\* What is in the heap, or in the files and not late, comes after the frame in hand.
LEMMA RestIsLater ==
    ASSUME Recordings, ReplayInv, current_frame \notin {Nothing, End}
    PROVE  /\ current_frame \in Feed!Rest
           /\ \A j \in Feed!Rest \ {current_frame} : Before(current_frame, j)
<1>1. /\ current_frame \in Frames /\ current_frame \in Nat /\ capture[current_frame] \in Nat
      /\ current_frame \in Yielded /\ current_frame \in 1..line /\ ~Late(current_frame)
      /\ line \in 0..Len(capture)
  BY FrameStamps DEF ReplayInv, ReplayTypeOK, ReadInv, Yielded
<1>2. Feed!Rest = {i \in Frames : ~Late(i)} \ {applied[m] : m \in DOMAIN applied}
  BY DEF Feed!Rest, Feed!Held, Feed!Late, Frames, Late
<1>3. \A m \in DOMAIN applied : applied[m] # current_frame
  <2> SUFFICES ASSUME NEW m \in DOMAIN applied, applied[m] = current_frame PROVE FALSE
    OBVIOUS
  <2>1. Before(current_frame, current_frame)
    BY <1>1 DEF ReplayInv, YieldedInv
  <2> QED
    BY <1>1, <2>1 DEF Before
<1>4. ASSUME NEW j \in Feed!Rest \ {current_frame} PROVE Before(current_frame, j)
  <2>1. j \in Frames /\ ~Late(j) /\ j \notin Yielded
    BY <1>2, <1>4 DEF Yielded
  <2>2. j \in 1..Len(capture) /\ capture[j] \in Nat /\ Len(capture) \in Nat
    BY <2>1, FrameStamps DEF Recordings
  <2>3. CASE j \in 1..line
    <3>1. j \in heap
      BY <2>1, <2>3 DEF ReplayInv, ReadInv
    <3> QED
      BY <1>1, <3>1 DEF ReplayInv, YieldedInv
  <2>4. CASE j \notin 1..line
    <3>1. line # Len(capture) /\ current_frame < j
      BY <1>1, <2>2, <2>4
    <3>2. capture[current_frame] <= maximum_seen - Window
      BY <1>1, <3>1 DEF ReplayInv, YieldedInv
    <3>3. maximum_seen # NotAFrame
      BY <1>1, <3>2, ReplayConstants DEF NotAFrame
    <3>4. PICK k \in Frames \cap (1..line) : capture[k] = maximum_seen
      BY <3>3 DEF ReplayInv, ReadInv
    <3>5. capture[k] \in Nat /\ k < j
      BY <1>1, <2>2, <2>4, <3>4, FrameStamps
    <3>6. ~(capture[j] < capture[k] - Window)
      BY <2>1, <3>4, <3>5 DEF Late
    <3> QED
      BY <1>1, <2>2, <3>1, <3>2, <3>4, <3>5, <3>6, ReplayConstants DEF Before
  <2> QED
    BY <2>3, <2>4
<1> QED
  BY <1>1, <1>2, <1>3, <1>4

\* When the generator has ended, every frame that is not late has been applied.
LEMMA NothingRests ==
    ASSUME Recordings, ReplayInv, current_frame = End
    PROVE  Feed!Rest = {}
<1>1. Feed!Rest = {i \in Frames : ~Late(i)} \ {applied[m] : m \in DOMAIN applied}
  BY DEF Feed!Rest, Feed!Held, Feed!Late, Frames, Late
<1>2. heap = {} /\ line = Len(capture)
  BY DEF ReplayInv, YieldedInv
<1>3. Yielded = {applied[m] : m \in DOMAIN applied}
  BY DEF Yielded
<1>4. Frames \cap (1..line) = Frames
  BY <1>2, FrameStamps
<1> QED
  BY <1>1, <1>2, <1>3, <1>4 DEF ReplayInv, ReadInv

\* Each step of the replay is one of the feed or none: reading a line gives the recording
\* up or changes nothing the cache could tell.
LEMMA FeedStep ==
    ASSUME Recordings, ReplayInv, ReplayInv', [ReplayNext]_rvars
    PROVE  [Feed!Next]_(Feed!fvars)
<1>1. CASE ReadLine
  <2>1. UNCHANGED <<capture, events, applied, samples>> /\ ~refused
    BY <1>1 DEF ReadLine, Asked, input
  <2>2. CASE refused'
    <3>1. \E i \in Frames' : Late(i)'
      BY <2>2 DEF ReplayInv, ReplayInOrder
    <3>2. \E i \in Feed!Held : Feed!Late(i)
      BY <2>1, <3>1 DEF Frames, Late, Feed!Held, Feed!Late
    <3>3. refused' = TRUE
      BY <2>2 DEF ReplayInv, ReplayTypeOK
    <3> QED
      BY <2>1, <3>2, <3>3 DEF Feed!Next, Feed!GiveUp
  <2>3. CASE ~refused'
    <3>1. refused' = refused
      BY <2>1, <2>3 DEF ReplayInv, ReplayTypeOK
    <3> QED
      BY <2>1, <3>1 DEF Feed!fvars
  <2> QED
    BY <2>2, <2>3
<1>2. CASE Yield
  BY <1>2 DEF Yield, input, Feed!fvars
<1>3. CASE Apply
  <2>1. /\ current_frame \notin {Nothing, End} /\ BelongsBefore
        /\ applied' = Append(applied, current_frame)
        /\ UNCHANGED <<capture, events, samples, refused>>
    BY <1>3 DEF Apply, input
  <2>2. ~refused
    BY <2>1 DEF ReplayInv, ReadInv
  <2>3. current_frame \in Feed!Rest
    BY <2>1, RestIsLater
  <2>4. \A j \in Feed!Rest \ {current_frame} : Feed!Sooner(current_frame, j)
    BY <2>1, RestIsLater DEF Before, Feed!Sooner
  <2>5. Feed!Awaited => capture[current_frame] <= Feed!Reading
    BY <2>1 DEF BelongsBefore, MoreEvents, Feed!Awaited, Feed!Reading
  <2> QED
    BY <2>1, <2>2, <2>3, <2>4, <2>5 DEF Feed!Next, Feed!Give
<1>4. CASE Sample
  <2>1. /\ MoreEvents /\ current_frame # Nothing
        /\ current_frame # End => ~BelongsBefore
        /\ samples' = Append(samples, Len(applied))
        /\ UNCHANGED <<capture, events, applied, refused>>
    BY <1>4 DEF Sample, input
  <2>2. ~refused /\ Feed!Awaited
    BY <2>1 DEF ReplayInv, ReadInv, MoreEvents, Feed!Awaited
  <2>3. \A i \in Feed!Rest : capture[i] > Feed!Reading
    <3>1. CASE current_frame = End
      BY <3>1, NothingRests
    <3>2. CASE current_frame # End
      <4>1. current_frame \in Feed!Rest /\ \A j \in Feed!Rest \ {current_frame} : Before(current_frame, j)
        BY <2>1, <3>2, RestIsLater
      <4>2. ~(capture[current_frame] <= Feed!Reading)
        BY <2>1, <3>2 DEF BelongsBefore, Feed!Reading
      <4>3. \A i \in Feed!Rest : capture[i] \in Nat
        BY FrameStamps DEF Feed!Rest, Feed!Held, Frames
      <4>4. Feed!Reading \in Nat
        <5>1. Len(samples) \in Nat /\ Len(events) \in Nat /\ Len(samples) < Len(events)
          BY <2>1 DEF ReplayInv, ReplayTypeOK, MoreEvents, Recordings
        <5>2. Len(samples) + 1 \in DOMAIN events
          BY <5>1 DEF Recordings
        <5> QED
          BY <5>2, ReplayConstants DEF Recordings, Feed!Reading
      <4>5. \A i \in Feed!Rest : capture[current_frame] <= capture[i]
        BY <4>1, <4>3 DEF Before
      <4> QED
        BY <4>1, <4>2, <4>3, <4>4, <4>5
    <3> QED
      BY <3>1, <3>2
  <2> QED
    BY <2>1, <2>2, <2>3 DEF Feed!Next, Feed!Sample
<1>5. CASE UNCHANGED rvars
  BY <1>5 DEF rvars, input, Feed!fvars
<1> QED
  BY <1>1, <1>2, <1>3, <1>4, <1>5 DEF ReplayNext

\* With its window, its heap and its generator the replay is an ordered feed, for any
\* captures, stamps and window.
THEOREM ReplayIsAnOrderedFeed == ReplaySpec => ImplementsOrderedFeed
<1>1. ReplayInit => Recordings /\ ReplayInv /\ Feed!Init
  BY InitialReplay DEF ReplayInit, Feed!Init
<1>2. Recordings /\ ReplayInv /\ [ReplayNext]_rvars => Recordings' /\ ReplayInv'
  BY ReplaySteps
<1>3. Recordings /\ ReplayInv /\ ReplayInv' /\ [ReplayNext]_rvars => [Feed!Next]_(Feed!fvars)
  BY FeedStep
<1> QED
  BY <1>1, <1>2, <1>3, PTL DEF ReplaySpec, ImplementsOrderedFeed, Feed!Spec

-----------------------------------------------------------------------------
(* The system TLC checks: the three side by side. *)

\* What TLC checks is a behaviour of each of the three.
LEMMA InputsOfThree == MCSpec => LocatorRunsSpec /\ LayoutSpec /\ ReplaySpec
<1>1. MCInit => LocatorRunsInit /\ LayoutInit /\ ReplayInit
  BY DEF MCInit
<1>2. [MCNext]_<<part, lhvars, ivars, rvars>> =>
        [LocatorRunsNext]_lhvars /\ [LayoutNext]_ivars /\ [ReplayNext]_rvars
  BY DEF MCNext
<1> QED
  BY <1>1, <1>2, PTL DEF MCSpec, LocatorRunsSpec, LayoutSpec, ReplaySpec

\* The types of the locator, of the id layout and of the replay, for any names, packs and
\* captures.
THEOREM InputsTypes == MCSpec => []InputsTypeOK
<1>1. LocatorInv => LocatorTypeOK
  BY DEF LocatorInv
<1>2. LayoutInv => LayoutTypeOK
  BY DEF LayoutInv
<1>3. ReplayInv => ReplayTypeOK
  BY DEF ReplayInv
<1>4. LocatorTypeOK /\ LayoutTypeOK /\ ReplayTypeOK => InputsTypeOK
  BY DEF InputsTypeOK
<1> QED
  BY <1>1, <1>2, <1>3, <1>4, InputsOfThree, LocatorInvariance, LayoutInvariance,
     ReplayInvariance, PTL
====
