----------------------------- MODULE PublisherProofs -----------------------------
(***************************************************************************)
(* Proofs about PublisherRuns, for any waits, any socket and any wall      *)
(* clock.                                                                  *)
(***************************************************************************)
EXTENDS PublisherRuns, TLAPS

LEMMA TimesAreNat ==
    /\ StartupReady \in Nat /\ ReconnectReady \in Nat /\ Freshness \in Nat /\ BlockMax \in Nat
    /\ ResolveMax \in Nat /\ MaxTime \in Nat /\ Period \in Nat /\ Period >= 1 /\ RcvBuf \in Nat
    /\ RcvBuf >= 1 /\ WallOffsets \subseteq Nat
  BY PublisherTimesAssumption, RcvBufAssumption, WallAssumption

LEMMA PauseIsMax == Pause \in Nat /\ Pause >= Period /\ Pause >= BlockMax
  BY TimesAreNat DEF Later, Pause

LEMMA WhatIsOnBus ==
    /\ Unregistered \in BusType /\ Unregistered.registered = FALSE /\ Unregistered.connected = FALSE
    /\ \A c \in BOOLEAN, s \in Time \cup {None}, m \in Time :
         LET b == [registered |-> TRUE, connected |-> c, sent |-> s, at |-> m]
         IN  b \in BusType /\ b.registered = TRUE /\ b.connected = c /\ b.sent = s /\ b.at = m
  BY DEF Unregistered, BusType

LEMMA BusFields ==
    ASSUME bus \in BusType
    PROVE  /\ bus.registered \in BOOLEAN /\ bus.connected \in BOOLEAN
           /\ bus.sent \in Time \cup {None} /\ bus.at \in Time \cup {None}
  BY DEF BusType

\* What the types say of single numbers, and of pc.
Scalars ==
    /\ mono \in Nat /\ mono <= MaxTime /\ began \in Nat /\ began <= MaxTime
    /\ anchor \in Nat /\ now \in Nat /\ wall \in Nat
    /\ stamp = -1 \/ stamp \in Nat
    /\ sent = -1 \/ (sent \in Nat /\ sent <= MaxTime)
    /\ chosen = -1 \/ (chosen \in Nat /\ chosen <= MaxTime)
    /\ bus.at = -1 \/ bus.at \in Nat
    /\ bus.sent = -1 \/ bus.sent \in Nat
    /\ bus.registered \in BOOLEAN /\ bus.connected \in BOOLEAN /\ connected \in BOOLEAN
    /\ bms \in {-255, 0} /\ answer \in {-255, 0, -1}
    /\ mode \in {"normal", "discovery", "stage"}
    /\ watching \in BOOLEAN
    /\ pc \in {"drained", "timed", "stepped", "down", "waiting", "announcing", "resolving",
              "failed"}
    /\ bus.registered => pc \in {"drained", "timed", "stepped", "waiting", "announcing", "failed"}

LEMMA TypesOfScalars == PublisherTypeOK => Scalars
  BY TimesAreNat, BusFields
     DEF PublisherTypeOK, Scalars, Time, Rounds, Modes, None, NoControl, AnyBattery

LEMMA TypesOfScalarsNext == PublisherTypeOK' => Scalars'
  BY TypesOfScalars, PTL

LEMMA QueueIsSequence ==
    ASSUME PublisherTypeOK
    PROVE  queue \in Seq(Time) /\ Len(queue) \in Nat /\ \A i \in 1..Len(queue) : queue[i] \in Time
  BY DEF PublisherTypeOK

\* What time may pass.
LEMMA PatienceBounds ==
    ASSUME PublisherTypeOK, began <= mono, mono - began < Patience
    PROVE  /\ pc = "waiting" => mono - began < Period
           /\ pc = "waiting" /\ ~bus.registered => queue = <<>>
           /\ pc = "announcing" => mono - began < BlockMax
           /\ pc \in Rounds => mono - began < BlockMax
           /\ pc = "resolving" => mono - began < ResolveMax
           /\ pc # "failed"
  BY TimesAreNat, TypesOfScalars DEF Scalars, Patience, Wakes, Rounds, AsksFirst

\* Reading the clock never moves it back.
LEMMA AnchorForward ==
    ASSUME PublisherTypeOK
    PROVE  Anchor \in Nat /\ Anchor >= anchor
  BY TimesAreNat DEF PublisherTypeOK, Anchor

\* Taking a frame out: an empty queue changes nothing that is kept of frames.
LEMMA DrainTypes ==
    ASSUME PublisherTypeOK, QueueInv, CacheInv, Drain
    PROVE  /\ queue' = <<>> /\ anchor' \in Nat /\ anchor' >= anchor
           /\ stamp' \in Nat \cup {None} /\ sent' \in Time \cup {None}
           /\ stamp' = None <=> sent' = None
           /\ \/ stamp' = stamp /\ sent' = sent
              \/ /\ Len(queue) \in 1..Len(queue)
                 /\ sent' = queue[Len(queue)] /\ sent' \in 0..mono
                 /\ stamp' = mono + anchor'
<1>1. CASE queue = <<>>
  BY <1>1 DEF Drain, cache, PublisherTypeOK, CacheInv
<1>2. CASE queue # <<>>
  <2>1. queue \in Seq(Time) /\ Len(queue) \in Nat /\ Len(queue) > 0
    BY <1>2 DEF PublisherTypeOK
  <2>2. Len(queue) \in 1..Len(queue) /\ queue[Len(queue)] \in Time
    BY <2>1
  <2>3. queue[Len(queue)] \in 0..mono
    BY <2>2 DEF QueueInv
  <2> QED
    BY <1>2, <2>2, <2>3, AnchorForward DEF Drain, PublisherTypeOK, Time, None
<1> QED
  BY <1>1, <1>2

\* A frame that is stamped now waited for as long as it was sent ago.
LEMMA StampedNow ==
    ASSUME NEW m \in Nat, NEW a \in Nat, NEW t \in 0..m, NEW w \in Nat, m - t <= w
    PROVE  (m + a) - a <= t + w
  OBVIOUS

\* What one step of the shadow does, seen from outside.
LEMMA SampleFacts ==
    ASSUME PublisherTypeOK, NEW known \in BOOLEAN, Shadow!Sample(known /\ fresh)
    PROVE  /\ run' \in Nat \cup {None} /\ connected' \in BOOLEAN /\ ever' \in BOOLEAN
           /\ now' = now /\ (connected' => fresh /\ ever') /\ (ever => ever')
  BY DEF Shadow!Sample, Shadow!NoRun, PublisherTypeOK, None

LEMMA Initially == PInit => PubInv
<1> SUFFICES ASSUME PInit PROVE PubInv
  OBVIOUS
<1> USE TimesAreNat, WhatIsOnBus DEF PInit, Init
<1>1. PublisherTypeOK
  <2>1. queue \in Seq(Time) /\ Len(queue) <= RcvBuf
    OBVIOUS
  <2>2. bus \in BusType /\ ~bus.registered
    OBVIOUS
  <2>3. mono \in Time /\ began \in Time
    BY DEF Time
  <2> QED
    BY <2>1, <2>2, <2>3 DEF PublisherTypeOK, Time, Rounds, None
<1>2. RoundInv /\ QueueInv /\ CacheInv /\ StepInv /\ ChosenInv /\ PublishedDataAge
  BY DEF RoundInv, QueueInv, CacheInv, StepInv, ChosenInv, PublishedDataAge, Rounds
<1> QED
  BY <1>1, <1>2 DEF PubInv

-----------------------------------------------------------------------------
(* The steps. *)

LEMMA TickStep ==
    ASSUME PubInv, Tick, PNext
    PROVE  PubInv'
<1> USE TimesAreNat, PauseIsMax
<1>0. /\ PublisherTypeOK /\ began <= mono
      /\ RoundInv /\ QueueInv /\ CacheInv /\ StepInv /\ ChosenInv /\ PublishedDataAge
  BY DEF PubInv
<1>c. chosen' = IF mode' = "normal" \/ bms' = NoControl \/ ~bus'.registered THEN None
                ELSE IF chosen = None THEN mono' ELSE chosen
  BY DEF PNext
<1>1. PublisherTypeOK' /\ (began <= mono)'
  BY <1>0, PatienceBounds, <1>c
     DEF PublisherTypeOK, StepInv, Tick, vars, env, sock, cache, shadow, Time, Rounds, None,
         Modes, RoundInv
<1>s. Scalars /\ Scalars'
  BY <1>0, PatienceBounds, <1>1, TypesOfScalars, TypesOfScalarsNext
<1>2. RoundInv'
  BY <1>0, PatienceBounds, <1>s
     DEF Scalars, RoundInv, Tick, vars, env, sock, cache, shadow, Rounds
<1>3. QueueInv'
  BY <1>0, PatienceBounds, <1>1
     DEF PublisherTypeOK, RoundInv, QueueInv, Wait, Tick, vars, env, sock, cache, shadow, Time,
         Rounds
<1>4. CacheInv'
  BY <1>0, PatienceBounds, <1>s
     DEF Scalars, CacheInv, QueueInv, Wait, Tick, vars, env, sock, cache, shadow, None
<1>5. StepInv'
  BY <1>0, PatienceBounds, <1>s
     DEF Scalars, StepInv, CacheInv, RoundInv, Wait, fresh, Tick, vars, env, sock, cache,
         shadow, Rounds, None
<1>6. ChosenInv'
  <2>1. UNCHANGED <<bms, bus, pc, mode, began, answer>> /\ mono' = mono + 1 /\ chosen' = chosen
    BY <1>0, <1>c DEF Tick, ChosenInv
  <2>2. pc \in {"waiting", "announcing"} => mono - began < Pause
    BY <1>0, <1>s, PatienceBounds DEF Tick, Scalars
  <2> QED
    BY <1>0, <1>s, <2>1, <2>2, PatienceBounds DEF Scalars, Tick, ChosenInv, None
<1>7. PublishedDataAge'
  BY <1>0, PatienceBounds, <1>s
     DEF Scalars, PublishedDataAge, DataAgeLimit, StepInv, CacheInv, RoundInv, Wait, fresh,
         Tick, vars, env, sock, cache, shadow, Rounds, None
<1> QED
  BY <1>1, <1>2, <1>3, <1>4, <1>5, <1>6, <1>7 DEF PubInv

LEMMA SetWallStep ==
    ASSUME PubInv, SetWall, PNext
    PROVE  PubInv'
<1> USE TimesAreNat, PauseIsMax
<1>0. /\ PublisherTypeOK /\ began <= mono
      /\ RoundInv /\ QueueInv /\ CacheInv /\ StepInv /\ ChosenInv /\ PublishedDataAge
  BY DEF PubInv
<1>c. chosen' = IF mode' = "normal" \/ bms' = NoControl \/ ~bus'.registered THEN None
                ELSE IF chosen = None THEN mono' ELSE chosen
  BY DEF PNext
<1>1. PublisherTypeOK' /\ (began <= mono)'
  BY <1>0, <1>c
     DEF PublisherTypeOK, StepInv, SetWall, vars, env, sock, cache, shadow, Time, Rounds, None,
         Modes, RoundInv
<1>s. Scalars /\ Scalars'
  BY <1>0, <1>1, TypesOfScalars, TypesOfScalarsNext
<1>2. RoundInv'
  BY <1>0, <1>s DEF Scalars, RoundInv, SetWall, vars, env, sock, cache, shadow, Rounds
<1>3. QueueInv'
  BY <1>0, <1>1
     DEF PublisherTypeOK, RoundInv, QueueInv, Wait, SetWall, vars, env, sock, cache, shadow,
         Time, Rounds
<1>4. CacheInv'
  BY <1>0, <1>s
     DEF Scalars, CacheInv, QueueInv, Wait, SetWall, vars, env, sock, cache, shadow, None
<1>5. StepInv'
  BY <1>0, <1>s
     DEF Scalars, StepInv, CacheInv, RoundInv, Wait, fresh, SetWall, vars, env, sock, cache,
         shadow, Rounds, None
<1>6. ChosenInv'
  BY <1>0, <1>s, <1>c
     DEF Scalars, RoundInv, ChosenInv, SetWall, vars, env, sock, cache, shadow, Rounds, None,
         NoControl, AnyBattery
<1>7. PublishedDataAge'
  BY <1>0, <1>s
     DEF Scalars, PublishedDataAge, DataAgeLimit, StepInv, CacheInv, RoundInv, Wait, fresh,
         SetWall, vars, env, sock, cache, shadow, Rounds, None
<1> QED
  BY <1>1, <1>2, <1>3, <1>4, <1>5, <1>6, <1>7 DEF PubInv

LEMMA SelectStep ==
    ASSUME PubInv, Select, PNext
    PROVE  PubInv'
<1> USE TimesAreNat, PauseIsMax
<1>0. /\ PublisherTypeOK /\ began <= mono
      /\ RoundInv /\ QueueInv /\ CacheInv /\ StepInv /\ ChosenInv /\ PublishedDataAge
  BY DEF PubInv
<1>c. chosen' = IF mode' = "normal" \/ bms' = NoControl \/ ~bus'.registered THEN None
                ELSE IF chosen = None THEN mono' ELSE chosen
  BY DEF PNext
<1>1. PublisherTypeOK' /\ (began <= mono)'
  BY <1>0, <1>c
     DEF PublisherTypeOK, StepInv, Select, vars, env, sock, cache, shadow, Time, Rounds, None,
         Modes, RoundInv
<1>s. Scalars /\ Scalars'
  BY <1>0, <1>1, TypesOfScalars, TypesOfScalarsNext
<1>2. RoundInv'
  BY <1>0, <1>s DEF Scalars, RoundInv, Select, vars, env, sock, cache, shadow, Rounds
<1>3. QueueInv'
  BY <1>0, <1>1
     DEF PublisherTypeOK, RoundInv, QueueInv, Wait, Select, vars, env, sock, cache, shadow,
         Time, Rounds
<1>4. CacheInv'
  BY <1>0, <1>s
     DEF Scalars, CacheInv, QueueInv, Wait, Select, vars, env, sock, cache, shadow, None
<1>5. StepInv'
  BY <1>0, <1>s
     DEF Scalars, StepInv, CacheInv, RoundInv, Wait, fresh, Select, vars, env, sock, cache,
         shadow, Rounds, None
<1>6. ChosenInv'
  <2>1. UNCHANGED <<mono, bus, pc, mode, began, answer>> /\ bms' \in {NoControl, AnyBattery}
    BY DEF Select
  <2>2. CASE chosen' = None
    BY <1>0, <1>s, <1>c, <2>1, <2>2 DEF Scalars, ChosenInv, None
  <2>3. CASE chosen' = chosen /\ chosen # None
    BY <1>0, <1>s, <1>c, <2>1, <2>3 DEF Scalars, ChosenInv, None, NoControl
  <2>4. CASE chosen' = mono /\ chosen = None
    BY <1>0, <1>s, <1>c, <2>1, <2>4 DEF Scalars, ChosenInv, RoundInv, Rounds, None, NoControl
  <2> QED
    BY <1>c, <2>1, <2>2, <2>3, <2>4
<1>7. PublishedDataAge'
  BY <1>0, <1>s
     DEF Scalars, PublishedDataAge, DataAgeLimit, StepInv, CacheInv, RoundInv, Wait, fresh,
         Select, vars, env, sock, cache, shadow, Rounds, None
<1> QED
  BY <1>1, <1>2, <1>3, <1>4, <1>5, <1>6, <1>7 DEF PubInv

LEMMA ArriveStep ==
    ASSUME PubInv, Arrive, PNext
    PROVE  PubInv'
<1> USE TimesAreNat, PauseIsMax
<1>0. /\ PublisherTypeOK /\ began <= mono
      /\ RoundInv /\ QueueInv /\ CacheInv /\ StepInv /\ ChosenInv /\ PublishedDataAge
  BY DEF PubInv
<1>c. chosen' = IF mode' = "normal" \/ bms' = NoControl \/ ~bus'.registered THEN None
                ELSE IF chosen = None THEN mono' ELSE chosen
  BY DEF PNext
<1>1. PublisherTypeOK' /\ (began <= mono)'
  BY <1>0, <1>c
     DEF PublisherTypeOK, StepInv, Arrive, vars, env, sock, cache, shadow, Time, Rounds, None,
         Modes, RoundInv
<1>s. Scalars /\ Scalars'
  BY <1>0, <1>1, TypesOfScalars, TypesOfScalarsNext
<1>2. RoundInv'
  BY <1>0, <1>s DEF Scalars, RoundInv, Arrive, vars, env, sock, cache, shadow, Rounds
<1>3. QueueInv'
  <2>1. /\ queue' = Append(queue, mono) /\ UNCHANGED <<mono, pc, began, bus>> /\ Wait' = Wait
        /\ mono \in Nat /\ began \in Nat /\ Wait \in Nat /\ began <= mono
    BY <1>0, <1>s DEF Arrive, env, Wait, Scalars
  <2>2. /\ queue \in Seq(Time) /\ Len(queue) \in Nat /\ Len(queue') = Len(queue) + 1
        /\ \A i \in 1..Len(queue) : queue'[i] = queue[i]
        /\ queue'[Len(queue) + 1] = mono
    BY <1>0, <2>1 DEF PublisherTypeOK
  <2> SUFFICES ASSUME NEW i \in 1..Len(queue')
               PROVE  /\ queue'[i] \in 0..mono
                      /\ pc \in Rounds => queue'[i] >= began
                      /\ pc = "waiting" /\ ~bus.registered => mono - queue'[i] <= BlockMax
                      /\ pc = "resolving" => began - queue'[i] <= BlockMax
                      /\ pc \in {"waiting", "announcing"} /\ bus.registered =>
                            began - queue'[i] <= BlockMax + ResolveMax
    BY <2>1 DEF QueueInv
  <2>3. CASE i \in 1..Len(queue)
    <3>1. queue'[i] = queue[i]
      BY <2>2, <2>3
    <3> QED
      BY <1>0, <2>3, <3>1 DEF QueueInv
  <2>4. CASE i = Len(queue) + 1
    BY <2>1, <2>2, <2>4
  <2> QED
    BY <2>2, <2>3, <2>4
<1>4. CacheInv'
  BY <1>0, <1>s
     DEF Scalars, CacheInv, QueueInv, Wait, Arrive, vars, env, sock, cache, shadow, None
<1>5. StepInv'
  BY <1>0, <1>s
     DEF Scalars, StepInv, CacheInv, RoundInv, Wait, fresh, Arrive, vars, env, sock, cache,
         shadow, Rounds, None
<1>6. ChosenInv'
  BY <1>0, <1>s, <1>c
     DEF Scalars, RoundInv, ChosenInv, Arrive, vars, env, sock, cache, shadow, Rounds, None,
         NoControl, AnyBattery
<1>7. PublishedDataAge'
  BY <1>0, <1>s
     DEF Scalars, PublishedDataAge, DataAgeLimit, StepInv, CacheInv, RoundInv, Wait, fresh,
         Arrive, vars, env, sock, cache, shadow, Rounds, None
<1> QED
  BY <1>1, <1>2, <1>3, <1>4, <1>5, <1>6, <1>7 DEF PubInv

LEMMA StartStep ==
    ASSUME PubInv, Start, PNext
    PROVE  PubInv'
<1> USE TimesAreNat, PauseIsMax
<1>0. /\ PublisherTypeOK /\ began <= mono
      /\ RoundInv /\ QueueInv /\ CacheInv /\ StepInv /\ ChosenInv /\ PublishedDataAge
  BY DEF PubInv
<1>c. chosen' = IF mode' = "normal" \/ bms' = NoControl \/ ~bus'.registered THEN None
                ELSE IF chosen = None THEN mono' ELSE chosen
  BY DEF PNext
<1>1. PublisherTypeOK' /\ (began <= mono)'
  BY <1>0, <1>c
     DEF PublisherTypeOK, StepInv, Start, vars, env, sock, cache, shadow, Time, Rounds, None,
         Modes, RoundInv
<1>s. Scalars /\ Scalars'
  BY <1>0, <1>1, TypesOfScalars, TypesOfScalarsNext
<1>2. RoundInv'
  BY <1>0, <1>s DEF Scalars, RoundInv, Start, vars, env, sock, cache, shadow, Rounds
<1>3. QueueInv'
  <2>1. queue' = <<>>
    BY <1>0 DEF CacheInv, Start, sock
  <2> QED
    BY <2>1 DEF QueueInv
<1>4. CacheInv'
  BY <1>0, <1>s DEF Scalars, CacheInv, QueueInv, Wait, Start, vars, env, sock, cache, shadow, None
<1>5. StepInv'
  BY <1>0, <1>s
     DEF Scalars, StepInv, CacheInv, RoundInv, Wait, fresh, Start, vars, env, sock, cache,
         shadow, Rounds, None
<1>6. ChosenInv'
  BY <1>0, <1>s, <1>c
     DEF Scalars, RoundInv, ChosenInv, Start, vars, env, sock, cache, shadow, Rounds, None,
         NoControl, AnyBattery
<1>7. PublishedDataAge'
  BY <1>0, <1>s
     DEF Scalars, PublishedDataAge, DataAgeLimit, StepInv, CacheInv, RoundInv, Wait, fresh,
         Start, vars, env, sock, cache, shadow, Rounds, None
<1> QED
  BY <1>1, <1>2, <1>3, <1>4, <1>5, <1>6, <1>7 DEF PubInv

\* A frame that waits for the loop has waited no longer than it may.
LEMMA WaitIsBounded ==
    ASSUME PubInv, pc = "waiting", NEW i \in 1..Len(queue)
    PROVE  mono - queue[i] <= Wait
<1>1. Scalars /\ RoundInv /\ QueueInv
  BY TypesOfScalars DEF PubInv
<1>2. queue[i] \in 0..mono
  BY <1>1 DEF QueueInv
<1>3. CASE bus.registered
  <2>1. began - queue[i] <= BlockMax + ResolveMax /\ mono - began <= Pause
    BY <1>1, <1>3 DEF QueueInv, RoundInv
  <2> QED
    BY <1>1, <1>2, <1>3, <2>1, TimesAreNat, PauseIsMax DEF Scalars, Wait
<1>4. CASE ~bus.registered
  BY <1>1, <1>4 DEF QueueInv, Wait
<1> QED
  BY <1>3, <1>4

LEMMA WatchStep ==
    ASSUME PubInv, Watch, PNext
    PROVE  PubInv'
<1> USE TimesAreNat, PauseIsMax
<1>0. /\ PublisherTypeOK /\ began <= mono
      /\ RoundInv /\ QueueInv /\ CacheInv /\ StepInv /\ ChosenInv /\ PublishedDataAge
  BY DEF PubInv
<1>c. chosen' = IF mode' = "normal" \/ bms' = NoControl \/ ~bus'.registered THEN None
                ELSE IF chosen = None THEN mono' ELSE chosen
  BY DEF PNext
<1>d. /\ Drain /\ queue' = <<>> /\ anchor' \in Nat /\ anchor' >= anchor
      /\ stamp' \in Nat \cup {None} /\ sent' \in Time \cup {None}
      /\ stamp' = None <=> sent' = None
      /\ \/ stamp' = stamp /\ sent' = sent
         \/ sent' \in 0..mono /\ mono - sent' <= Wait /\ stamp' = mono + anchor'
  <2>1. Drain /\ pc = "waiting"
    BY DEF Watch
  <2>2. ASSUME Len(queue) \in 1..Len(queue), sent' = queue[Len(queue)]
        PROVE  mono - sent' <= Wait
    BY <2>1, <2>2, WaitIsBounded
  <2> QED
    BY <1>0, <2>1, <2>2, DrainTypes
<1>1. PublisherTypeOK' /\ (began <= mono)'
  <2>1. queue' \in Seq(Time) /\ Len(queue') <= RcvBuf
    BY <1>d
  <2>2. UNCHANGED <<mono, wall, bms, watching, mode, bus, now, run, connected, ever, answer>>
    BY DEF Watch, env, shadow
  <2>3. /\ began' \in {began, mono} /\ mono \in Time /\ began \in Time
        /\ pc' \in {"waiting", "drained"}
    BY <1>0 DEF Watch, PublisherTypeOK
  <2>4. chosen' \in Time \cup {None}
    BY <1>0, <1>c, <2>2 DEF PublisherTypeOK
  <2>5. mono \in Nat /\ began \in Nat
    BY <1>0, TypesOfScalars DEF Scalars
  <2> QED
    BY <1>0, <1>d, <2>1, <2>2, <2>3, <2>4, <2>5 DEF PublisherTypeOK, Rounds
<1>s. Scalars /\ Scalars'
  BY <1>0, <1>1, TypesOfScalars, TypesOfScalarsNext
<1>2. RoundInv'
  BY <1>0, <1>s DEF Scalars, RoundInv, Watch, vars, env, sock, cache, shadow, Rounds
<1>3. QueueInv'
  BY <1>d DEF QueueInv
<1>4. CacheInv'
  <2>1. pc = "waiting" /\ pc' # "down" /\ Wait' = Wait /\ mono' = mono
    BY DEF Watch, Wait, env
  <2>2. /\ mono \in Nat /\ Wait \in Nat /\ anchor \in Nat /\ anchor' \in Nat /\ anchor' >= anchor
        /\ stamp = None \/ stamp \in Nat
        /\ sent = None \/ sent \in Nat
    BY <1>s, <1>d DEF Scalars, Wait, None
  <2>3. stamp' # None => stamp' - anchor' <= sent' + Wait
    <3>1. CASE stamp' = stamp /\ sent' = sent
      <4>1. stamp # None => stamp - anchor <= sent + Wait /\ sent # None
        BY <1>0 DEF CacheInv
      <4> QED
        BY <2>2, <3>1, <4>1 DEF None
    <3>2. CASE sent' \in 0..mono /\ mono - sent' <= Wait /\ stamp' = mono + anchor'
      BY <2>2, <3>2, StampedNow
    <3> QED
      BY <1>d, <3>1, <3>2
  <2> QED
    BY <1>d, <2>1, <2>3 DEF CacheInv
<1>5. StepInv'
  BY <1>0, <1>s
     DEF Scalars, StepInv, CacheInv, RoundInv, Wait, fresh, Watch, vars, env, sock, cache,
         shadow, Rounds, None
<1>6. ChosenInv'
  BY <1>0, <1>s, <1>c
     DEF Scalars, RoundInv, ChosenInv, Watch, vars, env, sock, cache, shadow, Rounds, None,
         NoControl, AnyBattery
<1>7. PublishedDataAge'
  BY <1>0, <1>s
     DEF Scalars, PublishedDataAge, DataAgeLimit, StepInv, CacheInv, RoundInv, Wait, fresh,
         Watch, vars, env, sock, cache, shadow, Rounds, None
<1> QED
  BY <1>1, <1>2, <1>3, <1>4, <1>5, <1>6, <1>7 DEF PubInv

LEMMA WatchFailsStep ==
    ASSUME PubInv, WatchFails, PNext
    PROVE  PubInv'
<1> USE TimesAreNat, PauseIsMax
<1>0. /\ PublisherTypeOK /\ began <= mono
      /\ RoundInv /\ QueueInv /\ CacheInv /\ StepInv /\ ChosenInv /\ PublishedDataAge
  BY DEF PubInv
<1>c. chosen' = IF mode' = "normal" \/ bms' = NoControl \/ ~bus'.registered THEN None
                ELSE IF chosen = None THEN mono' ELSE chosen
  BY DEF PNext
<1>d. /\ queue' = <<>> \/ queue' = queue
      /\ anchor' \in Nat /\ anchor' >= anchor
      /\ stamp' \in Nat \cup {None} /\ sent' \in Time \cup {None}
      /\ stamp' = None <=> sent' = None
      /\ \/ stamp' = stamp /\ sent' = sent
         \/ sent' \in 0..mono /\ mono - sent' <= Wait /\ stamp' = mono + anchor'
  <2>1. pc = "waiting"
    BY DEF WatchFails
  <2>2. ASSUME Len(queue) \in 1..Len(queue), sent' = queue[Len(queue)]
        PROVE  mono - sent' <= Wait
    BY <2>1, <2>2, WaitIsBounded
  <2>3. CASE Drain
    BY <1>0, <2>2, <2>3, DrainTypes
  <2>4. CASE UNCHANGED <<queue, anchor, cache>>
    BY <1>0, <2>4, TypesOfScalars DEF PublisherTypeOK, CacheInv, cache, Scalars
  <2> QED
    BY <2>3, <2>4 DEF WatchFails
<1>1. PublisherTypeOK' /\ (began <= mono)'
  <2>1. queue' \in Seq(Time) /\ Len(queue') <= RcvBuf
    <3>1. CASE queue' = <<>>
      BY <3>1, TimesAreNat
    <3>2. CASE queue' = queue
      BY <1>0, <3>2 DEF PublisherTypeOK
    <3> QED
      BY <1>d, <3>1, <3>2
  <2>2. UNCHANGED <<mono, wall, bms, mode, bus, now, run, connected, ever, answer>>
    BY DEF WatchFails, env, shadow
  <2>3. /\ began' = began /\ mono \in Time /\ began \in Time
        /\ pc' = "waiting" /\ watching' \in BOOLEAN
    BY <1>0 DEF WatchFails, PublisherTypeOK
  <2>4. chosen' \in Time \cup {None}
    BY <1>0, <1>c, <2>2 DEF PublisherTypeOK
  <2>5. mono \in Nat /\ began \in Nat
    BY <1>0, TypesOfScalars DEF Scalars
  <2> QED
    BY <1>0, <1>d, <2>1, <2>2, <2>3, <2>4, <2>5 DEF PublisherTypeOK, Rounds
<1>s. Scalars /\ Scalars'
  BY <1>0, <1>1, TypesOfScalars, TypesOfScalarsNext
<1>2. RoundInv'
  BY <1>0, <1>s DEF Scalars, RoundInv, WatchFails, vars, env, sock, cache, shadow, Rounds
<1>3. QueueInv'
  <2>1. UNCHANGED <<mono, pc, began, bus>>
    BY DEF WatchFails, env
  <2> QED
    BY <1>0, <1>d, <2>1 DEF QueueInv, Rounds
<1>4. CacheInv'
  <2>1. pc = "waiting" /\ pc' # "down" /\ Wait' = Wait /\ mono' = mono
    BY DEF WatchFails, Wait, env
  <2>2. /\ mono \in Nat /\ Wait \in Nat /\ anchor \in Nat /\ anchor' \in Nat /\ anchor' >= anchor
        /\ stamp = None \/ stamp \in Nat
        /\ sent = None \/ sent \in Nat
    BY <1>s, <1>d DEF Scalars, Wait, None
  <2>3. stamp' # None => stamp' - anchor' <= sent' + Wait
    <3>1. CASE stamp' = stamp /\ sent' = sent
      <4>1. stamp # None => stamp - anchor <= sent + Wait /\ sent # None
        BY <1>0 DEF CacheInv
      <4> QED
        BY <2>2, <3>1, <4>1 DEF None
    <3>2. CASE sent' \in 0..mono /\ mono - sent' <= Wait /\ stamp' = mono + anchor'
      BY <2>2, <3>2, StampedNow
    <3> QED
      BY <1>d, <3>1, <3>2
  <2> QED
    BY <1>d, <2>1, <2>3 DEF CacheInv
<1>5. StepInv'
  BY <1>0, <1>s
     DEF Scalars, StepInv, CacheInv, RoundInv, Wait, fresh, WatchFails, vars, env, sock, cache,
         shadow, Rounds, None
<1>6. ChosenInv'
  BY <1>0, <1>s, <1>c
     DEF Scalars, RoundInv, ChosenInv, WatchFails, vars, env, sock, cache, shadow, Rounds, None,
         NoControl, AnyBattery
<1>7. PublishedDataAge'
  BY <1>0, <1>s
     DEF Scalars, PublishedDataAge, DataAgeLimit, StepInv, CacheInv, RoundInv, Wait, fresh,
         WatchFails, vars, env, sock, cache, shadow, Rounds, None
<1> QED
  BY <1>1, <1>2, <1>3, <1>4, <1>5, <1>6, <1>7 DEF PubInv

LEMMA BeginRoundStep ==
    ASSUME PubInv, BeginRound, PNext
    PROVE  PubInv'
<1> USE TimesAreNat, PauseIsMax
<1>0. /\ PublisherTypeOK /\ began <= mono
      /\ RoundInv /\ QueueInv /\ CacheInv /\ StepInv /\ ChosenInv /\ PublishedDataAge
  BY DEF PubInv
<1>c. chosen' = IF mode' = "normal" \/ bms' = NoControl \/ ~bus'.registered THEN None
                ELSE IF chosen = None THEN mono' ELSE chosen
  BY DEF PNext
<1>d. /\ Drain /\ queue' = <<>> /\ anchor' \in Nat /\ anchor' >= anchor
      /\ stamp' \in Nat \cup {None} /\ sent' \in Time \cup {None}
      /\ stamp' = None <=> sent' = None
      /\ \/ stamp' = stamp /\ sent' = sent
         \/ sent' \in 0..mono /\ mono - sent' <= Wait /\ stamp' = mono + anchor'
  <2>1. Drain /\ pc = "waiting"
    BY DEF BeginRound
  <2>2. ASSUME Len(queue) \in 1..Len(queue), sent' = queue[Len(queue)]
        PROVE  mono - sent' <= Wait
    BY <2>1, <2>2, WaitIsBounded
  <2> QED
    BY <1>0, <2>1, <2>2, DrainTypes
<1>1. PublisherTypeOK' /\ (began <= mono)'
  <2>1. queue' \in Seq(Time) /\ Len(queue') <= RcvBuf
    BY <1>d
  <2>2. UNCHANGED <<mono, wall, bms, watching, mode, bus, now, run, connected, ever, answer>>
    BY DEF BeginRound, env, shadow
  <2>3. /\ began' \in {began, mono} /\ mono \in Time /\ began \in Time
        /\ pc' \in {"waiting", "drained"}
    BY <1>0 DEF BeginRound, PublisherTypeOK
  <2>4. chosen' \in Time \cup {None}
    BY <1>0, <1>c, <2>2 DEF PublisherTypeOK
  <2>5. mono \in Nat /\ began \in Nat
    BY <1>0, TypesOfScalars DEF Scalars
  <2> QED
    BY <1>0, <1>d, <2>1, <2>2, <2>3, <2>4, <2>5 DEF PublisherTypeOK, Rounds
<1>s. Scalars /\ Scalars'
  BY <1>0, <1>1, TypesOfScalars, TypesOfScalarsNext
<1>2. RoundInv'
  BY <1>0, <1>s DEF Scalars, RoundInv, BeginRound, vars, env, sock, cache, shadow, Rounds, Due
<1>3. QueueInv'
  BY <1>d DEF QueueInv
<1>4. CacheInv'
  <2>1. pc = "waiting" /\ pc' # "down" /\ Wait' = Wait /\ mono' = mono
    BY DEF BeginRound, Wait, env
  <2>2. /\ mono \in Nat /\ Wait \in Nat /\ anchor \in Nat /\ anchor' \in Nat /\ anchor' >= anchor
        /\ stamp = None \/ stamp \in Nat
        /\ sent = None \/ sent \in Nat
    BY <1>s, <1>d DEF Scalars, Wait, None
  <2>3. stamp' # None => stamp' - anchor' <= sent' + Wait
    <3>1. CASE stamp' = stamp /\ sent' = sent
      <4>1. stamp # None => stamp - anchor <= sent + Wait /\ sent # None
        BY <1>0 DEF CacheInv
      <4> QED
        BY <2>2, <3>1, <4>1 DEF None
    <3>2. CASE sent' \in 0..mono /\ mono - sent' <= Wait /\ stamp' = mono + anchor'
      BY <2>2, <3>2, StampedNow
    <3> QED
      BY <1>d, <3>1, <3>2
  <2> QED
    BY <1>d, <2>1, <2>3 DEF CacheInv
<1>5. StepInv'
  BY <1>0, <1>s
     DEF Scalars, StepInv, CacheInv, RoundInv, Wait, fresh, BeginRound, vars, env, sock, cache,
         shadow, Rounds, None, Due
<1>6. ChosenInv'
  BY <1>0, <1>s, <1>c
     DEF Scalars, RoundInv, ChosenInv, BeginRound, vars, env, sock, cache, shadow, Rounds, None,
         NoControl, AnyBattery, Due
<1>7. PublishedDataAge'
  BY <1>0, <1>s
     DEF Scalars, PublishedDataAge, DataAgeLimit, StepInv, CacheInv, RoundInv, Wait, fresh,
         BeginRound, vars, env, sock, cache, shadow, Rounds, None, Due
<1> QED
  BY <1>1, <1>2, <1>3, <1>4, <1>5, <1>6, <1>7 DEF PubInv

LEMMA TakeTimeStep ==
    ASSUME PubInv, TakeTime, PNext
    PROVE  PubInv'
<1> USE TimesAreNat, PauseIsMax
<1>0. /\ PublisherTypeOK /\ began <= mono
      /\ RoundInv /\ QueueInv /\ CacheInv /\ StepInv /\ ChosenInv /\ PublishedDataAge
  BY DEF PubInv
<1>c. chosen' = IF mode' = "normal" \/ bms' = NoControl \/ ~bus'.registered THEN None
                ELSE IF chosen = None THEN mono' ELSE chosen
  BY DEF PNext
<1>1. PublisherTypeOK' /\ (began <= mono)'
  BY <1>0, <1>c
     DEF PublisherTypeOK, StepInv, TakeTime, vars, env, sock, cache, shadow, Time, Rounds, None,
         Modes, RoundInv, Anchor, AsksFirst
<1>s. Scalars /\ Scalars'
  BY <1>0, <1>1, TypesOfScalars, TypesOfScalarsNext
<1>2. RoundInv'
  BY <1>0, <1>s
     DEF Scalars, RoundInv, TakeTime, vars, env, sock, cache, shadow, Rounds, Anchor, AsksFirst
<1>3. QueueInv'
  BY <1>0, <1>1
     DEF PublisherTypeOK, RoundInv, QueueInv, Wait, TakeTime, vars, env, sock, cache, shadow,
         Time, Rounds, Anchor, AsksFirst
<1>4. CacheInv'
  BY <1>0, <1>s
     DEF Scalars, CacheInv, QueueInv, Wait, TakeTime, vars, env, sock, cache, shadow, None,
         Anchor, AsksFirst
<1>5. StepInv'
  BY <1>0, <1>s
     DEF Scalars, StepInv, CacheInv, RoundInv, Wait, fresh, TakeTime, vars, env, sock, cache,
         shadow, Rounds, None, Anchor, AsksFirst
<1>6. ChosenInv'
  BY <1>0, <1>s, <1>c
     DEF Scalars, RoundInv, ChosenInv, TakeTime, vars, env, sock, cache, shadow, Rounds, None,
         NoControl, AnyBattery, Anchor, AsksFirst
<1>7. PublishedDataAge'
  BY <1>0, <1>s
     DEF Scalars, PublishedDataAge, DataAgeLimit, StepInv, CacheInv, RoundInv, Wait, fresh,
         TakeTime, vars, env, sock, cache, shadow, Rounds, None, Anchor, AsksFirst
<1> QED
  BY <1>1, <1>2, <1>3, <1>4, <1>5, <1>6, <1>7 DEF PubInv

LEMMA StepStep ==
    ASSUME PubInv, Step, PNext
    PROVE  PubInv'
<1> USE TimesAreNat, PauseIsMax
<1>0. /\ PublisherTypeOK /\ began <= mono
      /\ RoundInv /\ QueueInv /\ CacheInv /\ StepInv /\ ChosenInv /\ PublishedDataAge
  BY DEF PubInv
<1>c. chosen' = IF mode' = "normal" \/ bms' = NoControl \/ ~bus'.registered THEN None
                ELSE IF chosen = None THEN mono' ELSE chosen
  BY DEF PNext
<1>k. /\ run' \in Nat \cup {None} /\ connected' \in BOOLEAN /\ ever' \in BOOLEAN
      /\ now' = now /\ (connected' => fresh /\ ever') /\ (ever => ever')
  <2>1. PICK known \in BOOLEAN : Shadow!Sample(known /\ fresh)
    BY DEF Step
  <2> QED
    BY <1>0, <2>1, SampleFacts
<1>u. /\ UNCHANGED <<mono, wall, bms, queue, watching, mode, anchor, stamp, sent, bus>>
      /\ pc = "timed" /\ pc' \in {"stepped", "resolving", "waiting"}
  BY DEF Step, env, sock, cache
<1>r. /\ bus.registered => /\ pc' = "stepped" /\ began' = began
                           /\ answer' \in IF mode = "discovery" THEN {bms, None} ELSE {None}
      /\ ~bus.registered => /\ pc' = IF connected' THEN "resolving" ELSE "waiting"
                            /\ answer' = answer /\ began' = mono
  BY DEF Step
<1>1. PublisherTypeOK' /\ (began <= mono)'
  BY <1>0, <1>k, <1>u, <1>r, <1>c
     DEF PublisherTypeOK, StepInv, Step, vars, env, sock, cache, shadow, Time, Rounds, None,
         Modes, RoundInv
<1>s. Scalars /\ Scalars'
  BY <1>0, <1>k, <1>u, <1>r, <1>1, TypesOfScalars, TypesOfScalarsNext
<1>2. RoundInv'
  <2>1. CASE bus.registered
    BY <1>0, <1>u, <1>r, <1>s, <2>1 DEF Scalars, RoundInv, Rounds
  <2>2. CASE ~bus.registered
    <3>1. /\ pc' = IF connected' THEN "resolving" ELSE "waiting"
          /\ began' = mono /\ mono' = mono /\ bus' = bus /\ mono \in Nat
      BY <1>u, <1>r, <1>s, <2>2 DEF Scalars
    <3>2. mono - mono = 0 /\ 0 <= ResolveMax
      BY <3>1
    <3>3. pc' \in {"waiting", "resolving"} /\ (mono - began <= ResolveMax)' /\ ~bus'.registered
      BY <3>1, <3>2, <2>2
    <3> QED
      BY <3>3 DEF RoundInv, Rounds
  <2> QED
    BY <1>s, <2>1, <2>2 DEF Scalars
<1>3. QueueInv'
  <2>1. /\ Wait' = Wait /\ Wait >= BlockMax
        /\ mono \in Nat /\ began \in Nat /\ mono - began <= BlockMax
    BY <1>0, <1>u, <1>s DEF Wait, RoundInv, Rounds, Scalars
  <2>2. ASSUME NEW i \in 1..Len(queue)
        PROVE  queue[i] \in 0..mono /\ queue[i] >= began /\ mono - queue[i] <= BlockMax
    <3>1. queue[i] \in 0..mono /\ queue[i] >= began
      BY <1>0, <1>u DEF QueueInv, Rounds
    <3> QED
      BY <2>1, <3>1
  <2>3. /\ pc' \in Rounds => began' = began
        /\ pc' = "resolving" => began' = mono
        /\ pc' = "waiting" => ~bus.registered
    BY <1>u, <1>r, <1>0 DEF RoundInv, Rounds
  <2> SUFFICES ASSUME NEW i \in 1..Len(queue)
               PROVE  /\ queue[i] \in 0..mono
                      /\ pc' \in Rounds => queue[i] >= began'
                      /\ pc' = "waiting" => mono - queue[i] <= BlockMax
                      /\ pc' = "resolving" => began' - queue[i] <= BlockMax
    BY <1>u, <2>3 DEF QueueInv
  <2> QED
    BY <2>1, <2>2, <2>3
<1>4. CacheInv'
  BY <1>0, <1>u, <1>s DEF CacheInv, Wait
<1>5. StepInv'
  <2>1. /\ began <= now - anchor /\ now - anchor <= mono
        /\ stamp # None => stamp - anchor <= sent + Wait
        /\ stamp = None <=> sent = None
        /\ mono - began <= BlockMax
    BY <1>0, <1>u DEF StepInv, CacheInv, RoundInv, Rounds
  <2>2. pc' = "stepped" => (began <= now - anchor /\ now - anchor <= mono)'
    BY <1>u, <1>r, <1>k, <2>1, <1>0 DEF RoundInv
  <2>3. pc' = "stepped" /\ connected' => fresh'
    BY <1>k, <1>u DEF fresh
  <2>4. ASSUME pc' = "resolving"
        PROVE  /\ connected' /\ ever' /\ sent' # None
               /\ began' - sent' <= Freshness + 2 * BlockMax
    <3>1. ~bus.registered /\ connected' /\ began' = mono
      BY <1>u, <1>r, <2>4
    <3>2. stamp # None /\ now - stamp <= Freshness /\ ever' /\ Wait = BlockMax
      BY <1>k, <3>1 DEF fresh, Wait
    <3>3. sent # None /\ stamp - anchor <= sent + BlockMax
      BY <2>1, <3>2
    <3>4. mono - sent <= Freshness + 2 * BlockMax
      BY <1>s, <2>1, <3>2, <3>3 DEF Scalars, None
    <3> QED
      BY <1>u, <3>1, <3>2, <3>3, <3>4
  <2>5. pc' # "timed"
    BY <1>u
  <2> QED
    BY <2>2, <2>3, <2>4, <2>5 DEF StepInv
<1>6. ChosenInv'
  <2>1. CASE ~bus.registered
    BY <1>0, <1>u, <1>c, <2>1 DEF ChosenInv
  <2>2. CASE bus.registered
    <3>1. /\ chosen' = chosen /\ pc' = "stepped" /\ began' = began
          /\ answer' \in IF mode = "discovery" THEN {bms, None} ELSE {None}
      BY <1>0, <1>u, <1>r, <1>c, <2>2 DEF ChosenInv
    <3>2. /\ chosen # None => bms # NoControl /\ chosen <= mono /\ began - chosen <= Pause
          /\ chosen # None /\ mode = "stage" => chosen >= began
      BY <1>0, <1>u DEF ChosenInv, Rounds
    <3>3. chosen # None /\ mode = "discovery" => answer' # NoControl
      BY <3>1, <3>2 DEF None, NoControl
    <3> QED
      BY <1>0, <1>u, <3>1, <3>2, <3>3 DEF ChosenInv
  <2> QED
    BY <1>s, <2>1, <2>2 DEF Scalars
<1>7. PublishedDataAge'
  BY <1>0, <1>u DEF PublishedDataAge
<1> QED
  BY <1>1, <1>2, <1>3, <1>4, <1>5, <1>6, <1>7 DEF PubInv

LEMMA RegisterStep ==
    ASSUME PubInv, Register, PNext
    PROVE  PubInv'
<1> USE TimesAreNat, PauseIsMax
<1>0. /\ PublisherTypeOK /\ began <= mono
      /\ RoundInv /\ QueueInv /\ CacheInv /\ StepInv /\ ChosenInv /\ PublishedDataAge
  BY DEF PubInv
<1>b. /\ bus'.registered = TRUE /\ bus'.connected = connected /\ bus'.sent = sent /\ bus'.at = mono
      /\ bus' \in BusType
  BY <1>0, WhatIsOnBus DEF Register, PublisherTypeOK
<1>c. chosen' = IF mode' = "normal" \/ bms' = NoControl \/ ~bus'.registered THEN None
                ELSE IF chosen = None THEN mono' ELSE chosen
  BY DEF PNext
<1>1. PublisherTypeOK' /\ (began <= mono)'
  BY <1>0, <1>b, <1>c
     DEF PublisherTypeOK, StepInv, Register, vars, env, sock, cache, shadow, Time, Rounds, None,
         Modes, RoundInv
<1>s. Scalars /\ Scalars'
  BY <1>0, <1>b, <1>1, TypesOfScalars, TypesOfScalarsNext
<1>2. RoundInv'
  BY <1>0, <1>b, <1>s DEF Scalars, RoundInv, Register, vars, env, sock, cache, shadow, Rounds
<1>3. QueueInv'
  <2>1. /\ queue' = queue /\ mono' = mono /\ began' = mono /\ pc = "resolving"
        /\ pc' \in {"waiting", "announcing"} /\ bus'.registered
    BY <1>b DEF Register, env
  <2>2. mono - began <= ResolveMax /\ began \in Nat /\ mono \in Nat
    BY <1>0, <1>s, <2>1 DEF RoundInv, Scalars
  <2> SUFFICES ASSUME NEW i \in 1..Len(queue)
               PROVE  queue[i] \in 0..mono /\ mono - queue[i] <= BlockMax + ResolveMax
    BY <2>1 DEF QueueInv, Rounds
  <2>3. queue[i] \in 0..mono /\ began - queue[i] <= BlockMax
    BY <1>0, <2>1 DEF QueueInv
  <2> QED
    BY <2>2, <2>3
<1>4. CacheInv'
  BY <1>0, <1>b, <1>s
     DEF Scalars, CacheInv, QueueInv, Wait, Register, vars, env, sock, cache, shadow, None
<1>5. StepInv'
  BY <1>0, <1>b, <1>s
     DEF Scalars, StepInv, CacheInv, RoundInv, Wait, fresh, Register, vars, env, sock, cache,
         shadow, Rounds, None
<1>6. ChosenInv'
  <2>1. /\ chosen = None /\ chosen' \in {None, mono}
        /\ chosen' = None <=> mode' = "normal" \/ bms' = NoControl
    BY <1>0, <1>b, <1>s, <1>c DEF Scalars, RoundInv, ChosenInv, Register, env, None
  <2>2. mono' = mono /\ began' = mono /\ pc' \in {"waiting", "announcing"} /\ mono \in Nat
    BY <1>s DEF Register, env, Scalars
  <2>3. pc' \notin Rounds /\ pc' \notin {"timed", "stepped", "failed"}
    BY <2>2 DEF Rounds
  <2>4. mono - mono <= Pause /\ mono >= mono /\ mono <= mono
    BY <2>2
  <2>5. chosen' # None => chosen' = mono
    BY <2>1
  <2> QED
    BY <1>b, <2>1, <2>2, <2>3, <2>4, <2>5 DEF ChosenInv
<1>7. PublishedDataAge'
  BY <1>0, <1>b, <1>s
     DEF Scalars, PublishedDataAge, DataAgeLimit, StepInv, CacheInv, RoundInv, Wait, fresh,
         Register, vars, env, sock, cache, shadow, Rounds, None
<1> QED
  BY <1>1, <1>2, <1>3, <1>4, <1>5, <1>6, <1>7 DEF PubInv

LEMMA PublishStep ==
    ASSUME PubInv, Publish, PNext
    PROVE  PubInv'
<1> USE TimesAreNat, PauseIsMax
<1>0. /\ PublisherTypeOK /\ began <= mono
      /\ RoundInv /\ QueueInv /\ CacheInv /\ StepInv /\ ChosenInv /\ PublishedDataAge
  BY DEF PubInv
<1>b. /\ bus'.registered = TRUE /\ bus'.connected = connected /\ bus'.sent = sent /\ bus'.at = mono
      /\ bus' \in BusType
  BY <1>0, WhatIsOnBus DEF Publish, PublisherTypeOK
<1>c. chosen' = IF mode' = "normal" \/ bms' = NoControl \/ ~bus'.registered THEN None
                ELSE IF chosen = None THEN mono' ELSE chosen
  BY DEF PNext
<1>1. PublisherTypeOK' /\ (began <= mono)'
  BY <1>0, <1>b, <1>c
     DEF PublisherTypeOK, StepInv, Publish, vars, env, sock, cache, shadow, Time, Rounds, None,
         Modes, RoundInv, AnswerAllows
<1>s. Scalars /\ Scalars'
  BY <1>0, <1>b, <1>1, TypesOfScalars, TypesOfScalarsNext
<1>2. RoundInv'
  BY <1>0, <1>b, <1>s
     DEF Scalars, RoundInv, Publish, vars, env, sock, cache, shadow, Rounds, AnswerAllows
<1>3. QueueInv'
  BY <1>0, <1>b, <1>1
     DEF PublisherTypeOK, RoundInv, QueueInv, Wait, Publish, vars, env, sock, cache, shadow,
         Time, Rounds, AnswerAllows
<1>4. CacheInv'
  BY <1>0, <1>b, <1>s
     DEF Scalars, CacheInv, QueueInv, Wait, Publish, vars, env, sock, cache, shadow, None,
         AnswerAllows
<1>5. StepInv'
  BY <1>0, <1>b, <1>s
     DEF Scalars, StepInv, CacheInv, RoundInv, Wait, fresh, Publish, vars, env, sock, cache,
         shadow, Rounds, None, AnswerAllows
<1>6. ChosenInv'
  BY <1>0, <1>b, <1>s, <1>c
     DEF Scalars, RoundInv, ChosenInv, Publish, vars, env, sock, cache, shadow, Rounds, None,
         NoControl, AnyBattery, AnswerAllows
<1>7. PublishedDataAge'
  BY <1>0, <1>b, <1>s
     DEF Scalars, PublishedDataAge, DataAgeLimit, StepInv, CacheInv, RoundInv, Wait, fresh,
         Publish, vars, env, sock, cache, shadow, Rounds, None, AnswerAllows
<1> QED
  BY <1>1, <1>2, <1>3, <1>4, <1>5, <1>6, <1>7 DEF PubInv

LEMMA AnnouncedStep ==
    ASSUME PubInv, Announced, PNext
    PROVE  PubInv'
<1> USE TimesAreNat, PauseIsMax
<1>0. /\ PublisherTypeOK /\ began <= mono
      /\ RoundInv /\ QueueInv /\ CacheInv /\ StepInv /\ ChosenInv /\ PublishedDataAge
  BY DEF PubInv
<1>c. chosen' = IF mode' = "normal" \/ bms' = NoControl \/ ~bus'.registered THEN None
                ELSE IF chosen = None THEN mono' ELSE chosen
  BY DEF PNext
<1>1. PublisherTypeOK' /\ (began <= mono)'
  BY <1>0, <1>c
     DEF PublisherTypeOK, StepInv, Announced, vars, env, sock, cache, shadow, Time, Rounds,
         None, Modes, RoundInv
<1>s. Scalars /\ Scalars'
  BY <1>0, <1>1, TypesOfScalars, TypesOfScalarsNext
<1>2. RoundInv'
  BY <1>0, <1>s DEF Scalars, RoundInv, Announced, vars, env, sock, cache, shadow, Rounds
<1>3. QueueInv'
  BY <1>0, <1>1
     DEF PublisherTypeOK, RoundInv, QueueInv, Wait, Announced, vars, env, sock, cache, shadow,
         Time, Rounds
<1>4. CacheInv'
  BY <1>0, <1>s
     DEF Scalars, CacheInv, QueueInv, Wait, Announced, vars, env, sock, cache, shadow, None
<1>5. StepInv'
  BY <1>0, <1>s
     DEF Scalars, StepInv, CacheInv, RoundInv, Wait, fresh, Announced, vars, env, sock, cache,
         shadow, Rounds, None
<1>6. ChosenInv'
  BY <1>0, <1>s, <1>c
     DEF Scalars, RoundInv, ChosenInv, Announced, vars, env, sock, cache, shadow, Rounds, None,
         NoControl, AnyBattery
<1>7. PublishedDataAge'
  BY <1>0, <1>s
     DEF Scalars, PublishedDataAge, DataAgeLimit, StepInv, CacheInv, RoundInv, Wait, fresh,
         Announced, vars, env, sock, cache, shadow, Rounds, None
<1> QED
  BY <1>1, <1>2, <1>3, <1>4, <1>5, <1>6, <1>7 DEF PubInv

LEMMA UpdateFailsStep ==
    ASSUME PubInv, UpdateFails, PNext
    PROVE  PubInv'
<1> USE TimesAreNat, PauseIsMax
<1>0. /\ PublisherTypeOK /\ began <= mono
      /\ RoundInv /\ QueueInv /\ CacheInv /\ StepInv /\ ChosenInv /\ PublishedDataAge
  BY DEF PubInv
<1>c. chosen' = IF mode' = "normal" \/ bms' = NoControl \/ ~bus'.registered THEN None
                ELSE IF chosen = None THEN mono' ELSE chosen
  BY DEF PNext
<1>1. PublisherTypeOK' /\ (began <= mono)'
  BY <1>0, <1>c
     DEF PublisherTypeOK, StepInv, UpdateFails, vars, env, sock, cache, shadow, Time, Rounds,
         None, Modes, RoundInv
<1>s. Scalars /\ Scalars'
  BY <1>0, <1>1, TypesOfScalars, TypesOfScalarsNext
<1>2. RoundInv'
  BY <1>0, <1>s DEF Scalars, RoundInv, UpdateFails, vars, env, sock, cache, shadow, Rounds
<1>3. QueueInv'
  BY <1>0, <1>1
     DEF PublisherTypeOK, RoundInv, QueueInv, Wait, UpdateFails, vars, env, sock, cache, shadow,
         Time, Rounds
<1>4. CacheInv'
  BY <1>0, <1>s
     DEF Scalars, CacheInv, QueueInv, Wait, UpdateFails, vars, env, sock, cache, shadow, None
<1>5. StepInv'
  BY <1>0, <1>s
     DEF Scalars, StepInv, CacheInv, RoundInv, Wait, fresh, UpdateFails, vars, env, sock, cache,
         shadow, Rounds, None
<1>6. ChosenInv'
  BY <1>0, <1>s, <1>c
     DEF Scalars, RoundInv, ChosenInv, UpdateFails, vars, env, sock, cache, shadow, Rounds,
         None, NoControl, AnyBattery
<1>7. PublishedDataAge'
  BY <1>0, <1>s
     DEF Scalars, PublishedDataAge, DataAgeLimit, StepInv, CacheInv, RoundInv, Wait, fresh,
         UpdateFails, vars, env, sock, cache, shadow, Rounds, None
<1> QED
  BY <1>1, <1>2, <1>3, <1>4, <1>5, <1>6, <1>7 DEF PubInv

LEMMA ExitStep ==
    ASSUME PubInv, Exit, PNext
    PROVE  PubInv'
<1> USE TimesAreNat, PauseIsMax
<1>0. /\ PublisherTypeOK /\ began <= mono
      /\ RoundInv /\ QueueInv /\ CacheInv /\ StepInv /\ ChosenInv /\ PublishedDataAge
  BY DEF PubInv
<1>b. bus'.registered = FALSE /\ bus'.connected = FALSE /\ bus' \in BusType
  BY WhatIsOnBus DEF Exit
<1>c. chosen' = IF mode' = "normal" \/ bms' = NoControl \/ ~bus'.registered THEN None
                ELSE IF chosen = None THEN mono' ELSE chosen
  BY DEF PNext
<1>1. PublisherTypeOK' /\ (began <= mono)'
  <2>1. queue' \in Seq(Time) /\ Len(queue') <= RcvBuf
    BY DEF Exit
  <2>2. bus' \in BusType /\ ~bus'.registered /\ chosen' = None
    BY <1>b, <1>c
  <2>3. UNCHANGED <<mono, wall, bms, mode>> /\ began' = mono /\ mono \in Time
    BY <1>0 DEF Exit, env, PublisherTypeOK
  <2>4. /\ pc' = "down" /\ anchor' = 0 /\ now' = 0 /\ stamp' = None /\ sent' = None
        /\ run' = None /\ connected' = FALSE /\ ever' = FALSE /\ answer' = None
        /\ watching' = FALSE
    BY DEF Exit
  <2>5. mono \in Nat /\ (began <= mono)'
    BY <1>0, <2>3, TypesOfScalars DEF Scalars
  <2> QED
    BY <1>0, <2>1, <2>2, <2>3, <2>4, <2>5 DEF PublisherTypeOK
<1>s. Scalars /\ Scalars'
  BY <1>0, <1>b, <1>1, TypesOfScalars, TypesOfScalarsNext
<1>2. RoundInv'
  BY <1>0, <1>b, <1>s DEF Scalars, RoundInv, Exit, vars, env, sock, cache, shadow, Rounds
<1>3. QueueInv'
  BY <1>0, <1>b, <1>1
     DEF PublisherTypeOK, RoundInv, QueueInv, Wait, Exit, vars, env, sock, cache, shadow, Time,
         Rounds
<1>4. CacheInv'
  BY <1>0, <1>b, <1>s
     DEF Scalars, CacheInv, QueueInv, Wait, Exit, vars, env, sock, cache, shadow, None
<1>5. StepInv'
  BY <1>0, <1>b, <1>s
     DEF Scalars, StepInv, CacheInv, RoundInv, Wait, fresh, Exit, vars, env, sock, cache,
         shadow, Rounds, None
<1>6. ChosenInv'
  BY <1>0, <1>b, <1>s, <1>c
     DEF Scalars, RoundInv, ChosenInv, Exit, vars, env, sock, cache, shadow, Rounds, None,
         NoControl, AnyBattery
<1>7. PublishedDataAge'
  BY <1>0, <1>b, <1>s
     DEF Scalars, PublishedDataAge, DataAgeLimit, StepInv, CacheInv, RoundInv, Wait, fresh,
         Exit, vars, env, sock, cache, shadow, Rounds, None
<1> QED
  BY <1>1, <1>2, <1>3, <1>4, <1>5, <1>6, <1>7 DEF PubInv

-----------------------------------------------------------------------------

LEMMA Inductive == PubInv /\ [PNext]_pvars => PubInv'
<1> SUFFICES ASSUME PubInv, [PNext]_pvars PROVE PubInv'
  OBVIOUS
<1>1. CASE UNCHANGED pvars
  BY <1>1 DEF PubInv, PublisherTypeOK, RoundInv, QueueInv, CacheInv, StepInv, ChosenInv,
     PublishedDataAge, Wait, fresh, pvars, vars, env, sock, cache, shadow
<1>2. CASE PNext
  BY <1>2, TickStep, SetWallStep, SelectStep, ArriveStep, StartStep, WatchStep,
     WatchFailsStep, BeginRoundStep, TakeTimeStep, StepStep, RegisterStep, AnnouncedStep, PublishStep,
     UpdateFailsStep, ExitStep DEF PNext, Next
<1> QED
  BY <1>1, <1>2

\* How old what the thread holds can be at each point of a round, and what it may have
\* overlooked, for any waits.
THEOREM PublisherInvariance == PSpec => []PubInv
<1>1. PInit => PubInv
  BY Initially
<1>2. PubInv /\ [PNext]_pvars => PubInv'
  BY Inductive
<1> QED
  BY <1>1, <1>2, PTL DEF PSpec

\* Types, and that no service outlives its process.
THEOREM PublisherTypes == PSpec => []PublisherTypeOK
<1>1. PubInv => PublisherTypeOK
  BY DEF PubInv
<1> QED
  BY <1>1, PublisherInvariance, PTL

\* What is written while connected is at most DataAgeLimit old.
THEOREM DataAgeIsBounded == PSpec => []PublishedDataAge
<1>1. PubInv => PublishedDataAge
  BY DEF PubInv
<1> QED
  BY <1>1, PublisherInvariance, PTL

\* A registered service has been written within a pause and a round.
THEOREM ServiceIsRenewed == PSpec => []RenewedOrWithdrawn
<1>1. PubInv => RenewedOrWithdrawn
  BY TimesAreNat, PauseIsMax, TypesOfScalars DEF Scalars, PubInv, RoundInv, RenewedOrWithdrawn,
     Rounds
<1> QED
  BY <1>1, PublisherInvariance, PTL

\* A selected service that is not to be selected goes away.
THEOREM SelectedGoesAway == PSpec => []SelectedIsWithdrawn
<1>1. PubInv => SelectedIsWithdrawn
  BY TimesAreNat, PauseIsMax, TypesOfScalars DEF Scalars, PubInv, RoundInv, ChosenInv,
     SelectedIsWithdrawn, Rounds, None
<1> QED
  BY <1>1, PublisherInvariance, PTL
====
