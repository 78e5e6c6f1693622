------------------------------- MODULE BankProofs -------------------------------
(***************************************************************************)
(* Proofs about BankRuns, for banks of any number of packs, and about      *)
(* MCBank, whose behaviours are those of BankRuns and of PackAlarms.       *)
(***************************************************************************)
EXTENDS MCBank, PackAlarmsProofs, FiniteSetTheorems, WellFoundedInduction, TLAPS

LEMMA PacksCounted ==
    ASSUME NEW packs \in SUBSET Packs
    PROVE  IsFiniteSet(packs) /\ Cardinality(packs) \in Nat
  BY PacksAssumption, FS_Subset, FS_CardinalityType

\* A set of numbers has a least one.
LEMMA Least ==
    ASSUME NEW S, S \subseteq Nat, S # {}
    PROVE  \E n \in S : \A m \in S : n <= m
<1>1. PICK n \in S : \A m \in S : ~(<<m, n>> \in OpToRel(<, Nat))
  BY NatLessThanWellFounded, WFMin
<1>2. \A m \in S : ~(m < n)
  BY <1>1 DEF OpToRel
<1> QED
  BY <1>2

(***************************************************************************)
(* A sum over a set is a fold, which is defined as a fixed point: there is *)
(* one, and it gives every set of packs a number.                          *)
(***************************************************************************)
Taken(s) == CHOOSE p \in s : TRUE

SumStep(packs, f) ==
    [s \in SUBSET packs |-> IF s = {} THEN 0 ELSE Allowance[Taken(s)] + f[s \ {Taken(s)}]]

\* The fixed point on the sets of at most n packs.
SumsUpTo(packs, n) ==
    \E f \in [SUBSET packs -> Nat] :
        \A s \in SUBSET packs : Cardinality(s) <= n => f[s] = SumStep(packs, f)[s]

LEMMA AmperesIsSum ==
    ASSUME NEW packs
    PROVE  Amperes(packs) = (CHOOSE f : f = SumStep(packs, f))[packs]
  BY Zenon DEF Amperes, MapThenSumSet, MapThenFoldSet, SumStep, Taken

LEMMA OneTaken ==
    ASSUME NEW packs \in SUBSET Packs, NEW s \in SUBSET packs, s # {}
    PROVE  /\ Taken(s) \in s /\ Allowance[Taken(s)] \in Nat
           /\ s \ {Taken(s)} \in SUBSET packs
           /\ Cardinality(s) \in Nat
           /\ Cardinality(s \ {Taken(s)}) \in Nat
           /\ Cardinality(s \ {Taken(s)}) + 1 = Cardinality(s)
<1>1. Taken(s) \in s
  BY DEF Taken
<1>2. IsFiniteSet(s) /\ Cardinality(s) \in Nat
  BY PacksCounted
<1>3. Cardinality(s \ {Taken(s)}) = Cardinality(s) - 1
  BY <1>1, <1>2, FS_RemoveElement
<1>4. Cardinality(s \ {Taken(s)}) \in Nat
  BY PacksCounted
<1>5. Allowance[Taken(s)] \in Nat
  BY <1>1, AllowanceAssumption
<1> QED
  BY <1>1, <1>2, <1>3, <1>4, <1>5

LEMMA SumsGrow ==
    ASSUME NEW packs \in SUBSET Packs, NEW n \in Nat, SumsUpTo(packs, n)
    PROVE  SumsUpTo(packs, n + 1)
<1>1. PICK f \in [SUBSET packs -> Nat] :
        \A s \in SUBSET packs : Cardinality(s) <= n => f[s] = SumStep(packs, f)[s]
  BY DEF SumsUpTo
<1> DEFINE g == SumStep(packs, f)
<1>2. \A s \in SUBSET packs :
         g[s] = IF s = {} THEN 0 ELSE Allowance[Taken(s)] + f[s \ {Taken(s)}]
  BY DEF SumStep
<1>3. g \in [SUBSET packs -> Nat]
  <2>1. ASSUME NEW s \in SUBSET packs
        PROVE  (IF s = {} THEN 0 ELSE Allowance[Taken(s)] + f[s \ {Taken(s)}]) \in Nat
    BY <1>1, OneTaken
  <2> QED
    BY <2>1 DEF SumStep
<1> HIDE DEF g
<1>4. ASSUME NEW s \in SUBSET packs, Cardinality(s) <= n + 1
      PROVE  g[s] = SumStep(packs, g)[s]
  <2>1. CASE s = {}
    BY <1>2, <2>1 DEF SumStep
  <2>2. CASE s # {}
    <3>1. s \ {Taken(s)} \in SUBSET packs /\ Cardinality(s \ {Taken(s)}) <= n
      BY <1>4, <2>2, OneTaken
    <3>2. f[s \ {Taken(s)}] = g[s \ {Taken(s)}]
      BY <1>1, <3>1 DEF g
    <3>3. SumStep(packs, g)[s] = Allowance[Taken(s)] + g[s \ {Taken(s)}]
      BY <2>2 DEF SumStep
    <3> QED
      BY <1>2, <2>2, <3>2, <3>3
  <2> QED
    BY <2>1, <2>2
<1> QED
  BY <1>3, <1>4 DEF SumsUpTo

LEMMA AllSums ==
    ASSUME NEW packs \in SUBSET Packs, NEW n \in Nat
    PROVE  SumsUpTo(packs, n)
<1> DEFINE none == {k \in Nat : ~SumsUpTo(packs, k)}
<1>1. SumsUpTo(packs, 0)
  <2> DEFINE f == [s \in SUBSET packs |-> 0]
  <2>1. ASSUME NEW s \in SUBSET packs, Cardinality(s) <= 0
        PROVE  f[s] = SumStep(packs, f)[s]
    <3>1. s = {}
      BY <2>1, PacksCounted, FS_EmptySet
    <3> QED
      BY <3>1 DEF SumStep
  <2>2. f \in [SUBSET packs -> Nat]
    OBVIOUS
  <2> HIDE DEF f
  <2> QED
    BY <2>1, <2>2 DEF SumsUpTo
<1>2. none = {}
  <2> SUFFICES ASSUME none # {} PROVE FALSE
    OBVIOUS
  <2>1. PICK m \in none : \A k \in none : m <= k
    BY Least
  <2>2. m \in Nat /\ ~SumsUpTo(packs, m)
    OBVIOUS
  <2>3. m # 0
    BY <1>1, <2>2
  <2>4. m - 1 \in Nat /\ m - 1 \notin none
    BY <2>1, <2>2, <2>3
  <2>5. SumsUpTo(packs, m - 1)
    BY <2>4
  <2>6. SumsUpTo(packs, (m - 1) + 1)
    BY <2>4, <2>5, SumsGrow
  <2>7. (m - 1) + 1 = m
    BY <2>2
  <2> QED
    BY <2>2, <2>6, <2>7
<1> QED
  BY <1>2

\* The fold of the packs is a fixed point.
FoldOf(packs) == CHOOSE f : f = SumStep(packs, f)

LEMMA FoldIsFixed ==
    ASSUME NEW packs \in SUBSET Packs
    PROVE  /\ FoldOf(packs) = SumStep(packs, FoldOf(packs))
           /\ Amperes(packs) = FoldOf(packs)[packs]
<1>1. \E g : g = SumStep(packs, g)
  <2>1. IsFiniteSet(packs) /\ Cardinality(packs) \in Nat
    BY PacksCounted
  <2>2. PICK g \in [SUBSET packs -> Nat] :
          \A s \in SUBSET packs : Cardinality(s) <= Cardinality(packs) => g[s] = SumStep(packs, g)[s]
    BY <2>1, AllSums DEF SumsUpTo
  <2>3. \A s \in SUBSET packs : g[s] = SumStep(packs, g)[s]
    <3> SUFFICES ASSUME NEW s \in SUBSET packs PROVE Cardinality(s) <= Cardinality(packs)
      BY <2>2
    <3> QED
      BY <2>1, FS_Subset
  <2>4. g = [s \in SUBSET packs |-> SumStep(packs, g)[s]]
    BY <2>3
  <2>5. SumStep(packs, g) = [s \in SUBSET packs |-> SumStep(packs, g)[s]]
    BY DEF SumStep
  <2> QED
    BY <2>4, <2>5
<1>2. FoldOf(packs) = SumStep(packs, FoldOf(packs))
  BY <1>1 DEF FoldOf
<1>3. Amperes(packs) = FoldOf(packs)[packs]
  BY AmperesIsSum DEF FoldOf
<1> QED
  BY <1>2, <1>3

\* What the packs of any set allow together is a number of amperes.
LEMMA AmperesNat ==
    ASSUME NEW packs \in SUBSET Packs
    PROVE  Amperes(packs) \in Nat
<1> DEFINE f == FoldOf(packs)
<1>2. f = SumStep(packs, f) /\ Amperes(packs) = f[packs]
  BY FoldIsFixed
<1> HIDE DEF f
<1>3. \A s \in SUBSET packs :
         f[s] = IF s = {} THEN 0 ELSE Allowance[Taken(s)] + f[s \ {Taken(s)}]
  BY <1>2 DEF SumStep
<1> DEFINE sizes == {n \in Nat : \E s \in SUBSET packs : Cardinality(s) = n /\ f[s] \notin Nat}
<1>4. sizes = {}
  <2> SUFFICES ASSUME sizes # {} PROVE FALSE
    OBVIOUS
  <2>1. PICK n \in sizes : \A k \in sizes : n <= k
    BY Least
  <2>2. PICK s \in SUBSET packs : Cardinality(s) = n /\ f[s] \notin Nat
    BY <2>1
  <2>3. s # {}
    BY <1>3, <2>2
  <2> DEFINE t == s \ {Taken(s)}
  <2>4. /\ t \in SUBSET packs /\ Cardinality(t) \in Nat /\ Cardinality(t) + 1 = n
        /\ Allowance[Taken(s)] \in Nat
    BY <2>2, <2>3, OneTaken
  <2>5. f[s] = Allowance[Taken(s)] + f[t]
    BY <1>3, <2>3
  <2> HIDE DEF t
  <2>6. Cardinality(t) \notin sizes
    BY <2>1, <2>4
  <2>7. f[t] \in Nat
    BY <2>4, <2>6
  <2> QED
    BY <2>2, <2>4, <2>5, <2>7
<1>5. f[packs] \in Nat
  BY <1>4, PacksCounted
<1> QED
  BY <1>2, <1>5

LEMMA StaleIsNat == Stale \in Nat /\ Stale = CriticalFor + 1 /\ CriticalFor \in Nat
  BY CriticalAssumption DEF Stale

LEMMA InitialBank == BInit => BankInv
<1> SUFFICES ASSUME BInit PROVE BankInv
  OBVIOUS
<1>1. /\ seen = {} /\ allow = {}
      /\ mos = [p \in Packs |-> [age |-> Stale, closed |-> FALSE]]
      /\ counts = [age |-> Stale, connected |-> 0, blocking |-> 0]
      /\ limits = [age |-> Stale, amperes |-> 0]
      /\ voltage = [age |-> Stale, volts |-> 0]
  BY DEF BInit, NothingReceived
<1>2. BankTypeOK
  BY <1>1, StaleIsNat DEF BInit, BankTypeOK
<1>3. \A p \in Packs : ~Fresh(mos[p])
  BY <1>1, StaleIsNat DEF Fresh
<1>4. ~Fresh(counts)
  BY <1>1, StaleIsNat DEF Fresh
<1> QED
  BY <1>2, <1>3, <1>4 DEF BankInv, MosInv, CountsInv, SinceInv, BInit, Accepting

-----------------------------------------------------------------------------
(* The steps. *)

LEMMA TickStep ==
    ASSUME BankInv, Tick
    PROVE  BankInv'
<1>1. BankTypeOK /\ MosInv /\ CountsInv /\ SinceInv
  BY DEF BankInv
<1>2. /\ mos' = [p \in Packs |-> Older(mos[p])]
      /\ counts' = Older(counts) /\ limits' = Older(limits) /\ voltage' = Older(voltage)
      /\ UNCHANGED <<seen, allow, linked, accepts>>
      /\ since' = IF Accepting = {} THEN Longer(since) ELSE 0
      /\ steady' = Longer(steady)
  BY DEF Tick, Age
<1>3. ASSUME NEW p \in Packs
      PROVE  /\ mos'[p] \in [age : 0..Stale, closed : BOOLEAN]
             /\ mos'[p].closed = mos[p].closed
             /\ mos'[p].age = IF mos[p].age < Stale THEN mos[p].age + 1 ELSE Stale
  <2>1. mos[p] \in [age : 0..Stale, closed : BOOLEAN]
    BY <1>1 DEF BankTypeOK
  <2>2. mos'[p] = [mos[p] EXCEPT !.age = IF mos[p].age < Stale THEN mos[p].age + 1 ELSE Stale]
    BY <1>2 DEF Older
  <2> QED
    BY <2>1, <2>2, StaleIsNat
<1>4. /\ counts' \in [age : 0..Stale, connected : Nat, blocking : Nat]
      /\ counts'.connected = counts.connected /\ counts'.blocking = counts.blocking
      /\ counts'.age = IF counts.age < Stale THEN counts.age + 1 ELSE Stale
  <2>1. counts \in [age : 0..Stale, connected : Nat, blocking : Nat]
    BY <1>1 DEF BankTypeOK
  <2> QED
    BY <1>2, <2>1, StaleIsNat DEF Older
<1>5. /\ limits' \in [age : 0..Stale, amperes : Nat]
      /\ voltage' \in [age : 0..Stale, volts : Nat]
  <2>1. /\ limits \in [age : 0..Stale, amperes : Nat]
        /\ voltage \in [age : 0..Stale, volts : Nat]
    BY <1>1 DEF BankTypeOK
  <2> QED
    BY <1>2, <2>1, StaleIsNat DEF Older
<1>6. /\ since \in 0..Stale /\ since' \in 0..Stale /\ since' <= since + 1
      /\ steady \in 0..Stale /\ steady' \in 0..Stale
      /\ steady' = IF steady < Stale THEN steady + 1 ELSE Stale
  BY <1>1, <1>2, StaleIsNat DEF BankTypeOK, Longer
<1>7. BankTypeOK'
  <2>1. mos' \in [Packs -> [age : 0..Stale, closed : BOOLEAN]]
    BY <1>2, <1>3
  <2> QED
    BY <1>1, <1>2, <1>4, <1>5, <1>6, <2>1 DEF BankTypeOK, Stale
<1>8. MosInv'
  <2> SUFFICES ASSUME NEW p \in Packs, mos'[p].age <= CriticalFor
               PROVE  /\ p \in seen
                      /\ mos'[p].closed => since' <= mos'[p].age
                      /\ mos'[p].age < steady' =>
                           p \in linked /\ (mos'[p].closed <=> p \in accepts)
    BY <1>2 DEF MosInv, Fresh
  <2>1. mos[p].age \in 0..Stale
    BY <1>1 DEF BankTypeOK
  <2>2. mos[p].age <= CriticalFor /\ mos'[p].age = mos[p].age + 1
    BY <1>3, <2>1, StaleIsNat
  <2>3. /\ p \in seen
        /\ mos[p].closed => since <= mos[p].age
        /\ mos[p].age < steady => p \in linked /\ (mos[p].closed <=> p \in accepts)
    BY <1>1, <2>2 DEF MosInv, Fresh
  <2>4. mos'[p].closed => since' <= mos'[p].age
    BY <1>3, <1>6, <2>1, <2>2, <2>3
  <2>5. mos'[p].age < steady' => mos[p].age < steady
    BY <1>6, <2>1, <2>2, StaleIsNat
  <2> QED
    BY <1>3, <2>3, <2>4, <2>5
<1>9. CountsInv'
  <2> SUFFICES ASSUME counts'.age <= CriticalFor
               PROVE  /\ counts'.connected > 0
                      /\ counts'.blocking < counts'.connected => since' <= counts'.age
                      /\ counts'.age < steady' =>
                           /\ counts'.connected = Cardinality(linked)
                           /\ counts'.blocking = Cardinality(linked \ accepts)
    BY <1>2 DEF CountsInv, Fresh
  <2>1. counts.age \in 0..Stale
    BY <1>1 DEF BankTypeOK
  <2>2. counts.age <= CriticalFor /\ counts'.age = counts.age + 1
    BY <1>4, <2>1, StaleIsNat
  <2>3. /\ counts.connected > 0
        /\ counts.blocking < counts.connected => since <= counts.age
        /\ counts.age < steady => /\ counts.connected = Cardinality(linked)
                                  /\ counts.blocking = Cardinality(linked \ accepts)
    BY <1>1, <2>2 DEF CountsInv, Fresh
  <2>4. counts'.blocking < counts'.connected => since' <= counts'.age
    BY <1>4, <1>6, <2>1, <2>2, <2>3
  <2>5. counts'.age < steady' => counts.age < steady
    BY <1>6, <2>1, <2>2, StaleIsNat
  <2> QED
    BY <1>4, <2>3, <2>4, <2>5
<1>10. SinceInv'
  BY <1>2 DEF SinceInv, Accepting
<1> QED
  BY <1>7, <1>8, <1>9, <1>10 DEF BankInv

LEMMA ChangeStep ==
    ASSUME BankInv, NEW p \in Packs, Change(p)
    PROVE  BankInv'
<1>1. BankTypeOK /\ MosInv /\ CountsInv /\ SinceInv
  BY DEF BankInv
<1>2. /\ UNCHANGED <<seen, mos, allow, counts, limits, voltage>>
      /\ linked' \in SUBSET Packs /\ First \in linked' /\ accepts' \in SUBSET Packs
      /\ since' = IF linked' \cap accepts' = {} THEN since ELSE 0
      /\ steady' = 0
  BY <1>1 DEF Change, cache, BankTypeOK
<1>3. BankTypeOK'
  BY <1>1, <1>2, StaleIsNat DEF BankTypeOK, Stale
<1>4. since \in 0..Stale /\ since' \in Nat /\ since' <= since
  BY <1>1, <1>2, StaleIsNat DEF BankTypeOK
<1>5. \A q \in Packs : mos[q].age \in 0..Stale
  BY <1>1 DEF BankTypeOK
<1>6. counts.age \in 0..Stale
  BY <1>1 DEF BankTypeOK
<1>7. MosInv'
  BY <1>1, <1>2, <1>4, <1>5, StaleIsNat DEF MosInv, Fresh
<1>8. CountsInv'
  BY <1>1, <1>2, <1>4, <1>6, StaleIsNat DEF CountsInv, Fresh
<1>9. SinceInv'
  BY <1>2 DEF SinceInv, Accepting
<1> QED
  BY <1>3, <1>7, <1>8, <1>9 DEF BankInv

LEMMA HearStep ==
    ASSUME BankInv, Hear
    PROVE  BankInv'
<1>1. BankTypeOK /\ MosInv /\ CountsInv /\ SinceInv
  BY DEF BankInv
<1>2. UNCHANGED <<linked, accepts, since, steady>> /\ SinceInv'
  BY <1>1 DEF Hear, SinceInv, Accepting
<1>3. linked \in SUBSET Packs /\ since \in 0..Stale /\ steady \in 0..Stale
  BY <1>1 DEF BankTypeOK
<1>4. ASSUME NEW p \in linked, ReceiveMos(p, p \in accepts)
      PROVE  BankInv'
  <2>1. /\ seen' = seen \cup {p} /\ UNCHANGED <<allow, counts, limits, voltage>>
        /\ mos' = [mos EXCEPT ![p] = [age |-> 0, closed |-> p \in accepts]]
    BY <1>4 DEF ReceiveMos
  <2>2. p \in Packs /\ (p \in accepts => since = 0)
    BY <1>1, <1>3 DEF SinceInv, Accepting
  <2>3. \A q \in Packs : mos'[q] = IF q = p THEN [age |-> 0, closed |-> p \in accepts] ELSE mos[q]
    BY <1>1, <2>1 DEF BankTypeOK
  <2>4. BankTypeOK'
    <3>1. [age |-> 0, closed |-> p \in accepts] \in [age : 0..Stale, closed : BOOLEAN]
      BY StaleIsNat
    <3>2. mos' \in [Packs -> [age : 0..Stale, closed : BOOLEAN]]
      BY <1>1, <2>1, <3>1 DEF BankTypeOK
    <3> QED
      BY <1>1, <1>2, <1>3, <2>1, <3>2 DEF BankTypeOK, Stale
  <2>5. MosInv'
    <3> SUFFICES ASSUME NEW q \in Packs, mos'[q].age <= CriticalFor
                 PROVE  /\ q \in seen'
                        /\ mos'[q].closed => since <= mos'[q].age
                        /\ mos'[q].age < steady =>
                             q \in linked /\ (mos'[q].closed <=> q \in accepts)
      BY <1>2 DEF MosInv, Fresh
    <3>1. CASE q = p
      <4>1. mos'[q] = [age |-> 0, closed |-> p \in accepts]
        BY <2>3, <3>1
      <4>2. mos'[q].age = 0 /\ mos'[q].closed = (p \in accepts)
        BY ONLY <4>1
      <4>3. q \in seen' /\ q \in linked
        BY <1>4, <2>1, <3>1
      <4>4. mos'[q].closed => p \in accepts
        BY ONLY <4>2, Zenon
      <4>5. p \in accepts => since <= mos'[q].age
        <5>1. mos'[q].age = 0
          BY <4>2
        <5> QED
          BY <2>2, <5>1
      <4>6. mos'[q].closed <=> q \in accepts
        BY ONLY <3>1, <4>2
      <4> QED
        BY <4>3, <4>4, <4>5, <4>6
    <3>2. CASE q # p
      BY <1>1, <2>1, <2>3, <3>2 DEF MosInv, Fresh
    <3> QED
      BY <3>1, <3>2
  <2>6. CountsInv'
    BY <1>1, <1>2, <2>1 DEF CountsInv, Fresh
  <2> QED
    BY <1>2, <2>4, <2>5, <2>6 DEF BankInv
<1>5. ASSUME NEW p \in linked, ReceiveAllowance(p)
      PROVE  BankInv'
  <2>1. seen' = seen \cup {p} /\ allow' = allow \cup {p} /\ UNCHANGED <<mos, counts, limits, voltage>>
    BY <1>5 DEF ReceiveAllowance
  <2>2. BankTypeOK'
    BY <1>1, <1>2, <1>3, <2>1 DEF BankTypeOK, Stale
  <2>3. MosInv' /\ CountsInv'
    BY <1>1, <1>2, <2>1 DEF MosInv, CountsInv, Fresh
  <2> QED
    BY <1>2, <2>2, <2>3 DEF BankInv
<1>6. CASE ReceiveCounts(Cardinality(linked), Cardinality(linked \ accepts))
  <2>1. /\ UNCHANGED <<seen, mos, allow, limits, voltage>>
        /\ counts' = [age |-> 0, connected |-> Cardinality(linked),
                      blocking |-> Cardinality(linked \ accepts)]
    BY <1>6 DEF ReceiveCounts
  <2>2. Cardinality(linked) \in Nat /\ Cardinality(linked \ accepts) \in Nat
    BY <1>3, PacksCounted
  <2>3. Cardinality(linked) > 0
    <3>1. First \in linked /\ IsFiniteSet(linked)
      BY <1>1, <1>3, PacksCounted DEF BankTypeOK
    <3> QED
      BY <2>2, <3>1, FS_EmptySet
  <2>4. Cardinality(linked \ accepts) < Cardinality(linked) => since = 0
    <3>1. ASSUME Accepting = {} PROVE linked \ accepts = linked
      BY <3>1 DEF Accepting
    <3> QED
      BY <1>1, <2>2, <3>1 DEF SinceInv
  <2>5. BankTypeOK'
    BY <1>1, <1>2, <2>1, <2>2, StaleIsNat DEF BankTypeOK, Stale
  <2>6. MosInv'
    BY <1>1, <1>2, <2>1 DEF MosInv, Fresh
  <2>7. CountsInv'
    BY <1>2, <2>1, <2>3, <2>4 DEF CountsInv
  <2> QED
    BY <1>2, <2>5, <2>6, <2>7 DEF BankInv
<1>7. ASSUME NEW packs \in {Accepting, Packs}, NEW volts \in CvlRequests,
             ReceiveLimits(Amperes(packs), volts)
      PROVE  BankInv'
  <2>1. /\ UNCHANGED <<seen, mos, allow, counts>>
        /\ limits' = [age |-> 0, amperes |-> Amperes(packs)]
        /\ voltage' = [age |-> 0, volts |-> volts]
    BY <1>7 DEF ReceiveLimits
  <2>2. Amperes(packs) \in Nat /\ volts \in Nat
    BY <1>3, AmperesNat, CvlAssumption DEF Accepting
  <2>3. BankTypeOK'
    BY <1>1, <1>2, <2>1, <2>2, StaleIsNat DEF BankTypeOK, Stale
  <2>4. MosInv' /\ CountsInv'
    BY <1>1, <1>2, <2>1 DEF MosInv, CountsInv, Fresh
  <2> QED
    BY <1>2, <2>3, <2>4 DEF BankInv
<1>8. ASSUME NEW volts \in CvlRequests, RefuseCurrents(volts)
      PROVE  BankInv'
  <2>1. /\ UNCHANGED <<seen, mos, allow, counts, limits>>
        /\ voltage' = [age |-> 0, volts |-> volts]
    BY <1>8 DEF RefuseCurrents
  <2>2. BankTypeOK'
    BY <1>1, <1>2, <2>1, CvlAssumption, StaleIsNat DEF BankTypeOK, Stale
  <2>3. MosInv' /\ CountsInv'
    BY <1>1, <1>2, <2>1 DEF MosInv, CountsInv, Fresh
  <2> QED
    BY <1>2, <2>2, <2>3 DEF BankInv
<1>9. CASE RejectLimits
  <2>1. UNCHANGED <<seen, mos, allow, counts, limits, voltage>>
    BY <1>9 DEF RejectLimits, cache
  <2> QED
    BY <1>1, <1>2, <2>1 DEF BankInv, BankTypeOK, MosInv, CountsInv, Fresh, Stale
<1>10. ASSUME NEW p \in Packs, ExpireAllowance(p)
      PROVE  BankInv'
  <2>1. allow' = allow \ {p} /\ UNCHANGED <<seen, mos, counts, limits, voltage>>
    BY <1>10 DEF ExpireAllowance
  <2>2. BankTypeOK'
    BY <1>1, <1>2, <2>1 DEF BankTypeOK, Stale
  <2>3. MosInv' /\ CountsInv'
    BY <1>1, <1>2, <2>1 DEF MosInv, CountsInv, Fresh
  <2> QED
    BY <1>2, <2>2, <2>3 DEF BankInv
<1> QED
  BY <1>4, <1>5, <1>6, <1>7, <1>8, <1>9, <1>10 DEF Hear

LEMMA BankStep == BankInv /\ [BNext]_bvars => BankInv'
<1> SUFFICES ASSUME BankInv, [BNext]_bvars PROVE BankInv'
  OBVIOUS
<1>1. ASSUME UNCHANGED bvars PROVE BankInv'
  <2>1. UNCHANGED <<seen, mos, allow, counts, limits, voltage, linked, accepts, since, steady>>
    BY <1>1 DEF bvars, cache
  <2> QED
    BY <2>1 DEF BankInv, BankTypeOK, MosInv, CountsInv, SinceInv, Fresh, Stale, Accepting
<1> QED
  BY <1>1, TickStep, HearStep, ChangeStep DEF BNext

\* What the driver knows of a bank that has stood for longer than the freshness limit.
LEMMA StandingBank ==
    ASSUME BankInv, CriticalReady, Fresh(counts), steady = Stale, Accepting # {}
    PROVE  /\ linked \in SUBSET Packs /\ Accepting \in SUBSET linked
           /\ Closed = Online \cap accepts /\ (Complete <=> Online = linked)
           /\ ~Multiple => Complete /\ Accepting = {First}
           /\ limits.amperes \in Nat
           /\ MosClosed
<1>1. BankTypeOK /\ MosInv /\ CountsInv
  BY DEF BankInv
<1>2. /\ linked \in SUBSET Packs /\ Accepting \in SUBSET linked
      /\ Online \in SUBSET linked /\ Closed = Online \cap accepts
  <2>1. ASSUME NEW p \in Online PROVE p \in linked /\ (mos[p].closed <=> p \in accepts)
    <3>1. p \in Packs /\ Fresh(mos[p]) /\ mos[p].age \in 0..Stale
      BY <1>1 DEF Online, BankTypeOK
    <3> QED
      BY <1>1, <3>1, StaleIsNat DEF MosInv, Fresh
  <2> QED
    BY <1>1, <2>1 DEF BankTypeOK, Closed, Accepting
<1>3. /\ IsFiniteSet(linked) /\ Cardinality(linked) \in Nat
      /\ Cardinality(Online) \in Nat /\ Cardinality(Online) <= Cardinality(linked)
      /\ Cardinality(linked) = Cardinality(Online) => linked = Online
  BY <1>2, PacksCounted, FS_Subset
<1>4. /\ counts.connected = Cardinality(linked) /\ counts.connected > 0
      /\ counts.blocking = Cardinality(linked \ accepts)
  <2>1. counts.age \in 0..Stale
    BY <1>1 DEF BankTypeOK
  <2> QED
    BY <1>1, <2>1, StaleIsNat DEF CountsInv, Fresh
<1>5. Expected = Cardinality(linked)
  BY <1>3, <1>4 DEF Expected
<1>6. Complete <=> Online = linked
  <2>1. seen # {}
    BY DEF CriticalReady, Online
  <2> QED
    BY <1>3, <1>5, <2>1 DEF Complete
<1>7. limits.amperes \in Nat /\ First \in Online /\ First \in linked
  BY <1>1, <1>2 DEF BankTypeOK, CriticalReady
<1>8. ~Multiple => Complete /\ Accepting = {First}
  <2> SUFFICES ASSUME ~Multiple PROVE Complete /\ Accepting = {First}
    OBVIOUS
  <2>1. Cardinality(linked) = 1
    BY <1>3, <1>4, <1>5 DEF Multiple
  <2>2. linked = {First}
    BY <1>3, <1>7, <2>1, FS_Singleton
  <2> QED
    BY <1>2, <1>6, <1>7, <2>2
<1>9. MosClosed
  <2>1. CASE Complete
    BY <1>2, <1>6, <2>1 DEF MosClosed, Accepting
  <2>2. CASE ~Complete
    <3>1. linked \ accepts # linked /\ linked \ accepts \in SUBSET linked
      BY DEF Accepting
    <3>2. counts.blocking < Cardinality(linked)
      BY <1>2, <1>3, <1>4, <3>1, FS_Subset, PacksCounted
    <3> QED
      BY <1>5, <1>8, <2>2, <3>2 DEF MosClosed, BlockingCountAllows
  <2> QED
    BY <2>1, <2>2
<1> QED
  BY <1>2, <1>6, <1>7, <1>8, <1>9

-----------------------------------------------------------------------------
(* The theorems. *)

\* The invariant behind the results below: what a frame that is still fresh tells of the
\* bank (packs.py:71-91, cache.py:97-134).
THEOREM BankInvariance == BSpec => []BankInv
<1> QED
  BY InitialBank, BankStep, PTL DEF BSpec

\* Types of the cached frames and of the bank; no pack has a value without being known.
THEOREM BankTypes == BSpec => []BankTypeOK
<1>1. BankInv => BankTypeOK
  BY DEF BankInv
<1> QED
  BY <1>1, BankInvariance, PTL

\* For a bank of any number of packs: once no pack has accepted current for longer than the
\* freshness limit, nothing is published that permits it (policy.py:503-537).
THEOREM PermissionIsBacked == BSpec => []PermissionBacked
<1>1. ASSUME BankInv PROVE PermissionBacked
  <2> SUFFICES ASSUME CriticalReady, since = Stale
               PROVE  Ccl = 0 /\ Cvl <= CvlBlocked /\ Dcl = 0
    BY DEF PermissionBacked
  <2>1. BankTypeOK /\ MosInv /\ CountsInv
    BY <1>1 DEF BankInv
  <2>2. Closed = {}
    <3> SUFFICES ASSUME NEW p \in Closed PROVE FALSE
      OBVIOUS
    <3>1. p \in Packs /\ Fresh(mos[p]) /\ mos[p].closed /\ mos[p].age \in 0..Stale
      BY <2>1 DEF Closed, Online, BankTypeOK
    <3>2. since <= mos[p].age
      BY <2>1, <3>1 DEF MosInv
    <3> QED
      BY <3>1, <3>2, StaleIsNat DEF Fresh
  <2>3. ~BlockingCountAllows
    <3> SUFFICES ASSUME BlockingCountAllows PROVE FALSE
      OBVIOUS
    <3>1. Fresh(counts) /\ ~Complete /\ counts.blocking < Expected
      BY DEF BlockingCountAllows
    <3>2. /\ counts.age \in 0..Stale /\ counts.connected \in Nat /\ counts.blocking \in Nat
          /\ counts.connected > 0
          /\ counts.blocking < counts.connected => since <= counts.age
      BY <2>1, <3>1 DEF BankTypeOK, CountsInv
    <3>3. Cardinality(Online) \in Nat
      BY <2>1, PacksCounted DEF Online, BankTypeOK
    <3>4. Expected = IF counts.connected > Cardinality(Online) THEN counts.connected
                     ELSE Cardinality(Online)
      BY <3>1, <3>2 DEF Expected
    <3>5. Cardinality(Online) < Expected
      <4>1. seen # {}
        BY DEF CriticalReady, Online
      <4> QED
        BY <3>1, <3>2, <3>3, <3>4, <4>1 DEF Complete
    <3>6. Expected = counts.connected
      BY <3>2, <3>3, <3>4, <3>5
    <3>7. since <= counts.age
      BY <3>1, <3>2, <3>6
    <3> QED
      BY <3>1, <3>2, <3>7, StaleIsNat DEF Fresh
  <2>4. Ccl = 0 /\ Dcl = 0
    BY <2>2, <2>3 DEF Ccl, Dcl, MosClosed
  <2>5. Cvl <= CvlBlocked
    <3>1. voltage.volts \in Nat
      BY <2>1 DEF BankTypeOK
    <3> QED
      BY <2>4, <3>1, CvlAssumption DEF Cvl
  <2> QED
    BY <2>4, <2>5
<1> QED
  BY <1>1, BankInvariance, PTL

\* For a bank of any number of packs: a standing bank gets what it asks for, whichever
\* frames of its packs are lost (packs.py:98-162).
THEOREM StandingBankIsCharged == BSpec => []StandingBankCharges
<1>1. ASSUME BankInv PROVE StandingBankCharges
  <2> SUFFICES ASSUME CriticalReady, Fresh(counts), steady = Stale, Accepting # {},
                      limits.amperes <= Amperes(Accepting)
               PROVE  Ccl = limits.amperes
    BY CvlAssumption DEF StandingBankCharges, Cvl
  <2>1. /\ linked \in SUBSET Packs /\ Accepting \in SUBSET linked
        /\ Closed = Online \cap accepts /\ (Complete <=> Online = linked)
        /\ ~Multiple => Complete /\ Accepting = {First}
        /\ limits.amperes \in Nat /\ MosClosed
    BY <1>1, StandingBank
  <2>2. Ceiling = None \/ (Ceiling \in Nat /\ Ceiling >= limits.amperes)
    <3>1. CASE Complete
      <4>1. Closed = Accepting
        BY <2>1, <3>1 DEF Accepting
      <4>2. Ceiling = None \/ Ceiling = Amperes(Accepting) + Cardinality(Accepting)
        BY <2>1, <4>1 DEF Ceiling
      <4>3. Amperes(Accepting) \in Nat /\ Cardinality(Accepting) \in Nat
        BY <2>1, AmperesNat, PacksCounted
      <4> QED
        BY <2>1, <4>2, <4>3
    <3>2. CASE ~Complete
      BY <2>1, <3>2 DEF Ceiling
    <3> QED
      BY <3>1, <3>2
  <2> QED
    BY <2>1, <2>2 DEF Ccl, None
<1> QED
  BY <1>1, BankInvariance, PTL

\* For a bank of any number of packs: while all are heard, the published current is no more
\* than they allow together, however high the pulses of the master are (packs.py:116-147).
THEOREM StandingBankTakesNoMore == BSpec => []StandingBankIsCapped
<1>1. ASSUME BankInv PROVE StandingBankIsCapped
  <2> SUFFICES ASSUME CriticalReady, Fresh(counts), steady = Stale, Accepting # {},
                      Complete, Accepting \subseteq allow
               PROVE  Ccl <= Amperes(Accepting) + Cardinality(Accepting)
    BY DEF StandingBankIsCapped
  <2>1. /\ linked \in SUBSET Packs /\ Accepting \in SUBSET linked
        /\ Closed = Online \cap accepts /\ Online = linked
        /\ ~Multiple => Accepting = {First}
        /\ limits.amperes \in Nat /\ MosClosed
    BY <1>1, StandingBank
  <2>2. Closed = Accepting
    BY <2>1 DEF Accepting
  <2>3. Ceiling = Amperes(Accepting) + Cardinality(Accepting)
    BY <2>1, <2>2 DEF Ceiling
  <2>4. Amperes(Accepting) \in Nat /\ Cardinality(Accepting) \in Nat
    BY <2>1, AmperesNat, PacksCounted
  <2> QED
    BY <2>1, <2>3, <2>4 DEF Ccl, None
<1> QED
  BY <1>1, BankInvariance, PTL

\* For a bank of any number of packs: a standing bank is never kept from discharging by a
\* lost frame or by what its packs allow (packs.py:107-114, policy.py:524-533).
THEOREM StandingBankIsDischarged == BSpec => []StandingBankDischarges
<1>1. BankInv => StandingBankDischarges
  BY StandingBank DEF StandingBankDischarges, Dcl
<1> QED
  BY <1>1, BankInvariance, PTL

-----------------------------------------------------------------------------
(* The system TLC checks: a bank and the alarms of a bank. *)

\* What TLC checks is a behaviour of the bank and one of the alarms.
LEMMA BankOfBoth == MCSpec => BSpec /\ ASpec
<1>1. MCInit => BInit /\ AInit
  BY DEF MCInit
<1>2. [MCNext]_<<part, bvars, avars>> => [BNext]_bvars /\ [ANext]_avars
  BY DEF MCNext
<1> QED
  BY <1>1, <1>2, PTL DEF MCSpec, BSpec, ASpec

\* The types of the bank's fields and of its alarms, for any number of packs: no pack
\* contributes that was not heard, and ages stop where a field is stale.
THEOREM BankRunTypes == MCSpec => []BankRunTypeOK
<1>1. BankTypeOK /\ AlarmsTypeOK => BankRunTypeOK
  BY DEF BankRunTypeOK
<1> QED
  BY <1>1, BankOfBoth, BankTypes, AlarmTypes, PTL
====
