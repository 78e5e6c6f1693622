---------------------------- MODULE InstanceProofs ----------------------------
(***************************************************************************)
(* Proofs about Instances, for any adapters and packs: no two batteries    *)
(* publish one granted number.                                             *)
(***************************************************************************)
EXTENDS Instances, SequenceTheorems, TLAPS

\* What the invariant says of one driver process, given the reservations.
Good(a, q, reservations) ==
    /\ q \in ProcState
    /\ q.point = "up" => q.instance \in Nat
    /\ q.point = "lookup" => q.left # <<>>
    /\ q.point \in {"selection", "lookup", "allocate"} => q.ids # <<>>
    /\ q.point = "selection" => q.left # <<>>
    /\ q.ids \in Seq(OwnIds(a)) /\ q.left \in Seq(OwnIds(a))
    /\ q.point = "down" => q.ids = <<>> /\ q.left = <<>>
    /\ q.point = "up" /\ q.source \in {"reserved", "allocated"}
         => q.id \in OwnIds(a) /\ reservations[q.id] = q.instance

LEMMA InvIsGood ==
    IInv <=> /\ store \in [Ids -> Nat \cup {None, OtherClass}]
             /\ selected \in Nat \cup {None}
             /\ cable \in [Adapters -> Packs]
             /\ upsets \in Nat
             /\ proc \in [Adapters -> ProcState]
             /\ CablesInv /\ StoreInv
             /\ \A a \in Adapters : Good(a, proc[a], store)
  BY DEF IInv, InstanceTypeOK, OwnInv, GrantedInv, Good, Up, Granted

LEMMA OwnIdsAreIds ==
    ASSUME cable \in [Adapters -> Packs], NEW a \in Adapters
    PROVE  OwnIds(a) \subseteq Ids
  BY DEF OwnIds, Ids

LEMMA StockIsId == StockId \in Ids
  BY DEF Ids

LEMMA DownGood ==
    ASSUME NEW a \in Adapters
    PROVE  Down \in ProcState /\ Good(a, Down, store)
<1>1. <<>> \in Seq(Ids) /\ <<>> \in Seq(OwnIds(a))
  OBVIOUS
<1>2. Down \in ProcState
  BY <1>1, StockIsId DEF Down, ProcState, Points, Sources
<1> QED
  BY <1>1, <1>2 DEF Good, Down

\* A number without a grant, or one that is reserved for the identity asked for.
LEMMA SettledGood ==
    ASSUME NEW a \in Adapters, NEW q, Good(a, q, store), NEW reservations,
           NEW n \in Nat, NEW source \in Sources, NEW id \in Ids,
           source \in {"reserved", "allocated"} => id \in OwnIds(a) /\ reservations[id] = n
    PROVE  Good(a, Settled(q, n, source, id), reservations)
<1> DEFINE s == Settled(q, n, source, id)
<1>1. q \in ProcState /\ q.ids \in Seq(OwnIds(a)) /\ q.left \in Seq(OwnIds(a))
  BY DEF Good
<1>2. s = [q EXCEPT !.point = "up", !.instance = n, !.source = source, !.id = id]
  BY DEF Settled
<1> HIDE DEF s
<1>3. /\ s.point = "up" /\ s.instance = n /\ s.source = source /\ s.id = id
      /\ s.ids = q.ids /\ s.left = q.left /\ s.seen = q.seen
  BY <1>1, <1>2 DEF ProcState
<1>4. "up" \in Points /\ n \in Nat \cup {None}
  BY DEF Points
<1>5. s \in ProcState
  <2>1. s = [point |-> "up", ids |-> q.ids, left |-> q.left, seen |-> q.seen,
             instance |-> n, source |-> source, id |-> id]
    BY <1>1, <1>2 DEF ProcState
  <2>2. q.ids \in Seq(Ids) /\ q.left \in Seq(Ids) /\ q.seen \in Nat \cup {None}
    BY <1>1 DEF ProcState
  <2> QED
    BY <1>4, <2>1, <2>2, Zenon DEF ProcState
<1> QED
  <2>1. /\ s.point = "up" => s.instance \in Nat
        /\ s.point \notin {"selection", "lookup", "allocate", "down"}
        /\ s.source \in {"reserved", "allocated"} =>
             s.id \in OwnIds(a) /\ reservations[s.id] = s.instance
    BY <1>3
  <2>2. s.ids \in Seq(OwnIds(a)) /\ s.left \in Seq(OwnIds(a))
    BY <1>1, <1>3
  <2>3. Good(a, s, reservations)
    BY <1>5, <2>1, <2>2, Zenon DEF Good
  <2> QED
    BY <2>3 DEF s

LEMMA CandidatesAreOwn ==
    ASSUME NEW a \in Adapters, NEW serial \in BOOLEAN
    PROVE  Candidates(a, serial) \in Seq(OwnIds(a)) /\ Candidates(a, serial) # <<>>
<1>1. /\ SerialId(cable[a]) \in OwnIds(a) /\ InterfaceId(a) \in OwnIds(a)
      /\ ExplicitId(a) \in OwnIds(a)
  BY DEF OwnIds
<1> DEFINE first  == IF a \in Explicit THEN <<ExplicitId(a)>> ELSE <<>>
           second == IF serial THEN <<SerialId(cable[a])>> ELSE <<>>
           third  == <<InterfaceId(a)>>
<1>2. first \in Seq(OwnIds(a)) /\ second \in Seq(OwnIds(a)) /\ third \in Seq(OwnIds(a))
  BY <1>1
<1>3. Len(third) = 1
  OBVIOUS
<1>4. Candidates(a, serial) = (first \o second) \o third
  BY DEF Candidates
<1> HIDE DEF first, second, third
<1>5. first \o second \in Seq(OwnIds(a))
  BY <1>2
<1>6. (first \o second) \o third \in Seq(OwnIds(a))
      /\ Len((first \o second) \o third) = Len(first \o second) + Len(third)
  BY <1>2, <1>5
<1>7. Len(first \o second) \in Nat
  BY <1>5
<1> QED
  BY <1>3, <1>4, <1>6, <1>7

\* The identities of different adapters are different.
LEMMA OwnIdsDisjoint ==
    ASSUME CablesInv, NEW a \in Adapters, NEW b \in Adapters,
           NEW id \in OwnIds(a), id \in OwnIds(b)
    PROVE  a = b
  BY DEF CablesInv, OwnIds, SerialId, InterfaceId, ExplicitId

-----------------------------------------------------------------------------

\* One process becomes q; what the others hold is still reserved for them.
LEMMA OneMoves ==
    ASSUME IInv, NEW a \in Adapters, NEW q, Good(a, q, store'),
           \A b \in Adapters : Good(b, proc[b], store'),
           proc' = [proc EXCEPT ![a] = q],
           store' \in [Ids -> Nat \cup {None, OtherClass}], StoreInv',
           UNCHANGED <<selected, cable>>, upsets' \in Nat
    PROVE  IInv'
<1>1. q \in ProcState
  BY DEF Good
<1>2. proc' \in [Adapters -> ProcState]
      /\ \A b \in Adapters : proc'[b] = IF b = a THEN q ELSE proc[b]
  BY <1>1, InvIsGood
<1>3. \A b \in Adapters : Good(b, proc'[b], store')
  BY <1>2
<1>4. \A b \in Adapters : OwnIds(b)' = OwnIds(b)
  BY DEF OwnIds
<1>5. selected' \in Nat \cup {None} /\ cable' \in [Adapters -> Packs] /\ CablesInv'
  BY InvIsGood DEF CablesInv
<1>6. InstanceTypeOK'
  BY <1>2, <1>3, <1>5 DEF InstanceTypeOK, Good
<1>7. OwnInv'
  BY <1>3, <1>4 DEF OwnInv, Good
<1>8. GrantedInv'
  BY <1>3, <1>4 DEF GrantedInv, Good, Up, Granted
<1> QED
  BY <1>5, <1>6, <1>7, <1>8 DEF IInv

LEMMA OneChanges ==
    ASSUME IInv, NEW a \in Adapters, NEW q, Good(a, q, store),
           proc' = [proc EXCEPT ![a] = q],
           UNCHANGED <<store, selected, cable>>, upsets' \in Nat
    PROVE  IInv'
<1>1. store' \in [Ids -> Nat \cup {None, OtherClass}] /\ StoreInv'
  BY InvIsGood DEF StoreInv
<1>2. Good(a, q, store') /\ \A b \in Adapters : Good(b, proc[b], store')
  BY InvIsGood
<1> QED
  BY <1>1, <1>2, OneMoves

LEMMA InitialInstances == NInit => IInv
<1> SUFFICES ASSUME NInit PROVE IInv
  OBVIOUS
<1>1. /\ store \in [Ids -> Nat \cup {None, OtherClass}] /\ selected \in Nat \cup {None}
      /\ cable \in [Adapters -> Packs] /\ upsets \in Nat /\ CablesInv
  BY PreferredAssumption DEF NInit, CablesInv
<1>2. StoreInv
  <2>1. ASSUME NEW id \in Ids, store[id] \in Nat PROVE id = StockId
    BY <2>1 DEF NInit, None, OtherClass
  <2> QED
    BY <2>1 DEF StoreInv
<1>3. \A a \in Adapters : proc[a] = Down
  BY DEF NInit
<1>4. \A a \in Adapters : Good(a, proc[a], store)
  BY <1>3, DownGood
<1>5. proc \in [Adapters -> ProcState]
  BY DownGood DEF NInit
<1> QED
  BY <1>1, <1>2, <1>4, <1>5, InvIsGood

-----------------------------------------------------------------------------
(* The steps. *)

LEMMA StartGood ==
    ASSUME IInv, NEW a \in Adapters, NEW serial \in BOOLEAN, Starting(a, serial)
    PROVE  IInv'
<1> DEFINE q == [Down EXCEPT !.point = "selection", !.ids = Candidates(a, serial),
                             !.left = Candidates(a, serial)]
<1>1. Candidates(a, serial) \in Seq(OwnIds(a)) /\ Candidates(a, serial) # <<>>
  BY CandidatesAreOwn
<1>2. Candidates(a, serial) \in Seq(Ids)
  BY <1>1, OwnIdsAreIds, InvIsGood, SeqMonotonic
<1>0. q = [Down EXCEPT !.point = "selection", !.ids = Candidates(a, serial),
                       !.left = Candidates(a, serial)]
  OBVIOUS
<1>6. proc' = [proc EXCEPT ![a] = q] /\ UNCHANGED <<store, selected, cable>>
  BY DEF Starting, Start
<1> HIDE DEF q
<1>3. q = [point |-> "selection", ids |-> Candidates(a, serial), left |-> Candidates(a, serial),
           seen |-> None, instance |-> None, source |-> "none", id |-> StockId]
  BY <1>0 DEF Down
<1>4. q \in ProcState
  BY <1>2, <1>3, StockIsId DEF ProcState, Points, Sources
<1>5. Good(a, q, store)
  BY <1>1, <1>3, <1>4 DEF Good
<1>7. upsets' \in Nat
  BY InvIsGood DEF Starting, Upset
<1> QED
  BY <1>5, <1>6, <1>7, OneChanges

LEMMA StopGood ==
    ASSUME IInv, NEW a \in Adapters, Stopping(a)
    PROVE  IInv'
<1>1. Good(a, Down, store)
  BY DownGood
<1>2. proc' = [proc EXCEPT ![a] = Down] /\ UNCHANGED <<store, selected, cable>>
      /\ upsets' \in Nat
  BY InvIsGood DEF Stopping, Stop
<1> QED
  BY <1>1, <1>2, OneChanges

LEMMA ReadSelectedGood ==
    ASSUME IInv, NEW a \in Adapters, NEW ok \in BOOLEAN, ReadSelected(a, ok), upsets' \in Nat
    PROVE  IInv'
<1> DEFINE p == proc[a]
           seen == IF ok THEN selected ELSE None
           q == IF a \notin AutoInstance THEN Settled(p, Preferred, "configured", StockId)
                ELSE IF seen = Preferred THEN Settled(p, Preferred, "pinned", StockId)
                ELSE [p EXCEPT !.point = "lookup", !.seen = seen]
<1>1. Good(a, p, store) /\ p \in ProcState /\ p.point = "selection"
  BY InvIsGood DEF ReadSelected
<1>2. seen \in Nat \cup {None}
  BY InvIsGood
<1>3. proc' = [proc EXCEPT ![a] = q]
  BY Zenon DEF ReadSelected
<1>7. UNCHANGED <<store, selected, cable>>
  BY DEF ReadSelected
<1> HIDE DEF p, seen
<1>4. /\ Good(a, Settled(p, Preferred, "configured", StockId), store)
      /\ Good(a, Settled(p, Preferred, "pinned", StockId), store)
  <2>1. "configured" \in Sources /\ "pinned" \in Sources
        /\ "configured" \notin {"reserved", "allocated"} /\ "pinned" \notin {"reserved", "allocated"}
    BY DEF Sources
  <2> QED
    BY <1>1, <2>1, SettledGood, StockIsId, PreferredAssumption
<1>5. Good(a, [p EXCEPT !.point = "lookup", !.seen = seen], store)
  <2> DEFINE r == [p EXCEPT !.point = "lookup", !.seen = seen]
  <2>0. r = [p EXCEPT !.point = "lookup", !.seen = seen]
    OBVIOUS
  <2> HIDE DEF r
  <2>1. r = [point |-> "lookup", ids |-> p.ids, left |-> p.left, seen |-> seen,
             instance |-> p.instance, source |-> p.source, id |-> p.id]
    BY <1>1, <2>0 DEF ProcState
  <2>2. r \in ProcState
    BY <1>1, <1>2, <2>1 DEF ProcState, Points
  <2>3. Good(a, r, store)
    BY <1>1, <2>1, <2>2 DEF Good
  <2> QED
    BY <2>3 DEF r
<1>6. Good(a, q, store)
  BY <1>4, <1>5
<1> QED
  BY <1>3, <1>6, <1>7, OneChanges

LEMMA LookupGood ==
    ASSUME IInv, NEW a \in Adapters, NEW ok \in BOOLEAN, Lookup(a, ok), upsets' \in Nat
    PROVE  IInv'
<1> DEFINE p == proc[a]
           id == Head(p.left)
           found == IF ok THEN store[id] ELSE None
           q == IF found \in Nat THEN Settled(p, found, "reserved", id)
                ELSE IF Tail(p.left) = <<>> THEN [p EXCEPT !.point = "allocate", !.left = <<>>]
                ELSE [p EXCEPT !.left = Tail(p.left)]
<1>1. Good(a, p, store) /\ p \in ProcState /\ p.point = "lookup" /\ p.left # <<>>
      /\ p.left \in Seq(OwnIds(a)) /\ p.left \in Seq(Ids)
  BY InvIsGood DEF Lookup, Good, ProcState
<1>2. id \in OwnIds(a) /\ id \in Ids
      /\ Tail(p.left) \in Seq(OwnIds(a)) /\ Tail(p.left) \in Seq(Ids)
  BY <1>1, HeadTailProperties
<1>3. proc' = [proc EXCEPT ![a] = q]
  BY Zenon DEF Lookup
<1>8. UNCHANGED <<store, selected, cable>>
  BY DEF Lookup
<1> HIDE DEF p, id
<1>4. ASSUME found \in Nat
      PROVE  Good(a, Settled(p, found, "reserved", id), store)
  <2>1. found = store[id]
    BY <1>4 DEF None
  <2>2. "reserved" \in Sources
    BY DEF Sources
  <2> HIDE DEF found
  <2> QED
    BY <1>1, <1>2, <1>4, <2>1, <2>2, SettledGood
<1>5. Good(a, [p EXCEPT !.point = "allocate", !.left = <<>>], store)
  <2> DEFINE r == [p EXCEPT !.point = "allocate", !.left = <<>>]
  <2>0. r = [p EXCEPT !.point = "allocate", !.left = <<>>]
    OBVIOUS
  <2> HIDE DEF r
  <2>1. r = [point |-> "allocate", ids |-> p.ids, left |-> <<>>, seen |-> p.seen,
             instance |-> p.instance, source |-> p.source, id |-> p.id]
    BY <1>1, <2>0 DEF ProcState
  <2>2. <<>> \in Seq(Ids) /\ <<>> \in Seq(OwnIds(a))
    OBVIOUS
  <2>3. r \in ProcState
    BY <1>1, <2>1, <2>2 DEF ProcState, Points
  <2>4. Good(a, r, store)
    BY <1>1, <2>1, <2>2, <2>3 DEF Good
  <2> QED
    BY <2>4 DEF r
<1>6. ASSUME Tail(p.left) # <<>>
      PROVE  Good(a, [p EXCEPT !.left = Tail(p.left)], store)
  <2> DEFINE r == [p EXCEPT !.left = Tail(p.left)]
  <2>0. r = [p EXCEPT !.left = Tail(p.left)]
    OBVIOUS
  <2> HIDE DEF r
  <2>1. r = [point |-> p.point, ids |-> p.ids, left |-> Tail(p.left), seen |-> p.seen,
             instance |-> p.instance, source |-> p.source, id |-> p.id]
    BY <1>1, <2>0 DEF ProcState
  <2>2. r \in ProcState
    BY <1>1, <1>2, <2>1 DEF ProcState
  <2>3. Good(a, r, store)
    BY <1>1, <1>2, <1>6, <2>1, <2>2 DEF Good
  <2> QED
    BY <2>3 DEF r
<1>7. Good(a, q, store)
  BY <1>4, <1>5, <1>6
<1> QED
  BY <1>3, <1>7, <1>8, OneChanges

LEMMA AllocateGood ==
    ASSUME IInv, NEW a \in Adapters, NEW ok \in BOOLEAN, NEW n \in Nat, Allocate(a, ok, n),
           upsets' \in Nat
    PROVE  IInv'
<1> DEFINE p == proc[a]
           id == Head(p.ids)
           q == IF ok /\ store'[id] \in Nat THEN Settled(p, store'[id], "allocated", id)
                ELSE Settled(p, Preferred, "fallback", StockId)
<1>1. Good(a, p, store) /\ p.point = "allocate" /\ p.ids # <<>> /\ p.ids \in Seq(OwnIds(a))
  BY InvIsGood DEF Allocate, Good
<1>2. id \in OwnIds(a) /\ id \in Ids
  BY <1>1, HeadTailProperties, OwnIdsAreIds, InvIsGood
<1>3. proc' = [proc EXCEPT ![a] = q]
  BY Zenon DEF Allocate
<1>4. UNCHANGED <<selected, cable>>
  BY DEF Allocate
<1>5. \/ store[id] = None /\ Grant(n) /\ store' = [store EXCEPT ![id] = n]
      \/ store' = store
  BY DEF Allocate
<1> HIDE DEF p, id
<1>6. ASSUME Good(a, p, store')
      PROVE  Good(a, q, store')
  <2>1. "allocated" \in Sources /\ "fallback" \in Sources
        /\ "fallback" \notin {"reserved", "allocated"}
    BY DEF Sources
  <2>2. Good(a, Settled(p, Preferred, "fallback", StockId), store')
    BY <1>1, <2>1, SettledGood, StockIsId, PreferredAssumption
  <2>3. ASSUME store'[id] \in Nat
        PROVE  Good(a, Settled(p, store'[id], "allocated", id), store')
    BY <1>1, <1>2, <2>1, <2>3, SettledGood
  <2> QED
    BY <2>2, <2>3
<1> HIDE DEF q
<1>7. CASE store' = store
  BY <1>1, <1>3, <1>4, <1>6, <1>7, OneChanges
<1>8. CASE store[id] = None /\ Grant(n) /\ store' = [store EXCEPT ![id] = n]
  <2>1. store \in [Ids -> Nat \cup {None, OtherClass}] /\ StoreInv
    BY InvIsGood
  <2>2. store' \in [Ids -> Nat \cup {None, OtherClass}]
        /\ \A i \in Ids : store'[i] = IF i = id THEN n ELSE store[i]
    BY <1>2, <1>8, <2>1
  <2>3. \A i \in Ids : store[i] # n
    BY <1>8 DEF Grant, Taken
  <2>4. StoreInv'
    BY <2>1, <2>2, <2>3 DEF StoreInv
  <2>5. \A b \in Adapters : Good(b, proc[b], store')
    <3> SUFFICES ASSUME NEW b \in Adapters PROVE Good(b, proc[b], store')
      OBVIOUS
    <3>1. Good(b, proc[b], store) /\ OwnIds(b) \subseteq Ids
      BY InvIsGood, OwnIdsAreIds
    <3>2. ASSUME proc[b].point = "up", proc[b].source \in {"reserved", "allocated"}
          PROVE  store'[proc[b].id] = proc[b].instance
      <4>1. /\ proc[b].id \in Ids /\ store[proc[b].id] = proc[b].instance
            /\ proc[b].instance \in Nat
        BY <3>1, <3>2 DEF Good
      <4>2. proc[b].id # id
        BY <1>8, <4>1 DEF None
      <4> QED
        BY <2>2, <4>1, <4>2
    <3> QED
      BY <3>1, <3>2 DEF Good
  <2>6. Good(a, q, store')
    BY <1>6, <2>5 DEF p
  <2> QED
    BY <1>3, <1>4, <2>2, <2>4, <2>5, <2>6, OneMoves
<1> QED
  BY <1>5, <1>7, <1>8

LEMMA RecableGood ==
    ASSUME IInv, NEW a \in Adapters, NEW b \in Adapters, Recable(a, b)
    PROVE  IInv'
<1>1. /\ a # b /\ proc[a].point = "down" /\ proc[b].point = "down"
      /\ cable' = [cable EXCEPT ![a] = cable[b], ![b] = cable[a]]
      /\ UNCHANGED <<store, selected, proc>>
      /\ upsets' \in Nat
  BY InvIsGood DEF Recable, Upset
<1>2. cable \in [Adapters -> Packs] /\ CablesInv /\ StoreInv
  BY InvIsGood
<1>3. cable' \in [Adapters -> Packs]
      /\ \A c \in Adapters :
           cable'[c] = IF c = a THEN cable[b] ELSE IF c = b THEN cable[a] ELSE cable[c]
  BY <1>1, <1>2
<1>4. CablesInv'
  BY <1>2, <1>3 DEF CablesInv
<1>5. StoreInv'
  BY <1>1, <1>2 DEF StoreInv
<1>6. ASSUME NEW c \in Adapters
      PROVE  /\ proc[c].ids \in Seq(OwnIds(c)') /\ proc[c].left \in Seq(OwnIds(c)')
             /\ proc[c].point = "up" /\ proc[c].source \in {"reserved", "allocated"}
                  => proc[c].id \in OwnIds(c)' /\ store[proc[c].id] = proc[c].instance
  <2>1. Good(c, proc[c], store)
    BY InvIsGood
  <2>2. CASE c = a \/ c = b
    BY <1>1, <2>1, <2>2 DEF Good
  <2>3. CASE c # a /\ c # b
    <3>1. OwnIds(c)' = OwnIds(c)
      BY <1>3, <2>3 DEF OwnIds
    <3> QED
      BY <2>1, <3>1 DEF Good
  <2> QED
    BY <2>2, <2>3
<1>7. InstanceTypeOK'
  BY <1>1, <1>3 DEF IInv, InstanceTypeOK
<1>8. OwnInv'
  BY <1>1, <1>6 DEF IInv, OwnInv
<1>9. GrantedInv'
  BY <1>1, <1>6 DEF GrantedInv, Up, Granted
<1> QED
  BY <1>4, <1>5, <1>7, <1>8, <1>9 DEF IInv

LEMMA SelectGood ==
    ASSUME IInv, NEW n \in {None} \cup (Preferred..MaxInstance), Select(n)
    PROVE  IInv'
<1>1. selected' \in Nat \cup {None} /\ UNCHANGED <<store, cable, proc, upsets>>
  BY PreferredAssumption, InstanceBoundsAssumption DEF Select
<1>2. CablesInv' /\ StoreInv'
  BY <1>1 DEF IInv, CablesInv, StoreInv
<1>3. InstanceTypeOK'
  BY <1>1 DEF IInv, InstanceTypeOK
<1>4. OwnInv' /\ GrantedInv'
  BY <1>1 DEF IInv, OwnInv, GrantedInv, OwnIds, Up, Granted
<1> QED
  BY <1>2, <1>3, <1>4 DEF IInv

LEMMA StutterGood ==
    ASSUME IInv, UNCHANGED nvars
    PROVE  IInv'
<1>1. UNCHANGED <<store, selected, cable, proc, upsets>>
  BY DEF nvars, ivars
<1>2. CablesInv' /\ StoreInv'
  BY <1>1 DEF IInv, CablesInv, StoreInv
<1>3. InstanceTypeOK'
  BY <1>1 DEF IInv, InstanceTypeOK
<1>4. OwnInv' /\ GrantedInv'
  BY <1>1 DEF IInv, OwnInv, GrantedInv, OwnIds, Up, Granted
<1> QED
  BY <1>2, <1>3, <1>4 DEF IInv

LEMMA ResolvingGood ==
    ASSUME IInv, NEW a \in Adapters, NEW ok \in BOOLEAN, Resolving(a, ok)
    PROVE  IInv'
<1>1. upsets' \in Nat
  BY InvIsGood DEF Resolving, Upset
<1>2. CASE ReadSelected(a, ok)
  BY <1>1, <1>2, ReadSelectedGood
<1>3. CASE Lookup(a, ok)
  BY <1>1, <1>3, LookupGood
<1>4. ASSUME NEW n \in Preferred..MaxInstance, Allocate(a, ok, n)
      PROVE  IInv'
  BY <1>1, <1>4, AllocateGood, PreferredAssumption, InstanceBoundsAssumption
<1> QED
  BY <1>2, <1>3, <1>4 DEF Resolving

LEMMA InstanceStep == IInv /\ [Next]_nvars => IInv'
<1> SUFFICES ASSUME IInv, [Next]_nvars PROVE IInv'
  OBVIOUS
<1>1. ASSUME NEW a \in Adapters, NEW serial \in BOOLEAN, Starting(a, serial)
      PROVE  IInv'
  BY <1>1, StartGood
<1>2. ASSUME NEW a \in Adapters, NEW ok \in BOOLEAN, Resolving(a, ok)
      PROVE  IInv'
  BY <1>2, ResolvingGood
<1>3. ASSUME NEW a \in Adapters, Stopping(a)
      PROVE  IInv'
  BY <1>3, StopGood
<1>4. ASSUME NEW a \in Adapters, NEW b \in Adapters, Recable(a, b)
      PROVE  IInv'
  BY <1>4, RecableGood
<1>5. ASSUME NEW n \in {None} \cup (Preferred..MaxInstance), Select(n)
      PROVE  IInv'
  BY <1>5, SelectGood
<1>6. CASE UNCHANGED nvars
  BY <1>6, StutterGood
<1> QED
  BY <1>1, <1>2, <1>3, <1>4, <1>5, <1>6 DEF Next

-----------------------------------------------------------------------------
(* What a driver published last is what it will find again. *)

BeforeState == [instance : Nat \cup {None}, serial : BOOLEAN]

\* Short sequences and their parts.
LEMMA TripleIs ==
    ASSUME NEW x, NEW y, NEW z, NEW s, s = <<x, y, z>>
    PROVE  Len(s) = 3 /\ s[1] = x /\ s[2] = y /\ s[3] = z
  OBVIOUS

LEMMA PairIs ==
    ASSUME NEW x, NEW y, NEW s, s = <<x, y>>
    PROVE  Len(s) = 2 /\ s[1] = x /\ s[2] = y /\ Head(s) = x
  OBVIOUS

LEMMA SingleIs ==
    ASSUME NEW x, NEW s, s = <<x>>
    PROVE  Len(s) = 1 /\ s[1] = x  /\ Head(s) = x
  OBVIOUS

LEMMA ConcatPair ==
    ASSUME NEW S, NEW x \in S, NEW y \in S
    PROVE  <<x>> \o <<y>> = <<x, y>>
<1> DEFINE s == <<x>>
           t == <<y>>
           u == <<x, y>>
<1>1. s \in Seq(S) /\ t \in Seq(S) /\ u \in Seq(S)
  OBVIOUS
<1>2. Len(s) = 1 /\ Len(t) = 1 /\ Len(u) = 2 /\ s[1] = x /\ t[1] = y /\ u[1] = x /\ u[2] = y
  BY PairIs, SingleIs
<1> HIDE DEF s, t, u
<1>3. s \o t \in Seq(S) /\ Len(s \o t) = 2 /\ (s \o t)[1] = x /\ (s \o t)[2] = y
  BY <1>1, <1>2, ConcatProperties
<1>4. s \o t = u
  BY <1>1, <1>2, <1>3, SeqEqual
<1> QED
  BY <1>4 DEF s, t, u

LEMMA ConcatTriple ==
    ASSUME NEW S, NEW x \in S, NEW y \in S, NEW z \in S
    PROVE  <<x, y>> \o <<z>> = <<x, y, z>>
<1> DEFINE s == <<x, y>>
           t == <<z>>
           u == <<x, y, z>>
<1>1. s \in Seq(S) /\ t \in Seq(S) /\ u \in Seq(S)
  OBVIOUS
<1>2. Len(s) = 2 /\ Len(t) = 1 /\ Len(u) = 3 /\ s[1] = x /\ s[2] = y /\ t[1] = z
      /\ u[1] = x /\ u[2] = y /\ u[3] = z
  BY TripleIs, PairIs, SingleIs
<1> HIDE DEF s, t, u
<1>3. /\ s \o t \in Seq(S) /\ Len(s \o t) = 3
      /\ \A i \in 1..3 : (s \o t)[i] = IF i <= 2 THEN s[i] ELSE t[i - 2]
  BY <1>1, <1>2, ConcatProperties
<1>4. (s \o t)[1] = s[1] /\ (s \o t)[2] = s[2] /\ (s \o t)[3] = t[1]
  BY <1>3
<1>5. s \o t \in Seq(S) /\ Len(s \o t) = 3 /\ (s \o t)[1] = x /\ (s \o t)[2] = y /\ (s \o t)[3] = z
  BY <1>3, <1>4, <1>2
<1>6. s \o t = u
  BY <1>1, <1>2, <1>5, SeqEqual
<1> QED
  BY <1>6 DEF s, t, u

LEMMA CandidatesCases ==
    ASSUME NEW a \in Adapters
    PROVE  /\ a \in Explicit =>
                /\ Candidates(a, TRUE) = <<ExplicitId(a), SerialId(cable[a]), InterfaceId(a)>>
                /\ Candidates(a, FALSE) = <<ExplicitId(a), InterfaceId(a)>>
           /\ a \notin Explicit =>
                /\ Candidates(a, TRUE) = <<SerialId(cable[a]), InterfaceId(a)>>
                /\ Candidates(a, FALSE) = <<InterfaceId(a)>>
<1> DEFINE E == ExplicitId(a)
           S == SerialId(cable[a])
           I == InterfaceId(a)
<1>1. /\ (<<E>> \o <<S>>) \o <<I>> = <<E, S, I>>
      /\ (<<E>> \o <<>>) \o <<I>> = <<E, I>>
      /\ (<<>> \o <<S>>) \o <<I>> = <<S, I>>
      /\ (<<>> \o <<>>) \o <<I>> = <<I>>
  <2>1. E \in {E, S, I} /\ S \in {E, S, I} /\ I \in {E, S, I}
    OBVIOUS
  <2> HIDE DEF E, S, I
  <2>2. /\ <<E>> \o <<S>> = <<E, S>> /\ <<E, S>> \o <<I>> = <<E, S, I>>
        /\ <<E>> \o <<I>> = <<E, I>> /\ <<S>> \o <<I>> = <<S, I>>
    BY <2>1, ConcatPair, ConcatTriple
  <2>3. <<E>> \o <<>> = <<E>> /\ <<>> \o <<S>> = <<S>> /\ <<>> \o <<I>> = <<I>> /\ <<>> \o <<>> = <<>>
    OBVIOUS
  <2> QED
    BY <2>2, <2>3
<1>2. CASE a \in Explicit
  BY <1>1, <1>2 DEF Candidates
<1>3. CASE a \notin Explicit
  BY <1>1, <1>3 DEF Candidates
<1> QED
  BY <1>2, <1>3

LEMMA IdsDiffer ==
    ASSUME NEW a \in Adapters
    PROVE  ExplicitId(a) # SerialId(cable[a]) /\ InterfaceId(a) # SerialId(cable[a])
  BY DEF ExplicitId, SerialId, InterfaceId

\* Only a driver that knows the serial asks under it.
LEMMA SerialFirst ==
    ASSUME NEW a \in Adapters, NEW serial \in BOOLEAN,
           Head(Candidates(a, serial)) = SerialId(cable[a])
    PROVE  serial
<1> SUFFICES ASSUME ~serial PROVE FALSE
  OBVIOUS
<1>1. serial = FALSE
  OBVIOUS
<1>2. Head(Candidates(a, FALSE)) = ExplicitId(a) \/ Head(Candidates(a, FALSE)) = InterfaceId(a)
  BY CandidatesCases, PairIs, SingleIs
<1> QED
  BY <1>1, <1>2, IdsDiffer

\* A serial that has no reservation yet does not come before the reservation there is.
LEMMA SerialKeepsFirst ==
    ASSUME NEW a \in Adapters, NEW n, FirstReserved(Candidates(a, FALSE), n),
           store[SerialId(cable[a])] \notin Nat
    PROVE  FirstReserved(Candidates(a, TRUE), n)
<1> DEFINE E == ExplicitId(a)
           S == SerialId(cable[a])
           I == InterfaceId(a)
           known == Candidates(a, TRUE)
           unknown == Candidates(a, FALSE)
<1>0. /\ a \in Explicit => known = <<E, S, I>> /\ unknown = <<E, I>>
      /\ a \notin Explicit => known = <<S, I>> /\ unknown = <<I>>
  BY CandidatesCases
<1>1. PICK k \in 1..Len(unknown) :
        /\ store[unknown[k]] = n
        /\ \A j \in 1..(k - 1) : store[unknown[j]] \notin Nat
  BY DEF FirstReserved
<1>4. SUFFICES FirstReserved(known, n)
  OBVIOUS
<1> HIDE DEF E, I, known, unknown
<1>2. CASE a \in Explicit
  <2>1. known = <<E, S, I>> /\ unknown = <<E, I>>
    BY <1>0, <1>2
  <2>2. Len(known) = 3 /\ Len(unknown) = 2
        /\ known[1] = E /\ known[2] = S /\ known[3] = I
        /\ unknown[1] = E /\ unknown[2] = I
    BY <2>1, TripleIs, PairIs
  <2>3. CASE k = 1
    <3>1. 1 \in 1..Len(known) /\ store[known[1]] = n
      BY <1>1, <2>2, <2>3
    <3>2. \A j \in 1..(1 - 1) : store[known[j]] \notin Nat
      OBVIOUS
    <3> QED
      BY <3>1, <3>2 DEF FirstReserved
  <2>4. CASE k = 2
    <3>1. 3 \in 1..Len(known) /\ store[known[3]] = n
      BY <1>1, <2>2, <2>4
    <3>2. store[E] \notin Nat
      BY <1>1, <2>2, <2>4
    <3>3. \A j \in 1..(3 - 1) : store[known[j]] \notin Nat
      <4> SUFFICES ASSUME NEW j \in 1..(3 - 1) PROVE store[known[j]] \notin Nat
        OBVIOUS
      <4>1. j = 1 \/ j = 2
        OBVIOUS
      <4> QED
        BY <2>2, <3>2, <4>1
    <3> QED
      BY <3>1, <3>3 DEF FirstReserved
  <2> QED
    BY <1>1, <2>2, <2>3, <2>4
<1>3. CASE a \notin Explicit
  <2>1. known = <<S, I>> /\ unknown = <<I>>
    BY <1>0, <1>3
  <2>2. Len(known) = 2 /\ Len(unknown) = 1
        /\ known[1] = S /\ known[2] = I
        /\ unknown[1] = I
    BY <2>1, PairIs, SingleIs
  <2>3. k = 1
    BY <1>1, <2>2
  <2>4. 2 \in 1..Len(known) /\ store[known[2]] = n
    BY <1>1, <2>2, <2>3
  <2>5. \A j \in 1..(2 - 1) : store[known[j]] \notin Nat
    BY <2>2
  <2> QED
    BY <2>4, <2>5 DEF FirstReserved
<1> QED
  BY <1>2, <1>3

LEMMA BeforeIsOwn ==
    ASSUME NEW a \in Adapters, before \in [Adapters -> BeforeState]
    PROVE  Before(a) \in Seq(OwnIds(a)) /\ Before(a) # <<>>
<1>1. before[a].serial \in BOOLEAN
  BY DEF BeforeState
<1> QED
  BY <1>1, CandidatesAreOwn DEF Before

\* A driver that does not move keeps its part, when its own reservations stay.
LEMMA OtherKept ==
    ASSUME IInv, before \in [Adapters -> BeforeState], NEW b \in Adapters,
           AskedInv(b), KeptInv(b),
           proc'[b] = proc[b], before'[b] = before[b], cable' = cable,
           \A id \in OwnIds(b) : store'[id] = store[id]
    PROVE  AskedInv(b)' /\ KeptInv(b)'
<1>1. Before(b)' = Before(b) /\ Asked(b)' = Asked(b)
  BY DEF Before, Candidates, Asked
<1>2. Before(b) \in Seq(OwnIds(b)) /\ proc[b].ids \in Seq(OwnIds(b))
      /\ proc[b].left \in Seq(OwnIds(b))
  BY BeforeIsOwn DEF IInv, OwnInv
<1>3. /\ \A k \in 1..Len(Before(b)) : store'[Before(b)[k]] = store[Before(b)[k]]
      /\ \A k \in 1..Len(proc[b].ids) : store'[proc[b].ids[k]] = store[proc[b].ids[k]]
  BY <1>2
<1>4. Len(Before(b)) \in Nat /\ Len(proc[b].ids) \in Nat /\ Len(proc[b].left) \in Nat
  BY <1>2
<1>5. store'[SerialId(cable'[b])] = store[SerialId(cable[b])]
  BY DEF OwnIds
<1>6. AskedInv(b)'
  <2>1. ASSUME proc[b].point \in {"lookup", "allocate"}
        PROVE  /\ Asked(b) \in 0..Len(proc[b].ids)
               /\ \A j \in 1..Asked(b) : store'[proc[b].ids[j]] \notin Nat
    BY <1>3, <1>4, <2>1 DEF AskedInv
  <2> QED
    BY <1>1, <2>1 DEF AskedInv
<1>7. ASSUME NEW n, FirstReserved(Before(b), n)
      PROVE  FirstReserved(Before(b), n)'
  <2>1. PICK k \in 1..Len(Before(b)) :
          store[Before(b)[k]] = n /\ \A j \in 1..(k - 1) : store[Before(b)[j]] \notin Nat
    BY <1>7 DEF FirstReserved
  <2>2. store'[Before(b)[k]] = n /\ \A j \in 1..(k - 1) : store'[Before(b)[j]] \notin Nat
    BY <1>3, <1>4, <2>1
  <2> QED
    BY <1>1, <2>1, <2>2 DEF FirstReserved
<1>8. KeptInv(b)'
  BY <1>1, <1>5, <1>7 DEF KeptInv
<1> QED
  BY <1>6, <1>8

\* One driver moves or is restarted; what the others have reserved stays.
LEMMA OneKept ==
    ASSUME IInv, StaysInv, upsets = 0, NEW a \in Adapters,
           before' \in [Adapters -> BeforeState],
           \A b \in Adapters : b # a => proc'[b] = proc[b] /\ before'[b] = before[b],
           cable' = cable,
           \A id \in Ids : id \notin OwnIds(a) => store'[id] = store[id],
           AskedInv(a)', KeptInv(a)'
    PROVE  StaysInv'
<1>1. before \in [Adapters -> BeforeState]
      /\ \A b \in Adapters : AskedInv(b) /\ KeptInv(b)
  BY DEF StaysInv, BeforeState
<1>2. ASSUME NEW b \in Adapters, b # a
      PROVE  AskedInv(b)' /\ KeptInv(b)'
  <2>1. \A id \in OwnIds(b) : id \in Ids /\ id \notin OwnIds(a)
    BY <1>2, OwnIdsAreIds, OwnIdsDisjoint, InvIsGood
  <2> QED
    BY <1>1, <1>2, <2>1, OtherKept
<1>3. \A b \in Adapters : AskedInv(b)' /\ KeptInv(b)'
  BY <1>2
<1> QED
  BY <1>3 DEF StaysInv, BeforeState

\* The second record of what was published: the number of a service that is up.
LEMMA RememberTyped ==
    ASSUME IInv', before \in [Adapters -> BeforeState], NEW a \in Adapters, Remember(a)
    PROVE  before' \in [Adapters -> BeforeState]
<1>1. CASE proc'[a].point = "up"
  <2>1. proc'[a].instance \in Nat
    BY <1>1 DEF IInv, InstanceTypeOK
  <2>2. before' = [before EXCEPT ![a].instance = proc'[a].instance]
    BY <1>1 DEF Remember
  <2> QED
    BY <2>1, <2>2 DEF BeforeState
<1>2. CASE proc'[a].point # "up"
  BY <1>2 DEF Remember
<1> QED
  BY <1>1, <1>2

LEMMA RememberOthers ==
    ASSUME before \in [Adapters -> BeforeState], NEW a \in Adapters, Remember(a)
    PROVE  /\ \A b \in Adapters : b # a => before'[b] = before[b]
           /\ before'[a].serial = before[a].serial
           /\ proc'[a].point = "up" => before'[a].instance = proc'[a].instance
           /\ proc'[a].point # "up" => before'[a] = before[a]
<1>1. before[a] \in BeforeState
  OBVIOUS
<1> QED
  BY <1>1 DEF Remember, BeforeState

LEMMA InitialStays == NInit => StaysInv
<1> SUFFICES ASSUME NInit PROVE StaysInv
  OBVIOUS
<1>1. before \in [Adapters -> [instance : Nat \cup {None}, serial : BOOLEAN]]
  BY DEF NInit
<1>2. ASSUME NEW a \in Adapters PROVE AskedInv(a) /\ KeptInv(a)
  <2>1. proc[a].point = "down" /\ before[a].instance = None
    BY DEF NInit, Down
  <2>2. store[SerialId(cable[a])] \notin Nat
    <3>1. SerialId(cable[a]) \in Ids /\ SerialId(cable[a]) # StockId
      BY DEF NInit, Ids, SerialId, StockId
    <3>2. \A id \in Ids : store[id] \in {None, OtherClass, Preferred}
          /\ (store[id] = Preferred => id = StockId)
      BY DEF NInit
    <3> QED
      BY <3>1, <3>2 DEF None, OtherClass
  <2> QED
    BY <2>1, <2>2 DEF AskedInv, KeptInv
<1> QED
  BY <1>1, <1>2 DEF StaysInv

LEMMA StartStays ==
    ASSUME IInv, StaysInv, NEW a \in Adapters, NEW serial \in BOOLEAN, Starting(a, serial)
    PROVE  StaysInv'
<1>1. before \in [Adapters -> BeforeState]
  BY DEF StaysInv, BeforeState
<1>2. before' = [before EXCEPT ![a].serial = serial] /\ before[a] \in BeforeState
  BY <1>1 DEF Starting
<1>3. before' \in [Adapters -> BeforeState]
      /\ before'[a].instance = before[a].instance /\ before'[a].serial = serial
      /\ \A b \in Adapters : b # a => before'[b] = before[b]
  BY <1>1, <1>2 DEF BeforeState
<1>4. CASE upsets' # 0
  BY <1>3, <1>4 DEF StaysInv, BeforeState
<1>5. CASE upsets' = 0
  <2>1. upsets = 0 /\ (before[a].serial => serial)
    BY <1>5, InvIsGood DEF Starting, Upset
  <2>2. AskedInv(a) /\ KeptInv(a)
    BY <2>1 DEF StaysInv
  <2>3. /\ proc' = [proc EXCEPT ![a] = [Down EXCEPT !.point = "selection",
                                          !.ids = Candidates(a, serial),
                                          !.left = Candidates(a, serial)]]
        /\ UNCHANGED <<store, selected, cable>>
    BY DEF Starting, Start
  <2>4. /\ proc'[a].point = "selection" /\ proc'[a].ids = Candidates(a, serial)
        /\ proc'[a].left = Candidates(a, serial)
        /\ \A b \in Adapters : b # a => proc'[b] = proc[b]
    BY <2>3, InvIsGood DEF Down
  <2>5. Before(a)' = Candidates(a, serial)
    BY <1>3, <2>3 DEF Before, Candidates
  <2>6. AskedInv(a)'
    BY <2>4, <2>5 DEF AskedInv
  <2>7. KeptInv(a)'
    <3>1. store'[SerialId(cable'[a])] \in Nat => before'[a].serial
      BY <1>3, <2>1, <2>2, <2>3 DEF KeptInv
    <3>2. before'[a].instance # None /\ a \notin AutoInstance => before'[a].instance = Preferred
      BY <1>3, <2>2 DEF KeptInv
    <3>3. ASSUME before[a].instance \notin {None, Preferred}
          PROVE  FirstReserved(Candidates(a, serial), before[a].instance)
      <4>1. FirstReserved(Candidates(a, before[a].serial), before[a].instance)
        BY <2>2, <3>3 DEF KeptInv, Before
      <4>2. CASE before[a].serial = serial
        BY <4>1, <4>2
      <4>3. CASE before[a].serial = FALSE /\ serial = TRUE
        <5>1. store[SerialId(cable[a])] \notin Nat
          BY <2>2, <4>3 DEF KeptInv
        <5>2. FirstReserved(Candidates(a, FALSE), before[a].instance)
          BY <4>1, <4>3
        <5>3. FirstReserved(Candidates(a, TRUE), before[a].instance)
          BY <5>1, <5>2, SerialKeepsFirst
        <5> QED
          BY <4>3, <5>3
      <4> QED
        BY <1>1, <2>1, <4>2, <4>3 DEF BeforeState
    <3>4. before'[a].instance \notin {None, Preferred} =>
            FirstReserved(Before(a), before[a].instance)'
      BY <1>3, <2>3, <2>5, <3>3 DEF FirstReserved
    <3> QED
      BY <3>1, <3>2, <3>4 DEF KeptInv
  <2> QED
    BY <1>3, <2>1, <2>3, <2>4, <2>6, <2>7, OneKept
<1> QED
  BY <1>4, <1>5

LEMMA StopStays ==
    ASSUME IInv, StaysInv, NEW a \in Adapters, Stopping(a)
    PROVE  StaysInv'
<1>1. before' = before /\ upsets' = upsets /\ UNCHANGED <<store, selected, cable>>
      /\ proc' = [proc EXCEPT ![a] = Down]
  BY DEF Stopping, Stop
<1>2. proc'[a] = Down /\ \A b \in Adapters : b # a => proc'[b] = proc[b]
  BY <1>1, InvIsGood
<1>3. before' \in [Adapters -> BeforeState]
  BY <1>1 DEF StaysInv, BeforeState
<1>4. CASE upsets # 0
  BY <1>1, <1>3, <1>4 DEF StaysInv, BeforeState
<1>5. CASE upsets = 0
  <2>1. KeptInv(a)'
    BY <1>1, <1>5 DEF StaysInv, KeptInv, FirstReserved, Before, Candidates
  <2>2. AskedInv(a)'
    BY <1>2 DEF AskedInv, Down
  <2> QED
    BY <1>1, <1>2, <1>3, <1>5, <2>1, <2>2, OneKept
<1> QED
  BY <1>4, <1>5

LEMMA SettledIs ==
    ASSUME NEW q \in ProcState, NEW n, NEW source, NEW id
    PROVE  /\ Settled(q, n, source, id).point = "up"
           /\ Settled(q, n, source, id).instance = n
           /\ Settled(q, n, source, id).source = source
  BY DEF Settled, ProcState

\* A driver whose service comes up leaves nothing to ask.
LEMMA UpKept ==
    ASSUME IInv, IInv', StaysInv, upsets = 0, NEW a \in Adapters, Remember(a),
           proc'[a].point = "up",
           \A b \in Adapters : b # a => proc'[b] = proc[b],
           cable' = cable,
           \A id \in Ids : id \notin OwnIds(a) => store'[id] = store[id],
           store'[SerialId(cable[a])] \in Nat => before[a].serial,
           proc'[a].instance # Preferred =>
             a \in AutoInstance
             /\ \E k \in 1..Len(Before(a)) :
                  /\ store'[Before(a)[k]] = proc'[a].instance
                  /\ \A j \in 1..(k - 1) : store'[Before(a)[j]] \notin Nat
    PROVE  StaysInv'
<1>1. before \in [Adapters -> BeforeState]
  BY DEF StaysInv, BeforeState
<1>2. before' \in [Adapters -> BeforeState]
  BY <1>1, RememberTyped
<1>3. /\ \A b \in Adapters : b # a => before'[b] = before[b]
      /\ before'[a].serial = before[a].serial /\ before'[a].instance = proc'[a].instance
  BY <1>1, RememberOthers
<1>4. Before(a)' = Before(a)
  BY <1>3 DEF Before, Candidates
<1>5. AskedInv(a)'
  BY DEF AskedInv
<1>6. before'[a].instance \notin {None, Preferred} =>
        FirstReserved(Before(a), before[a].instance)'
  BY <1>3, <1>4 DEF FirstReserved
<1>7. KeptInv(a)'
  BY <1>3, <1>6 DEF KeptInv
<1> QED
  BY <1>2, <1>3, <1>5, <1>7, OneKept

\* A driver that goes on asking.
LEMMA AskingKept ==
    ASSUME IInv, StaysInv, upsets = 0, NEW a \in Adapters, Remember(a),
           proc'[a].point # "up",
           \A b \in Adapters : b # a => proc'[b] = proc[b],
           UNCHANGED <<cable, store>>, AskedInv(a)'
    PROVE  StaysInv'
<1>1. before' = before
  BY DEF Remember
<1>2. before' \in [Adapters -> BeforeState]
  BY <1>1 DEF StaysInv, BeforeState
<1>3. KeptInv(a)'
  BY <1>1 DEF StaysInv, KeptInv, FirstReserved, Before, Candidates
<1> QED
  BY <1>1, <1>2, <1>3, OneKept

LEMMA ReadSelectedStays ==
    ASSUME IInv, IInv', StaysInv, upsets = 0, NEW a \in Adapters, NEW ok \in BOOLEAN,
           ok = TRUE, ReadSelected(a, ok), Remember(a)
    PROVE  StaysInv'
<1> DEFINE p == proc[a]
<1>1. p \in ProcState /\ p.point = "selection" /\ AskedInv(a) /\ KeptInv(a)
  BY InvIsGood DEF ReadSelected, StaysInv
<1>2. UNCHANGED <<store, selected, cable>>
  BY DEF ReadSelected
<1>3. \A b \in Adapters : b # a => proc'[b] = proc[b]
  BY InvIsGood DEF ReadSelected
<1>4. \/ proc'[a] = Settled(p, Preferred, "configured", StockId)
      \/ proc'[a] = Settled(p, Preferred, "pinned", StockId)
      \/ /\ a \in AutoInstance /\ selected # Preferred
         /\ proc'[a] = [p EXCEPT !.point = "lookup", !.seen = selected]
  BY InvIsGood, Zenon DEF ReadSelected
<1>5. CASE \/ proc'[a] = Settled(p, Preferred, "configured", StockId)
           \/ proc'[a] = Settled(p, Preferred, "pinned", StockId)
  <2>1. proc'[a].point = "up" /\ proc'[a].instance = Preferred
    BY <1>1, <1>5, SettledIs
  <2>2. store'[SerialId(cable[a])] \in Nat => before[a].serial
    BY <1>1, <1>2 DEF KeptInv
  <2> QED
    BY <1>2, <1>3, <2>1, <2>2, UpKept
<1>6. CASE /\ a \in AutoInstance /\ selected # Preferred
           /\ proc'[a] = [p EXCEPT !.point = "lookup", !.seen = selected]
  <2>1. /\ proc'[a].point = "lookup" /\ proc'[a].seen = selected
        /\ proc'[a].ids = p.ids /\ proc'[a].left = p.left
    BY <1>1, <1>6 DEF ProcState
  <2>2. p.left = p.ids /\ p.ids = Before(a) /\ p.ids \in Seq(Ids)
    BY <1>1 DEF AskedInv, ProcState
  <2>3. Before(a)' = Before(a)
    BY <1>2, <2>1 DEF Remember, Before, Candidates
  <2>4. Asked(a)' = 0 /\ Len(p.ids) \in Nat
    BY <2>1, <2>2 DEF Asked
  <2>5. AskedInv(a)'
    <3>1. \A j \in 1..Len(p.left) : p.left[j] = p.ids[0 + j]
      BY <2>2
    <3> QED
      BY <1>6, <2>1, <2>2, <2>3, <2>4, <3>1 DEF AskedInv
  <2> QED
    BY <1>2, <1>3, <2>1, <2>5, AskingKept
<1> QED
  BY <1>4, <1>5, <1>6

LEMMA LookupStays ==
    ASSUME IInv, IInv', StaysInv, upsets = 0, NEW a \in Adapters, NEW ok \in BOOLEAN,
           ok = TRUE, Lookup(a, ok), Remember(a)
    PROVE  StaysInv'
<1> DEFINE p == proc[a]
           id == Head(p.left)
           n == Len(p.ids)
           k == Asked(a) + 1
<1>1. p \in ProcState /\ p.point = "lookup" /\ AskedInv(a) /\ KeptInv(a) /\ p.left # <<>>
  BY InvIsGood DEF Lookup, StaysInv, Good
<1>2. UNCHANGED <<store, selected, cable>>
  BY DEF Lookup
<1>3. \A b \in Adapters : b # a => proc'[b] = proc[b]
  BY InvIsGood DEF Lookup
<1>4. /\ store[id] \in Nat => proc'[a] = Settled(p, store[id], "reserved", id)
      /\ store[id] \notin Nat =>
           \/ Tail(p.left) = <<>> /\ proc'[a] = [p EXCEPT !.point = "allocate", !.left = <<>>]
           \/ Tail(p.left) # <<>> /\ proc'[a] = [p EXCEPT !.left = Tail(p.left)]
  BY InvIsGood, Zenon DEF Lookup
<1>5. /\ p.ids = Before(a) /\ a \in AutoInstance /\ p.seen # Preferred
      /\ Asked(a) \in 0..n /\ Asked(a) = n - Len(p.left)
      /\ \A j \in 1..Len(p.left) : p.left[j] = p.ids[Asked(a) + j]
      /\ \A j \in 1..Asked(a) : store[p.ids[j]] \notin Nat
  BY <1>1 DEF AskedInv, Asked
<1>6. p.left \in Seq(Ids) /\ p.ids \in Seq(Ids)
  BY <1>1 DEF ProcState
<1>7. n \in Nat /\ Len(p.left) \in Nat /\ Len(p.left) >= 1 /\ id = p.left[1]
  BY <1>1, <1>6
<1>8. k \in 1..n /\ id = p.ids[k] /\ k - 1 = Asked(a)
  <2> HIDE DEF p, n, id
  <2>0. 1 \in 1..Len(p.left)
    BY <1>7
  <2>1. p.left[1] = p.ids[Asked(a) + 1]
    BY <1>5, <2>0, Zenon
  <2>2. Asked(a) \in Nat /\ Asked(a) + 1 <= n
    BY <1>5, <1>7
  <2> QED
    BY <1>7, <2>1, <2>2
<1>9. CASE store[id] \in Nat
  <2>1. proc'[a].point = "up" /\ proc'[a].instance = store[id]
    BY <1>1, <1>4, <1>9, SettledIs
  <2>2. store'[SerialId(cable[a])] \in Nat => before[a].serial
    BY <1>1, <1>2 DEF KeptInv
  <2>3. /\ k \in 1..Len(Before(a)) /\ store'[Before(a)[k]] = proc'[a].instance
        /\ \A j \in 1..(k - 1) : store'[Before(a)[j]] \notin Nat
    BY <1>2, <1>5, <1>8, <2>1
  <2> HIDE DEF k
  <2> QED
    BY <1>2, <1>3, <1>5, <2>1, <2>2, <2>3, UpKept
<1>10. CASE store[id] \notin Nat
  <2>1. /\ proc'[a].ids = p.ids /\ proc'[a].left = Tail(p.left) /\ proc'[a].seen = p.seen
        /\ proc'[a].point \in {"lookup", "allocate"}
        /\ proc'[a].point = "allocate" => Tail(p.left) = <<>>
    BY <1>1, <1>4, <1>10 DEF ProcState
  <2>2. /\ Len(Tail(p.left)) = Len(p.left) - 1
        /\ \A j \in 1..(Len(p.left) - 1) : Tail(p.left)[j] = p.left[j + 1]
    BY <1>1, <1>6, <1>7
  <2>3. Asked(a)' = k
    <3>1. Asked(a)' = n - (Len(p.left) - 1)
      BY <2>1, <2>2 DEF Asked
    <3> HIDE DEF p, n
    <3> QED
      BY <1>5, <1>7, <3>1
  <2>4. \A j \in 1..Len(Tail(p.left)) : Tail(p.left)[j] = p.ids[k + j]
    <3> SUFFICES ASSUME NEW j \in 1..(Len(p.left) - 1) PROVE Tail(p.left)[j] = p.ids[k + j]
      BY <2>2
    <3>1. j + 1 \in 1..Len(p.left) /\ Asked(a) + (j + 1) = k + j
      BY <1>5, <1>7
    <3>2. Tail(p.left)[j] = p.left[j + 1]
      BY <2>2
    <3> HIDE DEF k
    <3> QED
      BY <1>5, <3>1, <3>2
  <2>5. \A j \in 1..k : store[p.ids[j]] \notin Nat
    <3> SUFFICES ASSUME NEW j \in 1..k PROVE store[p.ids[j]] \notin Nat
      OBVIOUS
    <3>1. j \in 1..Asked(a) \/ j = k
      <4> DEFINE m == Asked(a)
      <4>1. m \in Nat
        BY <1>5, <1>7
      <4>2. j \in 1..(m + 1)
        OBVIOUS
      <4> HIDE DEF m
      <4>3. j \in 1..m \/ j = m + 1
        BY <4>1, <4>2
      <4> QED
        BY <4>3 DEF m
    <3> QED
      BY <1>5, <1>8, <1>10, <3>1
  <2>6. Before(a)' = Before(a)
    BY <1>2, <2>1 DEF Remember, Before, Candidates
  <2>7. AskedInv(a)'
    <3> HIDE DEF k
    <3>1. k \in 0..Len(p.ids)
      BY <1>8
    <3> QED
      BY <1>2, <1>5, <2>1, <2>3, <2>4, <2>5, <2>6, <3>1 DEF AskedInv
  <2> QED
    BY <1>2, <1>3, <2>1, <2>7, AskingKept
<1> QED
  BY <1>9, <1>10

LEMMA AllocateStays ==
    ASSUME IInv, IInv', StaysInv, upsets = 0, NEW a \in Adapters, NEW m \in Nat,
           NEW ok \in BOOLEAN, ok = TRUE, Allocate(a, ok, m), Remember(a)
    PROVE  StaysInv'
<1> DEFINE p == proc[a]
           id == Head(p.ids)
<1>1. p \in ProcState /\ p.point = "allocate" /\ AskedInv(a) /\ KeptInv(a) /\ p.ids # <<>>
      /\ p.ids \in Seq(OwnIds(a))
  BY InvIsGood DEF Allocate, StaysInv, Good
<1>2. p.ids = Before(a) /\ a \in AutoInstance
  BY <1>1 DEF AskedInv
<1>3. id \in OwnIds(a) /\ id \in Ids /\ id = p.ids[1] /\ Len(p.ids) \in Nat /\ Len(p.ids) >= 1
  BY <1>1, HeadTailProperties, OwnIdsAreIds, InvIsGood
<1>4. cable' = cable /\ \A b \in Adapters : b # a => proc'[b] = proc[b]
  BY InvIsGood DEF Allocate
<1>5. \/ store[id] = None /\ store' = [store EXCEPT ![id] = m]
      \/ store' = store
  BY DEF Allocate
<1>6. \A i \in Ids : i # id => store'[i] = store[i]
  BY <1>3, <1>5, InvIsGood
<1>7. \/ store'[id] \in Nat /\ proc'[a] = Settled(p, store'[id], "allocated", id)
      \/ proc'[a] = Settled(p, Preferred, "fallback", StockId)
  BY InvIsGood, Zenon DEF Allocate
<1>8. store'[SerialId(cable[a])] \in Nat => before[a].serial
  <2>1. SerialId(cable[a]) \in Ids
    BY OwnIdsAreIds, InvIsGood DEF OwnIds
  <2>2. CASE id # SerialId(cable[a])
    BY <1>1, <1>6, <2>1, <2>2 DEF KeptInv
  <2>3. CASE id = SerialId(cable[a])
    <3>1. before[a].serial \in BOOLEAN
      BY DEF StaysInv
    <3> QED
      BY <1>2, <2>3, <3>1, SerialFirst DEF Before
  <2> QED
    BY <2>2, <2>3
<1>9. proc'[a].point = "up"
  BY <1>1, <1>7, SettledIs
<1>10. proc'[a].instance # Preferred => store'[Before(a)[1]] = proc'[a].instance
  BY <1>1, <1>2, <1>3, <1>7, SettledIs
<1>11. 1 \in 1..Len(Before(a)) /\ \A j \in 1..(1 - 1) : store'[Before(a)[j]] \notin Nat
  BY <1>2, <1>3
<1>12. \A i \in Ids : i \notin OwnIds(a) => store'[i] = store[i]
  BY <1>3, <1>6
<1> HIDE DEF p, id
<1> QED
  BY <1>2, <1>4, <1>8, <1>9, <1>10, <1>11, <1>12, UpKept

LEMMA ResolvingStays ==
    ASSUME IInv, IInv', StaysInv, NEW a \in Adapters, NEW ok \in BOOLEAN, Resolving(a, ok)
    PROVE  StaysInv'
<1>1. Remember(a) /\ Upset(~ok) /\ before \in [Adapters -> BeforeState]
  BY DEF Resolving, StaysInv, BeforeState
<1>2. before' \in [Adapters -> BeforeState]
  BY <1>1, RememberTyped
<1>3. CASE upsets' # 0
  BY <1>2, <1>3 DEF StaysInv, BeforeState
<1>4. CASE upsets' = 0
  <2>1. upsets = 0 /\ ok = TRUE
    BY <1>1, <1>4, InvIsGood DEF Upset
  <2>2. CASE ReadSelected(a, ok)
    BY <1>1, <2>1, <2>2, ReadSelectedStays
  <2>3. CASE Lookup(a, ok)
    BY <1>1, <2>1, <2>3, LookupStays
  <2>4. ASSUME NEW n \in Preferred..MaxInstance, Allocate(a, ok, n)
        PROVE  StaysInv'
    <3>1. n \in Nat
      BY PreferredAssumption, InstanceBoundsAssumption
    <3> QED
      BY <1>1, <2>1, <2>4, <3>1, AllocateStays
  <2> QED
    BY <2>2, <2>3, <2>4 DEF Resolving
<1> QED
  BY <1>3, <1>4

LEMMA RecableStays ==
    ASSUME IInv, StaysInv, NEW a \in Adapters, NEW b \in Adapters, Recable(a, b)
    PROVE  StaysInv'
<1>1. before' = before /\ upsets' # 0
  BY InvIsGood DEF Recable, Upset
<1> QED
  BY <1>1 DEF StaysInv

LEMMA SelectStays ==
    ASSUME StaysInv, UNCHANGED <<store, cable, proc, before, upsets>>
    PROVE  StaysInv'
<1> SUFFICES ASSUME NEW a \in Adapters, AskedInv(a), KeptInv(a)
             PROVE  AskedInv(a)' /\ KeptInv(a)'
  BY DEF StaysInv
<1>1. Before(a)' = Before(a) /\ Asked(a)' = Asked(a)
  BY DEF Before, Candidates, Asked
<1>2. AskedInv(a)'
  BY <1>1 DEF AskedInv
<1>3. KeptInv(a)'
  BY <1>1 DEF KeptInv, FirstReserved
<1> QED
  BY <1>2, <1>3

LEMMA StaysStep == IInv /\ IInv' /\ StaysInv /\ [Next]_nvars => StaysInv'
<1> SUFFICES ASSUME IInv, IInv', StaysInv, [Next]_nvars PROVE StaysInv'
  OBVIOUS
<1>1. ASSUME NEW a \in Adapters, NEW serial \in BOOLEAN, Starting(a, serial)
      PROVE  StaysInv'
  BY <1>1, StartStays
<1>2. ASSUME NEW a \in Adapters, NEW ok \in BOOLEAN, Resolving(a, ok)
      PROVE  StaysInv'
  BY <1>2, ResolvingStays
<1>3. ASSUME NEW a \in Adapters, Stopping(a)
      PROVE  StaysInv'
  BY <1>3, StopStays
<1>4. ASSUME NEW a \in Adapters, NEW b \in Adapters, Recable(a, b)
      PROVE  StaysInv'
  BY <1>4, RecableStays
<1>5. ASSUME NEW n \in {None} \cup (Preferred..MaxInstance), Select(n)
      PROVE  StaysInv'
  BY <1>5, SelectStays DEF Select
<1>6. CASE UNCHANGED nvars
  BY <1>6, SelectStays DEF nvars, ivars
<1> QED
  BY <1>1, <1>2, <1>3, <1>4, <1>5, <1>6 DEF Next

-----------------------------------------------------------------------------
(* The theorems. *)

\* The invariant behind the two results below: what each driver holds, at whatever
\* point between two accesses to localsettings it is (venus_instance.py:156-249).
THEOREM InstanceInvariance == Spec => []IInv
<1> QED
  BY InitialInstances, InstanceStep, PTL DEF Spec

\* Every service on the bus has a number, and a driver that looks for one always has an
\* identity to ask for (settings_id_candidates is never empty).
THEOREM InstanceTypes == Spec => []InstanceTypeOK
<1>1. IInv => InstanceTypeOK
  BY DEF IInv
<1> QED
  BY <1>1, InstanceInvariance, PTL

\* No two batteries publish one granted number, in any interleaving of any number of
\* drivers and whatever localsettings fails to answer.
THEOREM GrantsNeverShared == Spec => []GrantsUnique
<1>1. ASSUME IInv PROVE GrantsUnique
  <2> SUFFICES ASSUME NEW a \in Adapters, NEW b \in Adapters,
                      Up(a), Up(b), Granted(a), Granted(b),
                      proc[a].instance = proc[b].instance
               PROVE  a = b
    BY DEF GrantsUnique
  <2>1. /\ proc[a].id \in OwnIds(a) /\ store[proc[a].id] = proc[a].instance
        /\ proc[b].id \in OwnIds(b) /\ store[proc[b].id] = proc[b].instance
    BY <1>1 DEF IInv, GrantedInv
  <2>2. proc[a].id \in Ids /\ proc[b].id \in Ids /\ proc[a].instance \in Nat
    BY <1>1, InvIsGood DEF Good, ProcState, Up
  <2>3. proc[a].id = proc[b].id
    BY <1>1, <2>1, <2>2 DEF IInv, StoreInv
  <2> QED
    BY <1>1, <2>1, <2>3, OwnIdsDisjoint DEF IInv
<1> QED
  BY <1>1, InstanceInvariance, PTL

-----------------------------------------------------------------------------
(* A number on the bus twice. *)

LEMMA OneUngranted ==
    ASSUME IInv, UngrantedInv, NEW a \in Adapters, NEW q, proc' = [proc EXCEPT ![a] = q],
           q.point = "up" => q.source \in {"reserved", "allocated"} \/ q.instance = Preferred
    PROVE  UngrantedInv'
<1>1. proc \in [Adapters -> ProcState]
  BY DEF IInv, InstanceTypeOK
<1>2. \A b \in Adapters : proc'[b] = IF b = a THEN q ELSE proc[b]
  BY <1>1
<1> QED
  BY <1>2 DEF UngrantedInv, Up, Granted

LEMMA UngrantedStep == IInv /\ UngrantedInv /\ [Next]_nvars => UngrantedInv'
<1> SUFFICES ASSUME IInv, UngrantedInv, [Next]_nvars PROVE UngrantedInv'
  OBVIOUS
<1>1. ASSUME proc' = proc PROVE UngrantedInv'
  BY <1>1 DEF UngrantedInv, Up, Granted
<1>2. \A a \in Adapters : proc[a] \in ProcState
  BY DEF IInv, InstanceTypeOK
<1>3. Down.point = "down"
  BY DEF Down
<1>4. ASSUME NEW a \in Adapters, NEW serial \in BOOLEAN, Starting(a, serial) PROVE UngrantedInv'
  <2> DEFINE q == [Down EXCEPT !.point = "selection", !.ids = Candidates(a, serial),
                               !.left = Candidates(a, serial)]
  <2>1. proc' = [proc EXCEPT ![a] = q]
    BY <1>4 DEF Starting, Start
  <2>2. q.point = "selection"
    BY DEF Down
  <2> HIDE DEF q
  <2> QED
    BY <2>1, <2>2, OneUngranted
<1>5. ASSUME NEW a \in Adapters, Stopping(a) PROVE UngrantedInv'
  <2>1. proc' = [proc EXCEPT ![a] = Down]
    BY <1>5 DEF Stopping, Stop
  <2> QED
    BY <1>3, <2>1, OneUngranted
<1>6. ASSUME NEW a \in Adapters, NEW ok \in BOOLEAN, ReadSelected(a, ok) PROVE UngrantedInv'
  <2> DEFINE seen == IF ok THEN selected ELSE None
             q == IF a \notin AutoInstance THEN Settled(proc[a], Preferred, "configured", StockId)
                  ELSE IF seen = Preferred THEN Settled(proc[a], Preferred, "pinned", StockId)
                  ELSE [proc[a] EXCEPT !.point = "lookup", !.seen = seen]
  <2>1. proc' = [proc EXCEPT ![a] = q]
    BY <1>6 DEF ReadSelected
  <2>2. [proc[a] EXCEPT !.point = "lookup", !.seen = seen].point = "lookup"
    BY <1>2 DEF ProcState
  <2>3. q.point = "up" => q.instance = Preferred
    BY <1>2, <2>2, SettledIs
  <2> HIDE DEF q
  <2> QED
    BY <2>1, <2>3, OneUngranted
<1>7. ASSUME NEW a \in Adapters, NEW ok \in BOOLEAN, Lookup(a, ok) PROVE UngrantedInv'
  <2> DEFINE id == Head(proc[a].left)
             found == IF ok THEN store[id] ELSE None
             asks == [proc[a] EXCEPT !.point = "allocate", !.left = <<>>]
             goes == [proc[a] EXCEPT !.left = Tail(proc[a].left)]
             q == IF found \in Nat THEN Settled(proc[a], found, "reserved", id)
                  ELSE IF Tail(proc[a].left) = <<>> THEN asks ELSE goes
  <2>1. proc' = [proc EXCEPT ![a] = q] /\ proc[a].point = "lookup"
    BY <1>7 DEF Lookup
  <2>2. asks.point = "allocate" /\ goes.point = "lookup"
    BY <1>2, <2>1 DEF ProcState
  <2>3. Settled(proc[a], found, "reserved", id).source = "reserved"
    BY <1>2, SettledIs
  <2> HIDE DEF asks, goes, found, id
  <2>4. q.point = "up" => q.source = "reserved"
    BY <2>2, <2>3
  <2> HIDE DEF q
  <2> QED
    BY <2>1, <2>4, OneUngranted
<1>8. ASSUME NEW a \in Adapters, NEW ok \in BOOLEAN, NEW n, Allocate(a, ok, n) PROVE UngrantedInv'
  <2> DEFINE id == Head(proc[a].ids)
             given == store'[id]
             q == IF ok /\ given \in Nat THEN Settled(proc[a], given, "allocated", id)
                  ELSE Settled(proc[a], Preferred, "fallback", StockId)
  <2>1. proc' = [proc EXCEPT ![a] = q]
    BY <1>8 DEF Allocate
  <2>2. Settled(proc[a], given, "allocated", id).source = "allocated"
    BY <1>2, SettledIs
  <2>3. Settled(proc[a], Preferred, "fallback", StockId).instance = Preferred
    BY <1>2, SettledIs
  <2> HIDE DEF given, id
  <2>4. q.source = "allocated" \/ q.instance = Preferred
    BY <2>2, <2>3
  <2> HIDE DEF q
  <2> QED
    BY <2>1, <2>4, OneUngranted
<1>9. ASSUME NEW a \in Adapters, NEW b \in Adapters, Recable(a, b) PROVE UngrantedInv'
  BY <1>1, <1>9 DEF Recable
<1>10. ASSUME NEW n, Select(n) PROVE UngrantedInv'
  BY <1>1, <1>10 DEF Select
<1>11. CASE UNCHANGED nvars
  BY <1>1, <1>11 DEF nvars, ivars
<1> QED
  BY <1>4, <1>5, <1>6, <1>7, <1>8, <1>9, <1>10, <1>11 DEF Next, Resolving

\* Two batteries on one number are on the configured one (venus_instance.py:184-203, 251-275):
\* localsettings keeps all the others apart, in any interleaving and whatever fails.
THEOREM OnlyTheConfiguredIsShared == Spec => []OnlyConfiguredShared
<1>1. NInit => UngrantedInv
  BY DEF NInit, UngrantedInv, Up, Down
<1>2. UngrantedInv /\ GrantsUnique => OnlyConfiguredShared
  BY DEF UngrantedInv, GrantsUnique, OnlyConfiguredShared
<1> QED
  BY <1>1, <1>2, InitialInstances, InstanceStep, UngrantedStep, GrantsNeverShared, PTL DEF Spec

\* While localsettings answers, cables stay and serials come again, what a driver found
\* last is the first reservation among the identities it will ask for: preferred and the
\* first of settings_id_candidates that has a reservation (venus_instance.py:205-249).
THEOREM ReservationsAreKept == Spec => []StaysInv
<1> QED
  BY InitialInstances, InitialStays, InstanceStep, StaysStep, PTL DEF Spec

\* A driver comes up only by settling: with the configured instance, or with a number
\* it found reserved or was given.
LEMMA UpSettles ==
    ASSUME IInv, StaysInv, [Next]_nvars, NEW a \in Adapters, ~Up(a), Up(a)', upsets' = 0,
           before[a].instance # None, Selection(a) = before[a].instance
    PROVE  proc'[a].instance = before[a].instance
<1>1. upsets = 0
  BY InvIsGood DEF Next, Starting, Resolving, Stopping, Recable, Select, Upset, nvars, ivars
<1>2. KeptInv(a) /\ AskedInv(a) /\ proc[a] \in ProcState
  BY <1>1, InvIsGood DEF StaysInv
<1>3. PICK ok \in BOOLEAN : Resolving(a, ok)
  <2>1. ASSUME NEW b \in Adapters, NEW serial \in BOOLEAN, Starting(b, serial)
        PROVE  FALSE
    <3>1. proc'[b].point = "selection" /\ \A c \in Adapters : c # b => proc'[c] = proc[c]
      BY <2>1, InvIsGood DEF Starting, Start, Down
    <3> QED
      BY <3>1 DEF Up
  <2>2. ASSUME NEW b \in Adapters, NEW ok \in BOOLEAN, Resolving(b, ok), b # a
        PROVE  FALSE
    <3>1. proc'[a] = proc[a]
      BY <2>2, InvIsGood DEF Resolving, ReadSelected, Lookup, Allocate
    <3> QED
      BY <3>1 DEF Up
  <2>3. ASSUME NEW b \in Adapters, Stopping(b)
        PROVE  FALSE
    <3>1. proc'[b].point = "down" /\ \A c \in Adapters : c # b => proc'[c] = proc[c]
      BY <2>3, InvIsGood DEF Stopping, Stop, Down
    <3> QED
      BY <3>1 DEF Up
  <2>4. proc' # proc
    BY DEF Up
  <2> QED
    BY <2>1, <2>2, <2>3, <2>4 DEF Next, Recable, Select, nvars, ivars
<1>4. ok = TRUE
  BY <1>3, <1>1, InvIsGood DEF Resolving, Upset
<1>5. CASE ReadSelected(a, ok)
  <2>1. proc[a].point = "selection" /\ selected = before[a].instance
    BY <1>5 DEF ReadSelected, Selection
  <2>2. \/ /\ a \notin AutoInstance \/ selected = Preferred
           /\ \/ proc'[a] = Settled(proc[a], Preferred, "configured", StockId)
              \/ proc'[a] = Settled(proc[a], Preferred, "pinned", StockId)
        \/ proc'[a] = [proc[a] EXCEPT !.point = "lookup", !.seen = selected]
    BY <1>4, <1>5, InvIsGood, Zenon DEF ReadSelected
  <2>3. proc'[a] # [proc[a] EXCEPT !.point = "lookup", !.seen = selected]
    BY <1>2 DEF Up, ProcState
  <2>4. proc'[a].instance = Preferred
    BY <1>2, <2>2, <2>3, SettledIs
  <2> QED
    BY <1>2, <2>1, <2>2, <2>3, <2>4 DEF KeptInv
<1>6. ASSUME proc[a].point \in {"lookup", "allocate"}
      PROVE  /\ before[a].instance \notin {None, Preferred}
             /\ proc[a].ids = Before(a)
             /\ FirstReserved(proc[a].ids, before[a].instance)
  <2>1. proc[a].seen = before[a].instance /\ proc[a].seen # Preferred
    BY <1>2, <1>6 DEF AskedInv, Selection
  <2> QED
    BY <1>2, <1>6, <2>1 DEF AskedInv, KeptInv
<1>7. CASE Lookup(a, ok)
  <2> DEFINE p == proc[a]
             id == Head(p.left)
             n == Asked(a)
  <2>1. p.point = "lookup" /\ p.left # <<>> /\ p.left \in Seq(Ids) /\ p.ids \in Seq(Ids)
    BY <1>7, <1>2, InvIsGood DEF Lookup, Good, ProcState
  <2>2. /\ store[id] \in Nat => proc'[a] = Settled(p, store[id], "reserved", id)
        /\ store[id] \notin Nat =>
             \/ proc'[a] = [p EXCEPT !.point = "allocate", !.left = <<>>]
             \/ proc'[a] = [p EXCEPT !.left = Tail(p.left)]
    BY <1>4, <1>7, InvIsGood, Zenon DEF Lookup
  <2>3. store[id] \in Nat /\ proc'[a].instance = store[id]
    <3>1. [p EXCEPT !.point = "allocate", !.left = <<>>].point # "up"
          /\ [p EXCEPT !.left = Tail(p.left)].point # "up"
      BY <1>2, <2>1 DEF ProcState
    <3>2. proc'[a].point = "up"
      BY DEF Up
    <3>3. store[id] \in Nat
      BY <2>2, <3>1, <3>2, Zenon
    <3> QED
      BY <1>2, <2>2, <3>3, SettledIs
  <2>4. PICK k \in 1..Len(p.ids) :
          store[p.ids[k]] = before[a].instance
          /\ \A j \in 1..(k - 1) : store[p.ids[j]] \notin Nat
    BY <1>6, <2>1 DEF FirstReserved
  <2>5. before[a].instance \in Nat
    BY <1>6, <2>1 DEF StaysInv, BeforeState
  <2>6. /\ n \in 0..Len(p.ids) /\ n = Len(p.ids) - Len(p.left)
        /\ \A j \in 1..Len(p.left) : p.left[j] = p.ids[n + j]
        /\ \A j \in 1..n : store[p.ids[j]] \notin Nat
    BY <1>2, <2>1 DEF AskedInv, Asked
  <2> HIDE DEF n
  <2>7. Len(p.left) \in Nat /\ Len(p.ids) \in Nat /\ Len(p.left) >= 1 /\ id = p.left[1]
    BY <2>1
  <2>8. id = p.ids[n + 1]
    <3>1. 1 \in 1..Len(p.left)
      BY <2>7
    <3> QED
      BY <2>6, <2>7, <3>1, Zenon
  <2> HIDE DEF p, id
  <2>9. k = n + 1
    <3>0. k \in Nat /\ n \in Nat /\ k >= 1
      BY <2>4, <2>6, <2>7
    <3>1. ASSUME k <= n PROVE FALSE
      <4>1. k \in 1..n
        BY <3>0, <3>1
      <4>2. store[p.ids[k]] \notin Nat
        BY <2>6, <4>1, Zenon
      <4> QED
        BY <2>4, <2>5, <4>2
    <3>2. ASSUME n + 1 <= k - 1 PROVE FALSE
      <4>1. n + 1 \in 1..(k - 1)
        BY <3>0, <3>2
      <4>2. store[p.ids[n + 1]] \notin Nat
        BY <2>4, <4>1, Zenon
      <4> QED
        BY <2>3, <2>8, <4>2
    <3> QED
      BY <3>0, <3>1, <3>2
  <2> QED
    BY <2>3, <2>4, <2>8, <2>9
<1>8. CASE \E n \in Preferred..MaxInstance : Allocate(a, ok, n)
  <2>1. proc[a].point = "allocate" /\ proc[a].ids \in Seq(Ids)
    BY <1>2, <1>8 DEF Allocate, ProcState
  <2>2. PICK k \in 1..Len(proc[a].ids) : store[proc[a].ids[k]] = before[a].instance
    BY <1>6, <2>1 DEF FirstReserved
  <2>3. before[a].instance \in Nat
    BY <1>6, <2>1 DEF StaysInv, BeforeState
  <2>4. proc[a].left = <<>> /\ Asked(a) = Len(proc[a].ids)
    <3>1. proc[a].left = <<>>
      BY <1>2, <2>1 DEF AskedInv
    <3>2. Len(proc[a].left) = 0 /\ Len(proc[a].ids) \in Nat
      BY <2>1, <3>1
    <3> QED
      BY <3>1, <3>2 DEF Asked
  <2>5. store[proc[a].ids[k]] \notin Nat
    BY <1>2, <2>1, <2>2, <2>4 DEF AskedInv
  <2> QED
    BY <2>2, <2>3, <2>5
<1> QED
  BY <1>3, <1>5, <1>7, <1>8 DEF Resolving

\* "An instance the system is currently selecting is never moved" (README.md:687), for
\* any number of adapters in any interleaving, as long as nothing has been upset.
THEOREM SelectedNeverMoves == Spec => SelectedStays
<1>1. IInv /\ StaysInv /\ [Next]_nvars =>
        [\A a \in Adapters :
           ~Up(a) /\ Up(a)' /\ upsets' = 0
           /\ before[a].instance # None /\ Selection(a) = before[a].instance
           => proc'[a].instance = before[a].instance]_nvars
  BY UpSettles
<1> QED
  BY <1>1, InstanceInvariance, ReservationsAreKept, PTL DEF Spec, SelectedStays
====
