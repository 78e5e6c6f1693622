------------------------------- MODULE Instances -------------------------------
(***************************************************************************)
(* Several adapters on one Venus system, with a user who selects the       *)
(* battery monitor and may exchange cables, with a localsettings that may  *)
(* not answer, and what is promised about their instances.                 *)
(***************************************************************************)
EXTENDS Instance

CONSTANTS
    Misreserved,   \* adapters whose interface may have a reservation of another class
    MaxInstance,   \* bound on the numbers given out
    MaxUpsets      \* bound on upsets

ASSUME MisreservedAssumption == Misreserved \subseteq Adapters
ASSUME InstanceBoundsAssumption == MaxInstance \in Nat /\ MaxUpsets \in Nat

VARIABLES
    before,    \* for each adapter, what it published last, and whether it knew its serial
    upsets     \* failed accesses, exchanged cables, serials that were known and are not

nvars == <<ivars, before, upsets>>

NInit ==
    /\ store \in [Ids -> {None, OtherClass, Preferred}]
    /\ \A id \in Ids : store[id] = OtherClass => \E a \in Misreserved : id = InterfaceId(a)
    /\ \A id \in Ids : store[id] = Preferred => id = StockId
    /\ selected = None
    /\ cable \in [Adapters -> Packs]
    /\ \A a, b \in Adapters : cable[a] = cable[b] => a = b
    /\ proc = [a \in Adapters |-> Down]
    /\ before = [a \in Adapters |-> [instance |-> None, serial |-> FALSE]]
    /\ upsets = 0

Upset(happens) ==
    /\ happens => upsets < MaxUpsets
    /\ upsets' = IF happens THEN upsets + 1 ELSE upsets

Remember(a) ==
    before' = IF proc'[a].point = "up"
              THEN [before EXCEPT ![a].instance = proc'[a].instance]
              ELSE before

Starting(a, serial) ==
    /\ Start(a, serial)
    /\ Upset(before[a].serial /\ ~serial)
    /\ before' = [before EXCEPT ![a].serial = serial]

Resolving(a, ok) ==
    /\ \/ ReadSelected(a, ok)
       \/ Lookup(a, ok)
       \/ \E n \in Preferred..MaxInstance : Allocate(a, ok, n)
    /\ Upset(~ok)
    /\ Remember(a)

Stopping(a) == Stop(a) /\ UNCHANGED <<before, upsets>>

\* The user selects a battery that is on the bus, or none.
Select(n) ==
    /\ n = None \/ \E a \in Adapters : proc[a].point = "up" /\ proc[a].instance = n
    /\ selected' = n
    /\ UNCHANGED <<store, cable, proc, before, upsets>>

\* Two packs change places while their drivers are stopped.
Recable(a, b) ==
    /\ a # b
    /\ proc[a].point = "down" /\ proc[b].point = "down"
    /\ cable' = [cable EXCEPT ![a] = cable[b], ![b] = cable[a]]
    /\ Upset(TRUE)
    /\ UNCHANGED <<store, selected, proc, before>>

Next ==
    \/ \E a \in Adapters :
          \/ \E serial \in BOOLEAN : Starting(a, serial)
          \/ \E ok \in BOOLEAN : Resolving(a, ok)
          \/ Stopping(a)
          \/ \E b \in Adapters : Recable(a, b)
    \/ \E n \in {None} \cup (Preferred..MaxInstance) : Select(n)

Spec == NInit /\ [][Next]_nvars

-----------------------------------------------------------------------------
(* Properties. *)

Points  == {"down", "selection", "lookup", "allocate", "up"}
Sources == {"none", "configured", "pinned", "reserved", "allocated", "fallback"}

ProcState ==
    [point : Points, ids : Seq(Ids), left : Seq(Ids), seen : Nat \cup {None},
     instance : Nat \cup {None}, source : Sources, id : Ids]

\* Types; a service on the bus has a number, and a driver has identities to ask for.
InstanceTypeOK ==
    /\ store \in [Ids -> Nat \cup {None, OtherClass}]
    /\ selected \in Nat \cup {None}
    /\ cable \in [Adapters -> Packs]
    /\ upsets \in Nat
    /\ proc \in [Adapters -> ProcState]
    /\ \A a \in Adapters :
         /\ proc[a].point = "up" => proc[a].instance \in Nat
         /\ proc[a].point = "lookup" => proc[a].left # <<>>
         /\ proc[a].point \in {"selection", "lookup", "allocate"} => proc[a].ids # <<>>
         /\ proc[a].point = "selection" => proc[a].left # <<>>

Up(a) == proc[a].point = "up"

\* Two batteries on the bus never have one instance: "Two packs therefore come up as
\* 513 and 514 with no configuration at all" (README.md:680).
InstancesUnique ==
    \A a, b \in Adapters :
        Up(a) /\ Up(b) /\ proc[a].instance = proc[b].instance => a = b

\* What the reservations do guarantee: two batteries share an instance only if one of
\* them publishes a number it has not been granted.
Granted(a) == proc[a].source \in {"reserved", "allocated"}

GrantsUnique ==
    \A a, b \in Adapters :
        /\ Up(a) /\ Up(b) /\ Granted(a) /\ Granted(b)
        /\ proc[a].instance = proc[b].instance
        => a = b

\* When batteries do share an instance it is the configured one; no number that
\* localsettings has given out otherwise is ever on the bus twice, whatever fails.
OnlyConfiguredShared ==
    \A a, b \in Adapters :
        Up(a) /\ Up(b) /\ proc[a].instance = proc[b].instance =>
            a = b \/ proc[a].instance = Preferred

\* "An instance the system is currently selecting is never moved" (README.md:687), as
\* long as localsettings answers, cables stay and a serial once known comes again: a
\* driver that finds the number it published before selected publishes it again.
Selection(a) == IF proc[a].point = "selection" THEN selected ELSE proc[a].seen

SelectedStays ==
    [][\A a \in Adapters :
         ~Up(a) /\ Up(a)' /\ upsets' = 0
         /\ before[a].instance # None /\ Selection(a) = before[a].instance
         => proc'[a].instance = before[a].instance]_nvars

(***************************************************************************)
(* The inductive invariant behind them: no number is reserved twice, and a *)
(* granted number is that of an identity no other driver uses.             *)
(***************************************************************************)
CablesInv == \A a, b \in Adapters : cable[a] = cable[b] => a = b

StoreInv ==
    \A id1, id2 \in Ids : store[id1] \in Nat /\ store[id1] = store[id2] => id1 = id2

\* The identities a driver may use; a stopped driver holds none, as its cable may change.
OwnIds(a) == {SerialId(cable[a]), InterfaceId(a), ExplicitId(a)}

OwnInv ==
    \A a \in Adapters :
        /\ proc[a].ids \in Seq(OwnIds(a))
        /\ proc[a].left \in Seq(OwnIds(a))
        /\ proc[a].point = "down" => proc[a].ids = <<>> /\ proc[a].left = <<>>

GrantedInv ==
    \A a \in Adapters :
        Up(a) /\ Granted(a) => proc[a].id \in OwnIds(a) /\ store[proc[a].id] = proc[a].instance

\* A driver that was granted no number publishes the configured one.
UngrantedInv == \A a \in Adapters : Up(a) => Granted(a) \/ proc[a].instance = Preferred

IInv == InstanceTypeOK /\ CablesInv /\ StoreInv /\ OwnInv /\ GrantedInv

(***************************************************************************)
(* What SelectedStays needs besides, while nothing has been upset: what a  *)
(* driver published last is still the first reservation it will find.      *)
(***************************************************************************)
Before(a) == Candidates(a, before[a].serial)

FirstReserved(ids, n) ==
    \E k \in 1..Len(ids) :
        store[ids[k]] = n /\ \A j \in 1..(k - 1) : store[ids[j]] \notin Nat

\* How many identities the driver has asked for: those are not reserved, the rest is left.
Asked(a) == Len(proc[a].ids) - Len(proc[a].left)

AskedInv(a) ==
    /\ proc[a].point \in {"selection", "lookup", "allocate"} => proc[a].ids = Before(a)
    /\ proc[a].point = "selection" => proc[a].left = proc[a].ids
    /\ proc[a].point \in {"lookup", "allocate"} =>
         /\ a \in AutoInstance /\ proc[a].seen # Preferred
         /\ Asked(a) \in 0..Len(proc[a].ids)
         /\ \A j \in 1..Len(proc[a].left) : proc[a].left[j] = proc[a].ids[Asked(a) + j]
         /\ \A j \in 1..Asked(a) : store[proc[a].ids[j]] \notin Nat
    /\ proc[a].point = "allocate" => proc[a].left = <<>>

KeptInv(a) ==
    /\ before[a].instance # None /\ a \notin AutoInstance => before[a].instance = Preferred
    /\ before[a].instance \notin {None, Preferred} => FirstReserved(Before(a), before[a].instance)
    /\ store[SerialId(cable[a])] \in Nat => before[a].serial

StaysInv ==
    /\ before \in [Adapters -> [instance : Nat \cup {None}, serial : BOOLEAN]]
    /\ upsets = 0 => \A a \in Adapters : AskedInv(a) /\ KeptInv(a)
====
