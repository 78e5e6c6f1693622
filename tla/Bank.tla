---------------------------------- MODULE Bank ----------------------------------
(***************************************************************************)
(* A parallel bank of packs as the driver knows it (packs.py, over the     *)
(* fields of cache.py), and the charge limits the policy derives from it   *)
(* (policy.py).                                                            *)
(*                                                                         *)
(* Each pack sends its own frames; the master, pack First, also sends the  *)
(* bank's: the request (0x351) and its count of packs (0x364).  Ages are   *)
(* in ticks and stop at Stale.                                             *)
(*                                                                         *)
(* The MOS of a pack, the count of packs that block and the request exist  *)
(* once for charge and once for discharge, in other bytes of the same      *)
(* frames, and the two are read alike; one of them is modelled.  It is the *)
(* charge side for Ceiling, Ccl and Cvl, and the discharge side for Dcl.   *)
(***************************************************************************)
EXTENDS Integers, FiniteSets, FiniteSetsExt

CONSTANTS
    Packs,
    First,         \* pack 1, whose fields the policy requires
    CriticalFor,   \* how long a critical field is usable (TIMEOUTS)
    Allowance,     \* what each pack allows (0x250), in amperes
    CvlRequests,   \* plausible charge voltages of a 0x351 frame,
    CvlCeiling,    \* the provisional ceiling
    CvlBlocked     \* and the voltage published while charge is blocked

ASSUME PacksAssumption == IsFiniteSet(Packs) /\ First \in Packs
ASSUME CriticalAssumption == CriticalFor \in Nat
ASSUME AllowanceAssumption == Allowance \in [Packs -> Nat]
ASSUME CvlAssumption ==
    /\ CvlRequests \subseteq Nat /\ CvlCeiling \in Nat
    /\ CvlBlocked \in Nat /\ CvlBlocked <= CvlCeiling

VARIABLES
    seen,      \* packs a frame of which has ever been received
    mos,       \* of each pack the age and charge MOS state of its 0x110 frame
    allow,     \* packs whose 0x250 value is usable
    counts,    \* age and content of the last 0x364 frame
    limits,    \* age and current of the last 0x351 frame whose currents were accepted
    voltage    \* age and charge voltage of the last one whose charge voltage was

cache == <<seen, mos, allow, counts, limits, voltage>>

Stale       == CriticalFor + 1
Fresh(item) == item.age <= CriticalFor
Older(item) == [item EXCEPT !.age = IF item.age < Stale THEN item.age + 1 ELSE Stale]

None == -1
Amperes(packs) == MapThenSumSet(LAMBDA p : Allowance[p], packs)

-----------------------------------------------------------------------------
(* BankView. *)

\* A pack is online while its 0x110 frame is fresh.
Online == {p \in seen : Fresh(mos[p])}

Expected ==
    IF Fresh(counts) /\ counts.connected > 0
    THEN IF counts.connected > Cardinality(Online) THEN counts.connected ELSE Cardinality(Online)
    ELSE Cardinality(seen)

Complete == seen # {} /\ Cardinality(Online) >= Expected
Multiple == Expected > 1 \/ Cardinality(seen) > 1

\* Packs that accept current, as far as their frames say.
Closed == {p \in Online : mos[p].closed}

\* Mutant: the count is believed although every pack is heard.
BlockingCountAllowsAlways ==
    Fresh(counts) /\ counts.blocking < Expected

\* The master says that some pack the driver does not hear accepts current.
BlockingCountAllows ==
    ~Complete /\ Fresh(counts) /\ counts.blocking < Expected

\* charge_mos_closed and discharge_mos_closed.
MosClosed == Closed # {} \/ (Multiple /\ BlockingCountAllows)

\* Mutant: the packs that are heard are summed although others are missing.
CeilingOfHeard ==
    LET contributing == IF Multiple THEN Closed ELSE {First}
    IN  IF contributing # {} /\ contributing \subseteq allow
        THEN Amperes(contributing) + Cardinality(contributing)
        ELSE None

\* allowable_charge_current: the sum over the packs that accept charge, with an ampere
\* for the rounding of each; None when it would be a guess.
Ceiling ==
    LET contributing == IF Multiple THEN Closed ELSE {First}
    IN  IF (Multiple => Complete) /\ contributing # {} /\ contributing \subseteq allow
        THEN Amperes(contributing) + Cardinality(contributing)
        ELSE None

-----------------------------------------------------------------------------
(* evaluate_policy, for a bank with no other reason to stop charging. *)

CriticalReady == Fresh(limits) /\ Fresh(voltage) /\ First \in Online

Ccl ==
    LET least == IF Ceiling # None /\ Ceiling < limits.amperes THEN Ceiling ELSE limits.amperes
    IN  IF MosClosed THEN least ELSE 0

\* Mutant: the packs' allowances cap the discharge current as well.
DclByAllowance == Ccl

\* No voltage, alarm or allowance reduces it.
Dcl == IF MosClosed THEN limits.amperes ELSE 0

Cvl ==
    LET capped == IF voltage.volts < CvlCeiling THEN voltage.volts ELSE CvlCeiling
    IN  IF Ccl > 0 \/ capped < CvlBlocked THEN capped ELSE CvlBlocked

-----------------------------------------------------------------------------
(* The frames the cache stores. *)

NothingReceived ==
    /\ seen = {}
    /\ mos = [p \in Packs |-> [age |-> Stale, closed |-> FALSE]]
    /\ allow = {}
    /\ counts = [age |-> Stale, connected |-> 0, blocking |-> 0]
    /\ limits = [age |-> Stale, amperes |-> 0]
    /\ voltage = [age |-> Stale, volts |-> 0]

ReceiveMos(p, closed) ==
    /\ seen' = seen \cup {p}
    /\ mos' = [mos EXCEPT ![p] = [age |-> 0, closed |-> closed]]
    /\ UNCHANGED <<allow, counts, limits, voltage>>

\* Mutant: only a 0x110 frame makes a pack known.
ReceiveAllowanceUnseen(p) ==
    /\ allow' = allow \cup {p}
    /\ UNCHANGED <<seen, mos, counts, limits, voltage>>

ReceiveAllowance(p) ==
    /\ seen' = seen \cup {p}
    /\ allow' = allow \cup {p}
    /\ UNCHANGED <<mos, counts, limits, voltage>>

ReceiveCounts(connected, blocking) ==
    /\ counts' = [age |-> 0, connected |-> connected, blocking |-> blocking]
    /\ UNCHANGED <<seen, mos, allow, limits, voltage>>

ReceiveLimits(amperes, volts) ==
    /\ limits' = [age |-> 0, amperes |-> amperes]
    /\ voltage' = [age |-> 0, volts |-> volts]
    /\ UNCHANGED <<seen, mos, allow, counts>>

\* A frame whose low-voltage limit, or whose current, is impossible: the currents are
\* refused, and their age keeps running, but the charge voltage is judged by its own
\* range alone and stored.
RefuseCurrents(volts) ==
    /\ voltage' = [age |-> 0, volts |-> volts]
    /\ UNCHANGED <<seen, mos, allow, counts, limits>>

\* A frame whose charge voltage is impossible, such as one of zeros: its currents are
\* refused with it.
RejectLimits == UNCHANGED cache

\* One tick later.
Age ==
    /\ mos' = [p \in Packs |-> Older(mos[p])]
    /\ counts' = Older(counts)
    /\ limits' = Older(limits)
    /\ voltage' = Older(voltage)
    /\ UNCHANGED <<seen, allow>>

\* The 0x250 value of p is older than 180 s.
ExpireAllowance(p) ==
    /\ p \in allow
    /\ allow' = allow \ {p}
    /\ UNCHANGED <<seen, mos, counts, limits, voltage>>
====
