-------------------------------- MODULE Locator --------------------------------
(***************************************************************************)
(* VebusLocator of venus_discovery.py: which VE.Bus service the voltage    *)
(* cross-check reads.  A name is looked up once, forgotten after a failed  *)
(* read and looked up again, but not more often than every Interval.       *)
(*                                                                         *)
(* A name is its place in the sorted order of the names.                   *)
(***************************************************************************)
EXTENDS Integers

CONSTANTS
    Names,       \* VE.Bus service names there may be
    Interval,    \* REDISCOVER_INTERVAL_SECONDS
    Cycle,       \* longest time from one read to the next
    MaxTime      \* bound on the clock

ASSUME NamesAssumption == Names \subseteq Nat
ASSUME LocatorTimesAssumption == {Interval, Cycle, MaxTime} \subseteq Nat \ {0}

None == -1

VARIABLES
    clock,
    owned, answering,    \* the names on the bus, and those whose voltage can be read
    explicit, _resolved, _last_attempt,    \* the locator
    asking,              \* the name whose voltage the thread is waiting for
    began,               \* when the thread last asked
    voltage              \* whether that gave a voltage

bus == <<owned, answering>>
locator == <<_resolved, _last_attempt>>
lvars == <<clock, bus, explicit, locator, asking, began, voltage>>

LocatorInit ==
    /\ clock = 0
    /\ owned \in SUBSET Names /\ answering = owned
    /\ explicit \in Names \cup {None}
    /\ _resolved = explicit
    /\ _last_attempt = None
    /\ asking = None
    /\ began = 0
    /\ voltage = FALSE

-----------------------------------------------------------------------------

Pass ==
    /\ clock < MaxTime /\ clock - began < Cycle
    /\ clock' = clock + 1
    /\ UNCHANGED <<bus, explicit, locator, asking, began, voltage>>

\* Services come, go, and stop answering.
BusChanges ==
    /\ owned' \in SUBSET Names /\ answering' \in SUBSET owned'
    /\ bus' # bus
    /\ UNCHANGED <<clock, explicit, locator, asking, began, voltage>>

\* discover_vebus_service: the first of the names, none when they cannot be listed.
Discovered(listed) ==
    IF listed /\ owned # {} THEN CHOOSE n \in owned : \A m \in owned : n <= m ELSE None

_may_retry == _last_attempt = None \/ clock - _last_attempt >= Interval

\* Mutant: an attempt counts only when it finds something.
LookUpUncounted(listed) ==
    /\ _resolved' = Discovered(listed)
    /\ _last_attempt' = IF _resolved' = None THEN _last_attempt ELSE clock

LookUp(listed) ==
    /\ _resolved' = Discovered(listed)
    /\ _last_attempt' = clock

\* Mutant: a refused attempt puts off the next one.
RefusedPutsOff ==
    /\ _resolved' = _resolved
    /\ _last_attempt' = IF explicit = None /\ _resolved = None THEN clock ELSE _last_attempt

Refused == UNCHANGED locator

\* Mutant: the name is looked up again whenever that is allowed.
KnownUntilRetry == explicit # None \/ (_resolved # None /\ ~_may_retry)

Known == explicit # None \/ _resolved # None

\* resolve(), and read_vebus_voltage up to the question it sends.
Resolve(listed) ==
    /\ asking = None
    /\ IF ~Known /\ _may_retry THEN LookUp(listed) ELSE Refused
    /\ asking' = IF explicit # None THEN explicit ELSE _resolved'
    /\ began' = clock
    /\ voltage' = IF asking' = None THEN FALSE ELSE voltage
    /\ UNCHANGED <<clock, bus, explicit>>

\* Mutant: an explicit name is forgotten as well.
ForgottenAlways == None

Forgotten == IF explicit # None THEN _resolved ELSE None

\* The rest of read_vebus_voltage: the answer, and invalidate() when there is none.
Answer(number) ==
    /\ asking # None
    /\ number => asking \in answering
    /\ voltage' = number
    /\ _resolved' = IF number THEN _resolved ELSE Forgotten
    /\ asking' = None
    /\ UNCHANGED <<clock, bus, explicit, _last_attempt, began>>

LocatorNext ==
    \/ Pass \/ BusChanges
    \/ \E listed \in BOOLEAN : Resolve(listed)
    \/ \E number \in BOOLEAN : Answer(number)

LocatorSpec == LocatorInit /\ [][LocatorNext]_lvars
====
