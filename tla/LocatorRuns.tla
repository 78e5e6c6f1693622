------------------------------ MODULE LocatorRuns ------------------------------
(***************************************************************************)
(* Locator with history variables, and what the cross-check may rely on.   *)
(***************************************************************************)
EXTENDS Locator

VARIABLES
    listings,    \* how often the names have been listed
    steady,      \* since when every name on the bus has been the same, and has answered
    served       \* the name that gave the last voltage, until a read fails

lhvars == <<lvars, listings, steady, served>>

LocatorRunsInit ==
    /\ LocatorInit
    /\ listings = 0
    /\ steady = IF owned = {} THEN None ELSE 0
    /\ served = None

Listed == ~Known /\ _may_retry

LocatorRunsNext ==
    \/ (Pass \/ BusChanges) /\ UNCHANGED <<listings, served>> /\
       steady' = IF owned' = {} \/ answering' # owned' THEN None
                 ELSE IF bus' = bus THEN steady ELSE clock
    \/ \E listed \in BOOLEAN :
         /\ Resolve(listed)
         /\ listings' = IF Listed THEN listings + 1 ELSE listings
         /\ steady' = IF steady # None /\ Listed /\ ~listed THEN clock ELSE steady
         /\ served' = IF asking' = None THEN None ELSE served
    \/ \E number \in BOOLEAN :
         /\ Answer(number)
         /\ steady' = IF steady # None /\ asking \in answering /\ ~number THEN clock ELSE steady
         /\ served' = IF number THEN asking ELSE None
         /\ UNCHANGED listings

LocatorRunsSpec == LocatorRunsInit /\ [][LocatorRunsNext]_lhvars

-----------------------------------------------------------------------------

LTime == 0..MaxTime

LocatorTypeOK ==
    /\ {clock, began} \subseteq LTime /\ {steady, _last_attempt} \subseteq LTime \cup {None}
    /\ answering \subseteq owned /\ owned \subseteq Names
    /\ {explicit, _resolved, asking, served} \subseteq Names \cup {None}
    /\ explicit # None => _resolved = explicit
    /\ voltage \in BOOLEAN
    /\ listings \in Nat

\* "Re-resolving on every failed read would hammer the bus while VE.Bus is restarting,
\* which is exactly when reads fail" (venus_discovery.py:24-26): in any time t the names
\* are listed at most once, and once more per Interval, whatever fails.
ListingsBounded == listings <= 1 + clock \div Interval

Longest == IF Interval > Cycle THEN Interval ELSE Cycle

\* What is on the bus and answers gives a voltage again, an interval and two reads later
\* at the latest: no failure before that puts the next attempt off further.
FoundAgain ==
    explicit = None /\ steady # None /\ clock - steady > Longest + 2 * Cycle => voltage

\* The cross-check moves to another inverter only after a read of the present one failed,
\* and never away from one that was configured ("silently switching to another one would
\* move the voltage cross-check to a different inverter", venus_discovery.py:104-106).
CrosscheckStays ==
    [][/\ served # None /\ served' # None => served' = served
       /\ explicit # None => served' \in {explicit, None}]_lhvars
-----------------------------------------------------------------------------
(* The invariant behind them. *)

\* What is asked is what has been found, and a voltage is that of a name still known.
AskingInv ==
    /\ began <= clock /\ clock - began <= Cycle /\ _last_attempt <= clock
    /\ asking # None => asking = _resolved
    /\ asking = None /\ voltage => _resolved # None
    /\ explicit = None /\ asking = None /\ _resolved # None => voltage
    /\ served # None => _resolved = served

\* The listings are an Interval apart, the first may be at 0.
ListingsInv ==
    IF _last_attempt = None THEN listings = 0
    ELSE listings > 0 /\ (listings - 1) * Interval <= _last_attempt

\* While the bus is steady: a name found before is asked once more, then forgotten; what is
\* looked up after that is there.
SteadyInv ==
    steady # None =>
        /\ steady <= clock /\ owned # {} /\ answering = owned
        /\ explicit = None =>
             /\ _resolved = None => _last_attempt <= steady /\ began <= steady + Longest
             /\ _resolved # None /\ _resolved \notin owned =>
                  /\ _last_attempt <= steady
                  /\ began <= IF asking = None THEN steady ELSE steady + Cycle
             /\ _resolved \in owned /\ ~voltage => began <= steady + Longest + Cycle

LocatorInv == LocatorTypeOK /\ AskingInv /\ ListingsInv /\ SteadyInv
====
