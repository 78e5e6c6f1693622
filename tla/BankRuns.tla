-------------------------------- MODULE BankRuns --------------------------------
(***************************************************************************)
(* A bank whose packs open and close their MOS and leave and join the      *)
(* parallel link, with any frame lost at any time, and what the published  *)
(* limits may say of it.                                                   *)
(***************************************************************************)
EXTENDS Bank

VARIABLES
    linked,      \* packs on the parallel link
    accepts,     \* packs with a closed MOS
    since,       \* ticks since a pack of the bank last accepted current
    steady       \* ticks since linked or accepts last changed

bvars == <<cache, linked, accepts, since, steady>>

Accepting == linked \cap accepts

Longer(ticks) == IF ticks < Stale THEN ticks + 1 ELSE Stale

BInit ==
    /\ NothingReceived
    /\ linked \in SUBSET Packs /\ First \in linked
    /\ accepts \in SUBSET Packs
    /\ since = IF linked \cap accepts = {} THEN Stale ELSE 0
    /\ steady = Stale

Tick ==
    /\ Age
    /\ since' = IF Accepting = {} THEN Longer(since) ELSE 0
    /\ steady' = Longer(steady)
    /\ UNCHANGED <<linked, accepts>>

\* A frame of the bank as it is now reaches the driver, or what was known expires.  The
\* master may ask for current that no pack accepts: the pulses of cache.py:367-377.
Hear ==
    /\ \/ \E p \in linked : ReceiveMos(p, p \in accepts) \/ ReceiveAllowance(p)
       \/ ReceiveCounts(Cardinality(linked), Cardinality(linked \ accepts))
       \/ \E packs \in {Accepting, Packs}, volts \in CvlRequests :
             ReceiveLimits(Amperes(packs), volts)
       \/ \E volts \in CvlRequests : RefuseCurrents(volts)
       \/ RejectLimits
       \/ \E p \in Packs : ExpireAllowance(p)
    /\ UNCHANGED <<linked, accepts, since, steady>>

\* One pack opens or closes its MOS, or leaves or joins the link.
Change(p) ==
    /\ \/ accepts' = (accepts \ {p}) \cup ({p} \ accepts) /\ linked' = linked
       \/ p # First /\ linked' = (linked \ {p}) \cup ({p} \ linked) /\ accepts' = accepts
    /\ since' = IF linked' \cap accepts' = {} THEN since ELSE 0
    /\ steady' = 0
    /\ UNCHANGED cache

BNext == Tick \/ Hear \/ \E p \in Packs : Change(p)

BSpec == BInit /\ [][BNext]_bvars

-----------------------------------------------------------------------------
(* Properties. *)

BankTypeOK ==
    /\ seen \in SUBSET Packs /\ allow \in SUBSET seen
    /\ mos \in [Packs -> [age : 0..Stale, closed : BOOLEAN]]
    /\ counts \in [age : 0..Stale, connected : Nat, blocking : Nat]
    /\ limits \in [age : 0..Stale, amperes : Nat]
    /\ voltage \in [age : 0..Stale, volts : Nat]
    /\ linked \in SUBSET Packs /\ First \in linked /\ accepts \in SUBSET Packs
    /\ since \in 0..Stale /\ steady \in 0..Stale

\* A permission is never older than the freshness limit: when for longer than that no pack
\* of the bank has accepted current, the published current of that direction is zero, and
\* with charge the voltage that of a blocked bank, whatever frames were lost and whatever
\* the master asks for (policy.py:503-537).
PermissionBacked ==
    CriticalReady /\ since = Stale => Ccl = 0 /\ Cvl <= CvlBlocked /\ Dcl = 0

\* "Charge is allowed while any pack accepts it" (README.md:261) and "the driver does not
\* guess from the packs it can see" (README.md:268): when the bank has stood for longer
\* than the freshness limit, a request for what its packs allow is published as it is,
\* whichever frames of the other packs are lost, as long as the master's count arrives.
\* The current is never that of a refused 0x351 frame; the charge voltage may be, if it
\* is plausible in itself (decoder.py:395-398).
StandingBankCharges ==
    /\ CriticalReady /\ Fresh(counts) /\ steady = Stale /\ Accepting # {}
    /\ limits.amperes <= Amperes(Accepting)
    => /\ Ccl = limits.amperes
       /\ Ccl > 0 => Cvl = IF voltage.volts < CvlCeiling THEN voltage.volts ELSE CvlCeiling

\* A second opinion "must never reduce the discharge limit: a stale low value there could
\* stop an islanded Multi" (policy.py:488-490): while a pack of a standing bank accepts
\* discharge the request is published as it is, however much it asks for and whichever
\* frames of the packs are lost or expired.
StandingBankDischarges ==
    CriticalReady /\ Fresh(counts) /\ steady = Stale /\ Accepting # {} => Dcl = limits.amperes

\* The request is no more than the packs can take: while every pack of a standing bank is
\* heard and the allowance of each that accepts charge is usable, the published current is
\* at most their sum and an ampere for the rounding of each, whatever the master asks for
\* ("transient charge-request pulses", cache.py:367-377).
StandingBankIsCapped ==
    /\ CriticalReady /\ Fresh(counts) /\ steady = Stale /\ Accepting # {}
    /\ Complete /\ Accepting \subseteq allow
    => Ccl <= Amperes(Accepting) + Cardinality(Accepting)

(***************************************************************************)
(* The invariant behind them: a fresh frame tells what the bank was when   *)
(* it was sent, and what it is when it has stood since.                    *)
(***************************************************************************)
MosInv ==
    \A p \in Packs : Fresh(mos[p]) =>
        /\ p \in seen
        /\ mos[p].closed => since <= mos[p].age
        /\ mos[p].age < steady => p \in linked /\ (mos[p].closed <=> p \in accepts)

CountsInv ==
    Fresh(counts) =>
        /\ counts.connected > 0
        /\ counts.blocking < counts.connected => since <= counts.age
        /\ counts.age < steady => /\ counts.connected = Cardinality(linked)
                                  /\ counts.blocking = Cardinality(linked \ accepts)

SinceInv == Accepting # {} => since = 0

BankInv == BankTypeOK /\ MosInv /\ CountsInv /\ SinceInv
====
