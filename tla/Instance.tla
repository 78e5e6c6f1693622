------------------------------- MODULE Instance -------------------------------
(***************************************************************************)
(* How a driver process finds the device instance it publishes             *)
(* (venus_instance.py, _resolve_instance of venus_bms_publisher.py): one   *)
(* step per access to localsettings, because other drivers use it between  *)
(* them.  An adapter is a driver process with its CAN interface.           *)
(*                                                                         *)
(* Localsettings itself is external: it keeps a number per identity and    *)
(* gives an identity it does not know the preferred number, or the next    *)
(* free one.                                                               *)
(***************************************************************************)
EXTENDS Integers, Sequences

CONSTANTS
    Adapters,
    Packs,
    Preferred,     \* the configured device instance, the same for all
    AutoInstance,  \* adapters with --auto-device-instance
    Explicit       \* adapters with --device-settings-id

ASSUME PreferredAssumption == Preferred \in Nat
ASSUME AdaptersAssumption == AutoInstance \subseteq Adapters /\ Explicit \subseteq Adapters

None       == -1   \* no number, no reservation
OtherClass == -2   \* a reservation for another device class
NoPack     == "no pack"

SerialId(p)    == <<"serial", p>>
InterfaceId(a) == <<"interface", a>>
ExplicitId(a)  == <<"explicit", a>>
StockId        == <<"stock", NoPack>>

Ids == {SerialId(p) : p \in Packs \cup {NoPack}} \cup {InterfaceId(a) : a \in Adapters}
       \cup {ExplicitId(a) : a \in Adapters} \cup {StockId}

VARIABLES
    store,       \* ClassAndVrmInstance of each identity
    selected,    \* the instance BatteryService points at, or None
    cable,       \* the pack each adapter's interface is connected to
    proc         \* the driver processes

ivars == <<store, selected, cable, proc>>

Down == [point |-> "down", ids |-> <<>>, left |-> <<>>, seen |-> None,
         instance |-> None, source |-> "none", id |-> StockId]

-----------------------------------------------------------------------------
\* Mutant: an unknown serial makes an identity like any other.
CandidatesWithEmpty(a, serial) ==
    (IF a \in Explicit THEN <<ExplicitId(a)>> ELSE <<>>)
    \o <<IF serial THEN SerialId(cable[a]) ELSE SerialId(NoPack)>>
    \o <<InterfaceId(a)>>

\* settings_id_candidates: most stable first; `serial` tells whether both halves of
\* the serial have been received.
Candidates(a, serial) ==
    (IF a \in Explicit THEN <<ExplicitId(a)>> ELSE <<>>)
    \o (IF serial THEN <<SerialId(cable[a])>> ELSE <<>>)
    \o <<InterfaceId(a)>>

\* The service is registered with the instance found.
Settled(p, instance, source, id) ==
    [p EXCEPT !.point = "up", !.instance = instance, !.source = source, !.id = id]

\* The data has qualified.
Start(a, serial) ==
    /\ proc[a].point = "down"
    /\ proc' = [proc EXCEPT ![a] = [Down EXCEPT !.point = "selection",
                                                !.ids = Candidates(a, serial),
                                                !.left = Candidates(a, serial)]]
    /\ UNCHANGED <<store, selected, cable>>

\* Mutant: the present selection is ignored.
ReadSelectedUnpinned(a, ok) ==
    LET p    == proc[a]
        seen == IF ok THEN selected ELSE None
    IN  /\ p.point = "selection"
        /\ proc' = [proc EXCEPT ![a] =
                      IF a \notin AutoInstance THEN Settled(p, Preferred, "configured", StockId)
                      ELSE [p EXCEPT !.point = "lookup", !.seen = seen]]
        /\ UNCHANGED <<store, selected, cable>>

\* Read which battery the system selects; a failed read counts as no selection.
\* Without --auto-device-instance, and when the configured instance is the selected
\* one, the configured one is published and nothing is asked.
ReadSelected(a, ok) ==
    LET p    == proc[a]
        seen == IF ok THEN selected ELSE None
    IN  /\ p.point = "selection"
        /\ proc' = [proc EXCEPT ![a] =
                      IF a \notin AutoInstance THEN Settled(p, Preferred, "configured", StockId)
                      ELSE IF seen = Preferred THEN Settled(p, Preferred, "pinned", StockId)
                      ELSE [p EXCEPT !.point = "lookup", !.seen = seen]]
        /\ UNCHANGED <<store, selected, cable>>

\* Mutant: the device class of a reservation is not looked at.
LookupAnyClass(a, ok) ==
    LET p     == proc[a]
        id    == Head(p.left)
        found == IF ok THEN store[id] ELSE None
    IN  /\ p.point = "lookup"
        /\ proc' = [proc EXCEPT ![a] =
                      IF found # None THEN Settled(p, found, "reserved", id)
                      ELSE IF Tail(p.left) = <<>> THEN [p EXCEPT !.point = "allocate", !.left = <<>>]
                      ELSE [p EXCEPT !.left = Tail(p.left)]]
        /\ UNCHANGED <<store, selected, cable>>

\* Read the reservation of the next identity; a failed read counts as no reservation.
Lookup(a, ok) ==
    LET p     == proc[a]
        id    == Head(p.left)
        found == IF ok THEN store[id] ELSE None
    IN  /\ p.point = "lookup"
        /\ proc' = [proc EXCEPT ![a] =
                      IF found \in Nat THEN Settled(p, found, "reserved", id)
                      ELSE IF Tail(p.left) = <<>> THEN [p EXCEPT !.point = "allocate", !.left = <<>>]
                      ELSE [p EXCEPT !.left = Tail(p.left)]]
        /\ UNCHANGED <<store, selected, cable>>

\* What localsettings may give an identity it does not know.
Taken    == {store[id] : id \in Ids}
Grant(n) == n >= Preferred /\ n \notin Taken /\ Preferred..(n - 1) \subseteq Taken

\* Ask localsettings for a number under the first identity.  When the answer is lost
\* (~ok) the reservation may have been made or not.
Allocate(a, ok, n) ==
    LET p  == proc[a]
        id == Head(p.ids)
    IN  /\ p.point = "allocate"
        /\ \/ store[id] = None /\ Grant(n) /\ store' = [store EXCEPT ![id] = n]
           \/ (~ok \/ store[id] # None) /\ n = Preferred /\ store' = store
        /\ proc' = [proc EXCEPT ![a] =
                      IF ok /\ store'[id] \in Nat THEN Settled(p, store'[id], "allocated", id)
                      ELSE Settled(p, Preferred, "fallback", StockId)]
        /\ UNCHANGED <<selected, cable>>

\* The process ends, at any point.
Stop(a) ==
    /\ proc[a].point # "down"
    /\ proc' = [proc EXCEPT ![a] = Down]
    /\ UNCHANGED <<store, selected, cable>>
====
