--------------------------- MODULE QualifiedService ---------------------------
(***************************************************************************)
(* What the lifecycle of the shadow service promises, without its five     *)
(* states: the service is connected exactly while its data has been ready, *)
(* sample after sample, for long enough.  A shorter run is enough the      *)
(* first time than after a loss.                                           *)
(***************************************************************************)
EXTENDS Integers

CONSTANTS StartupReady, ReconnectReady

VARIABLES
    now,        \* time of the last sample or tick
    run,        \* time of the first sample of the unbroken run of ready samples
    connected,
    ever        \* the service has been connected before

svars == <<now, run, connected, ever>>

NoRun == -1

Qualification == IF ever THEN ReconnectReady ELSE StartupReady

Init ==
    /\ now \in Nat
    /\ run = NoRun
    /\ connected = FALSE
    /\ ever = FALSE

Tick ==
    /\ now' \in Nat
    /\ now' > now
    /\ UNCHANGED <<run, connected, ever>>

Sample(ready) ==
    /\ run' = IF ~ready THEN NoRun ELSE IF run = NoRun THEN now ELSE run
    /\ connected' = (ready /\ (connected \/ now - run' >= Qualification))
    /\ ever' = (ever \/ connected')
    /\ UNCHANGED now

Next == Tick \/ \E ready \in BOOLEAN : Sample(ready)

Spec == Init /\ [][Next]_svars
====
