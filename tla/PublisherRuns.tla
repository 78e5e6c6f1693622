----------------------------- MODULE PublisherRuns -----------------------------
(***************************************************************************)
(* Publisher with one history variable, and what others may rely on when   *)
(* they read its D-Bus service.                                            *)
(***************************************************************************)
EXTENDS Publisher

VARIABLE chosen    \* since when a service that is not to be selected has been registered while
                   \* a battery is

pvars == <<vars, chosen>>

PInit == Init /\ chosen = None

PNext ==
    /\ Next
    /\ chosen' = IF mode' = "normal" \/ bms' = NoControl \/ ~bus'.registered THEN None
                 ELSE IF chosen = None THEN mono' ELSE chosen

PSpec == PInit /\ [][PNext]_pvars

-----------------------------------------------------------------------------

Time == 0..MaxTime

BusType ==
    [registered : BOOLEAN, connected : BOOLEAN, sent : Time \cup {None}, at : Time \cup {None}]

\* Types; a service on the bus is that of a living process that was connected once.
PublisherTypeOK ==
    /\ mono \in Time /\ wall \in WallOffsets /\ bms \in {NoControl, AnyBattery}
    /\ queue \in Seq(Time) /\ Len(queue) <= RcvBuf /\ watching \in BOOLEAN
    /\ mode \in Modes
    /\ pc \in Rounds \cup {"down", "waiting", "resolving", "announcing", "failed"}
    /\ began \in Time
    /\ anchor \in Nat /\ now \in Nat /\ stamp \in Nat \cup {None} /\ run \in Nat \cup {None}
    /\ sent \in Time \cup {None}
    /\ connected \in BOOLEAN /\ ever \in BOOLEAN
    /\ answer \in {NoControl, AnyBattery, None}
    /\ bus \in BusType
    /\ chosen \in Time \cup {None}
    /\ bus.registered => pc \in Rounds \cup {"waiting", "announcing", "failed"} /\ ever

Later(a, b) == IF a > b THEN a ELSE b

\* From the beginning of a round, or the registration, to the beginning of the next: the
\* period, unless the questions take longer.
Pause == Later(Period, BlockMax)

\* How old the control fields can be when they are written: fresh by their stamp, before
\* the questions of the round, and after a wait in the socket.  The longest wait begins in
\* the qualifying round, lasts through the registration and the question for the log, and
\* ends with the first update when the watch is lost before it has run.
DataAgeLimit == Freshness + BlockMax + (BlockMax + ResolveMax + Pause)

\* Limits that are written while /Connected is 1 are no older than that, whatever the
\* socket dropped, however long the thread was blocked, whether the watch lasts and
\* whichever way the wall clock was set (venus_bms_publisher.py:529-531, 577-590,
\* venus_runtime.py:51-60).
PublishedDataAge ==
    bus.registered /\ bus.connected => bus.at - bus.sent <= DataAgeLimit

\* "unregistering instead of leaving stale D-Bus data" (venus_bms_publisher.py:566): what
\* others read has been written within a pause and the questions of a round, or the service
\* is gone; the first values too, which stand while the thread asks for BmsInstance before
\* its main loop (venus_bms_publisher.py:585-590).
RenewedOrWithdrawn ==
    bus.registered => mono - bus.at <= Pause + BlockMax

\* A service that is meant not to be selected goes away soon after it is: at the latest
\* with the end of the round after the present one, whichever questions fail
\* (venus_bms_publisher.py:535-539, venus_stage_publisher.py:209-210).
SelectedIsWithdrawn ==
    chosen # None => mono - chosen <= Pause + BlockMax

-----------------------------------------------------------------------------
(* The invariant behind them. *)

\* A round takes no longer than its questions, and the registration no longer than it may.
RoundInv ==
    /\ pc = "down" => ~bus.registered
    /\ pc \in {"stepped", "announcing"} => bus.registered
    /\ bus.registered => bus.at <= mono
    /\ pc = "resolving" => ~bus.registered /\ mono - began <= ResolveMax
    /\ pc \in Rounds \cup {"announcing"} => mono - began <= BlockMax
    /\ bus.registered /\ pc \in {"waiting", "announcing"} =>
         began <= bus.at /\ mono - began <= Pause
    /\ bus.registered /\ pc \in Rounds => began >= bus.at /\ began - bus.at <= Pause
    /\ bus.registered /\ pc = "failed" => mono - bus.at <= Pause + BlockMax

\* The longest wait of a frame that has been taken out, or is being waited on.
Wait == IF bus.registered THEN BlockMax + ResolveMax + Pause ELSE BlockMax

QueueInv ==
    \A i \in 1..Len(queue) :
        /\ queue[i] \in 0..mono
        /\ pc \in Rounds => queue[i] >= began
        /\ pc = "waiting" /\ ~bus.registered => mono - queue[i] <= BlockMax
        /\ pc = "resolving" => began - queue[i] <= BlockMax
        /\ pc \in {"waiting", "announcing"} /\ bus.registered =>
               began - queue[i] <= BlockMax + ResolveMax

\* In the present reckoning of the clock a frame was taken out no later than its wait after
\* it was sent.
CacheInv ==
    /\ pc = "down" => queue = <<>> /\ stamp = None
    /\ stamp = None <=> sent = None
    /\ stamp # None => stamp - anchor <= sent + Wait

StepInv ==
    /\ pc \in {"timed", "stepped"} => began <= now - anchor /\ now - anchor <= mono
    /\ pc = "stepped" /\ connected => fresh
    /\ pc = "resolving" => /\ connected /\ ever /\ sent # None
                           /\ began - sent <= Freshness + 2 * BlockMax

\* A selection that the present round can still overlook was made after it began.
ChosenInv ==
    /\ chosen = None <=> mode = "normal" \/ bms = NoControl \/ ~bus.registered
    /\ chosen # None =>
         /\ chosen <= mono
         /\ pc \in {"waiting", "announcing"} => chosen >= began /\ mono - began <= Pause
         /\ pc \in Rounds => began - chosen <= Pause
         /\ mode = "stage" /\ pc \in {"timed", "stepped"} => chosen >= began
         /\ mode = "discovery" /\ pc = "stepped" /\ answer = NoControl => chosen >= began
         /\ pc = "failed" => mono - chosen <= Pause + BlockMax

PubInv ==
    /\ PublisherTypeOK /\ began <= mono
    /\ RoundInv /\ QueueInv /\ CacheInv /\ StepInv /\ ChosenInv /\ PublishedDataAge
====
