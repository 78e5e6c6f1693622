------------------------------- MODULE Publisher -------------------------------
(***************************************************************************)
(* The process of venus_bms_publisher.py and venus_stage_publisher.py: one *)
(* thread that takes CAN frames from a socket, asks other services         *)
(* questions over D-Bus that block it, steps the shadow and writes the     *)
(* result to a D-Bus service of its own.                                   *)
(*                                                                         *)
(* Frames wait in the socket while the thread is blocked, and are stamped  *)
(* with the time they are taken out.  The lifecycle is seen through what   *)
(* it promises (QualifiedService), the battery's control frames as one.    *)
(***************************************************************************)
EXTENDS Integers, Sequences

CONSTANTS
    StartupReady, ReconnectReady,  \* of the lifecycle
    Freshness,    \* how long control fields are usable
    Period,       \* UPDATE_INTERVAL_MS, and the time-out of select
    BlockMax,     \* longest time for which the questions of one round, or a single one, block
    ResolveMax,   \* longest time to find the device instance and register
    RcvBuf,       \* frames the socket holds
    WallOffsets,  \* what the wall clock may show beyond the monotonic one
    MaxTime       \* bound on the clock

ASSUME PublisherTimesAssumption ==
    /\ {StartupReady, ReconnectReady, Freshness, BlockMax, ResolveMax, MaxTime} \subseteq Nat
    /\ Period \in Nat \ {0}
ASSUME RcvBufAssumption == RcvBuf \in Nat \ {0}
ASSUME WallAssumption == WallOffsets \subseteq Nat /\ WallOffsets # {}

None == -1
NoControl == -255
AnyBattery == 0

VARIABLES
    mono,       \* time.monotonic()
    wall,       \* time.time() - time.monotonic()
    bms,        \* the setting BmsInstance: NoControl or AnyBattery
    queue,      \* the frames in the socket, each as the time it was sent
    watching,   \* does the main loop still watch the socket?
    mode,       \* "normal", "discovery" (--require-no-bms-control) or "stage"
    pc,
    began,      \* when the present wait, or round of questions, began
    anchor,     \* RuntimeClock: _anchor_wall - _anchor_monotonic
    stamp,      \* timestamp of the newest control frame in the cache
    sent,       \* when that frame was sent
    now,        \* timestamp of the step
    run, connected, ever,  \* the shadow, as in QualifiedService
    answer,     \* what the round found BmsInstance to be, None if the question failed
    bus         \* the D-Bus service as others see it

env == <<mono, wall, bms>>
shadow == <<run, connected, ever>>
cache == <<stamp, sent>>
sock == <<queue, watching>>
vars == <<env, sock, mode, pc, began, anchor, cache, now, shadow, answer, bus>>

Shadow == INSTANCE QualifiedService

Modes == {"normal", "discovery", "stage"}
Rounds == {"drained", "timed", "stepped"}
Unregistered == [registered |-> FALSE, connected |-> FALSE, sent |-> None, at |-> None]

Init ==
    /\ mono = 0
    /\ wall \in WallOffsets
    /\ bms \in {NoControl, AnyBattery}
    /\ mode \in Modes
    /\ pc = "down"
    /\ queue = <<>>
    /\ watching = FALSE
    /\ began = 0
    /\ anchor = 0
    /\ stamp = None /\ sent = None
    /\ now = 0
    /\ run = None /\ connected = FALSE /\ ever = FALSE
    /\ answer = None
    /\ bus = Unregistered

-----------------------------------------------------------------------------
(* The surroundings. *)

\* The update of the stage publisher asks for BmsInstance before it takes the time.
AsksFirst == mode = "stage" /\ bus.registered

\* Frames that wake the thread: select sees those in the socket, the main loop only
\* while its watch lasts.
Wakes == queue # <<>> /\ (bus.registered => watching)

\* How long the process may stay where it is.  Neither select nor the main loop waits
\* while frames wake it or the time-out is due.
Patience ==
    CASE pc = "waiting"   -> IF Wakes THEN 0 ELSE Period
      [] pc = "announcing" -> BlockMax
      [] pc = "drained"   -> IF AsksFirst THEN BlockMax ELSE 0
      [] pc \in {"timed", "stepped"} -> BlockMax
      [] pc = "resolving" -> ResolveMax
      [] pc = "failed"    -> 0
      [] pc = "down"      -> MaxTime

Tick ==
    /\ mono < MaxTime
    /\ mono - began < Patience
    /\ mono' = mono + 1
    /\ UNCHANGED <<wall, bms, sock, mode, pc, began, anchor, cache, now, shadow, answer, bus>>

\* Network time arrives, or someone sets the clock.
SetWall ==
    /\ wall' \in WallOffsets
    /\ UNCHANGED <<mono, bms, sock, mode, pc, began, anchor, cache, now, shadow, answer, bus>>

\* The operator selects a battery monitor, or none.
Select ==
    /\ bms' \in {NoControl, AnyBattery}
    /\ UNCHANGED <<mono, wall, sock, mode, pc, began, anchor, cache, now, shadow, answer, bus>>

\* A frame of the battery; a full socket drops it.
Arrive ==
    /\ pc # "down"
    /\ Len(queue) < RcvBuf
    /\ queue' = Append(queue, mono)
    /\ UNCHANGED <<env, watching, mode, pc, began, anchor, cache, now, shadow, answer, bus>>

-----------------------------------------------------------------------------
(* RuntimeClock and _drain_can. *)

\* Mutant: corrections of the wall clock are adopted in both directions.
AnchorByWall == wall

\* RuntimeClock adopts the wall clock where that moves it forward.
Anchor == IF wall > anchor THEN wall ELSE anchor

\* Every frame that waits is stamped with the time it is taken out.
Drain ==
    /\ queue' = <<>>
    /\ IF queue = <<>>
       THEN UNCHANGED <<anchor, cache>>
       ELSE /\ anchor' = Anchor
            /\ stamp' = mono + anchor'
            /\ sent' = queue[Len(queue)]

-----------------------------------------------------------------------------
(* One round: drain, take the time, ask, step, and publish.  Until the service is *)
(* registered it is _qualify that makes the rounds, then update().                *)

\* A service that is not to be selected starts only while none is selected.
Start ==
    /\ pc = "down"
    /\ mode' \in Modes
    /\ mode' # "normal" => bms = NoControl
    /\ pc' = "waiting"
    /\ began' = mono
    /\ anchor' = wall
    /\ now' = mono + wall
    /\ UNCHANGED <<env, sock, cache, shadow, answer, bus>>

\* The main loop's watch on the socket.
Watch ==
    /\ pc = "waiting" /\ bus.registered
    /\ Wakes
    /\ Drain
    /\ UNCHANGED <<env, watching, mode, pc, began, now, shadow, answer, bus>>

\* recv fails, as it does once when the interface goes down: the callback raises, and the
\* main loop goes on without its watch.  The error comes before the first frame that waits,
\* or after the last.
WatchFails ==
    /\ pc = "waiting" /\ bus.registered
    /\ watching
    /\ Drain \/ UNCHANGED <<queue, anchor, cache>>
    /\ watching' = FALSE
    /\ UNCHANGED <<env, mode, pc, began, now, shadow, answer, bus>>

Due == mono - began >= Period

\* update() runs when it is due; select returns early when there is a frame.
BeginRound ==
    /\ pc = "waiting"
    /\ Due \/ (~bus.registered /\ queue # <<>>)
    /\ Drain
    /\ pc' = "drained"
    /\ began' = mono
    /\ UNCHANGED <<env, watching, mode, now, shadow, answer, bus>>

TakeTime ==
    /\ pc = "drained"
    /\ IF AsksFirst THEN bms = NoControl ELSE mono = began
    /\ anchor' = Anchor
    /\ now' = mono + anchor'
    /\ pc' = "timed"
    /\ UNCHANGED <<env, sock, mode, began, cache, shadow, answer, bus>>

fresh == stamp # None /\ now - stamp <= Freshness

\* The voltage of VE.Bus is known, or its absence, and the shadow is stepped.  Then
\* update() asks for BmsInstance, on which only the discovery acts, and so does _qualify of
\* the stage publisher before its next round.
Step ==
    /\ pc = "timed"
    /\ \E known \in BOOLEAN : Shadow!Sample(known /\ fresh)
    /\ IF bus.registered
       THEN /\ pc' = "stepped"
            /\ answer' \in IF mode = "discovery" THEN {bms, None} ELSE {None}
            /\ began' = began
       ELSE /\ connected' \/ mode # "stage" \/ bms = NoControl
            /\ pc' = IF connected' THEN "resolving" ELSE "waiting"
            /\ answer' = answer
            /\ began' = mono
    /\ UNCHANGED <<env, sock, mode, anchor, cache, bus>>

\* _add_paths and register: the values are those of the step that qualified.  The watch
\* and the timer are set; then the service that can be selected asks for BmsInstance
\* once more, for the log, before it enters the main loop.
Register ==
    /\ pc = "resolving"
    /\ bus' = [registered |-> TRUE, connected |-> connected, sent |-> sent, at |-> mono]
    /\ pc' = IF mode = "stage" THEN "waiting" ELSE "announcing"
    /\ watching' = TRUE
    /\ began' = mono
    /\ UNCHANGED <<env, queue, mode, anchor, cache, now, shadow, answer>>

Announced ==
    /\ pc = "announcing"
    /\ pc' = "waiting"
    /\ UNCHANGED <<env, sock, mode, began, anchor, cache, now, shadow, answer, bus>>

\* Mutant: an answer that did not come is no reason to stop.
AnswerAllowsUnlessSelected == mode = "discovery" => answer # AnyBattery

AnswerAllows == mode = "discovery" => answer = NoControl

Publish ==
    /\ pc = "stepped"
    /\ AnswerAllows
    /\ bus' = [registered |-> TRUE, connected |-> connected, sent |-> sent, at |-> mono]
    /\ pc' = "waiting"
    /\ answer' = None
    /\ UNCHANGED <<env, sock, mode, began, anchor, cache, now, shadow>>

\* Mutant: the next update tries again.
UpdateFailsAndTriesAgain ==
    /\ pc \in Rounds /\ bus.registered
    /\ pc' = "waiting"
    /\ began' = mono
    /\ UNCHANGED <<env, sock, mode, anchor, cache, now, shadow, answer, bus>>

\* An exception anywhere in update() ends the main loop.
UpdateFails ==
    /\ pc \in Rounds /\ bus.registered
    /\ pc' = "failed"
    /\ UNCHANGED <<env, sock, mode, began, anchor, cache, now, shadow, answer, bus>>

\* Mutant: the service stays on D-Bus.
ExitRegistered ==
    /\ pc # "down"
    /\ pc' = "down"
    /\ UNCHANGED <<env, sock, mode, began, anchor, cache, now, shadow, answer, bus>>

\* The process ends: after a failed update, told to, for good by its duration or the
\* deadline of _qualify, or killed.  Its D-Bus service ends with it.
Exit ==
    /\ pc # "down"
    /\ pc' = "down"
    /\ UNCHANGED <<env, mode>>
    /\ queue' = <<>>
    /\ watching' = FALSE
    /\ began' = mono
    /\ anchor' = 0
    /\ stamp' = None /\ sent' = None
    /\ now' = 0
    /\ run' = None /\ connected' = FALSE /\ ever' = FALSE
    /\ answer' = None
    /\ bus' = Unregistered

Next ==
    \/ Tick \/ SetWall \/ Select \/ Arrive
    \/ Start \/ BeginRound \/ TakeTime \/ Step \/ Register \/ Announced \/ Publish
    \/ Watch \/ WatchFails
    \/ UpdateFails \/ Exit

Spec == Init /\ [][Next]_vars
====
