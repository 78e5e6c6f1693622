-------------------------------- MODULE Handoff --------------------------------
(***************************************************************************)
(* Moving the inverter keepalive between the stock driver and the          *)
(* transmitter: install/service/handoff-can-owner and rollback-can-owner,  *)
(* run by an operator or by rc.local at boot, beside the transmitter       *)
(* thread, the publisher and the supervisor.  Each command of a script is  *)
(* a step.  A script reads the transmitter's state on D-Bus only, where it *)
(* is as old as the last publication.                                      *)
(***************************************************************************)
EXTENDS Keepalive

VARIABLES
    wanted,     \* what svc asked of the stock service: up or down
    handoff,    \* the handoff script: the command it is at, and its variables
    rollback    \* the rollback script: the command it is at

svars == <<wanted, handoff, rollback>>
vars  == <<kvars, svars>>

HandoffPoints ==
    {"idle", "preconditions", "owner0", "stock1", "marker", "feature", "arm",
     "flag", "down", "proveOwner", "provePairs", "proven",
     "undoArm", "undoStock", "undoMarker"}
RollbackPoints ==
    {"idle", "marker", "arm", "wait", "owner0", "up", "stock1", "failed"}

HandoffState == [point : HandoffPoints, boot : BOOLEAN, created : BOOLEAN]

NoHandoff == [point |-> "idle", boot |-> FALSE, created |-> FALSE]

HandoffAt(point)  == handoff' = [handoff EXCEPT !.point = point]
EndHandoff        == handoff' = NoHandoff
RollbackAt(point) == rollback' = point
Idle(script)      == script \in {"idle", "failed"}

SInit ==
    /\ Init
    /\ wanted = TRUE
    /\ handoff = NoHandoff
    /\ rollback = "idle"

(***************************************************************************)
(* handoff-can-owner.                                                      *)
(***************************************************************************)
StartHandoff(boot) ==
    /\ handoff.point = "idle"
    /\ handoff' = [point |-> "preconditions", boot |-> boot, created |-> FALSE]

\* preconditions_ready and publisher_progressing: all of them are read from the
\* registered service; what the battery and the inverter say is their choice.
Preconditions ==
    /\ handoff.point = "preconditions"
    /\ dbus.registered
    /\ HandoffAt("owner0")
    /\ UNCHANGED <<kvars, wanted, rollback>>

\* The retries of preconditions_ready are used up, or a test before the trap is
\* set fails under set -e.
Refused ==
    /\ \/ handoff.point = "preconditions"
       \/ handoff.point = "owner0" /\ (~dbus.registered \/ dbus.owner)
       \/ handoff.point = "stock1" /\ ~(dbus.registered /\ dbus.stock)
    /\ EndHandoff
    /\ UNCHANGED <<kvars, wanted, rollback>>

ReadOwner0 ==
    /\ handoff.point = "owner0"
    /\ dbus.registered /\ ~dbus.owner
    /\ HandoffAt("stock1")
    /\ UNCHANGED <<kvars, wanted, rollback>>

ReadStock1 ==
    /\ handoff.point = "stock1"
    /\ dbus.registered /\ dbus.stock
    /\ HandoffAt("marker")
    /\ UNCHANGED <<kvars, wanted, rollback>>

CreateMarker ==
    /\ handoff.point = "marker"
    /\ marker' = TRUE
    /\ handoff' = [handoff EXCEPT !.point = "feature", !.created = ~marker]
    /\ UNCHANGED <<arm, stock, driver, tx, shared, watch, dbus, wanted, rollback>>

FeatureReported ==
    /\ handoff.point = "feature"
    /\ dbus.feature
    /\ HandoffAt("arm")
    /\ UNCHANGED <<kvars, wanted, rollback>>

Arm ==
    /\ handoff.point = "arm"
    /\ arm' = TRUE
    /\ HandoffAt("flag")
    /\ UNCHANGED <<marker, stock, driver, tx, shared, watch, dbus, wanted, rollback>>

\* handoff_started=1; from here on the trap brings the stock driver back.
SetStarted ==
    /\ handoff.point = "flag"
    /\ HandoffAt("down")
    /\ UNCHANGED <<kvars, wanted, rollback>>

SvcDown ==
    /\ handoff.point = "down"
    /\ wanted' = FALSE
    /\ HandoffAt("proveOwner")
    /\ UNCHANGED <<kvars, rollback>>

\* One round of the proof reads the owner first and the rest later.  A round that
\* does not prove ownership starts again.
ProveOwner ==
    /\ handoff.point = "proveOwner"
    /\ dbus.owner
    /\ HandoffAt("provePairs")
    /\ UNCHANGED <<kvars, wanted, rollback>>

ProvePairs ==
    /\ handoff.point = "provePairs"
    /\ HandoffAt(IF dbus.pairs /\ ~dbus.errors THEN "proven" ELSE "proveOwner")
    /\ UNCHANGED <<kvars, wanted, rollback>>

\* handoff_started is 0 again, marker_created only by the next command.
HandoffComplete ==
    /\ handoff.point = "proven"
    /\ EndHandoff
    /\ UNCHANGED <<kvars, wanted, rollback>>

\* handoff_started where the flag is set only once the transmitter is the owner.
StartedLate == {"provePairs"}

Started == {"down", "proveOwner", "provePairs"}

\* The trap rollback_on_failure, once set: on a loop that gives up (a command of
\* its own) or on a signal (at any point).
Trapped ==
    {"marker", "feature", "arm", "flag", "down", "proveOwner", "provePairs", "proven"}

Trap ==
    /\ handoff.point \in Trapped
    /\ IF handoff.point \in Started THEN HandoffAt("undoArm")
       ELSE IF handoff.created THEN HandoffAt("undoMarker")
       ELSE EndHandoff
    /\ UNCHANGED <<kvars, wanted, rollback>>

GiveUp == handoff.point \in {"feature", "proveOwner", "provePairs"} /\ Trap

\* A script is killed where it stands: by a signal while no trap is set (before line
\* 121, in the trap itself, which resets it first, and anywhere in rollback-can-owner),
\* or by KILL.
KillHandoff ==
    /\ handoff.point # "idle"
    /\ EndHandoff
    /\ UNCHANGED <<kvars, wanted, rollback>>

KillRollback ==
    /\ ~Idle(rollback)
    /\ RollbackAt("idle")
    /\ UNCHANGED <<kvars, wanted, handoff>>

Signal == Trap \/ KillHandoff \/ KillRollback

UndoArm ==
    /\ handoff.point = "undoArm"
    /\ arm' = FALSE
    /\ HandoffAt("undoStock")
    /\ UNCHANGED <<marker, stock, driver, tx, shared, watch, dbus, wanted, rollback>>

\* A trap that disarms and leaves the stock service down.
UndoStockDropped ==
    /\ handoff.point = "undoStock"
    /\ IF handoff.created THEN HandoffAt("undoMarker") ELSE EndHandoff
    /\ UNCHANGED <<kvars, wanted, rollback>>

UndoStock ==
    /\ handoff.point = "undoStock"
    /\ wanted' = TRUE
    /\ IF handoff.created THEN HandoffAt("undoMarker") ELSE EndHandoff
    /\ UNCHANGED <<kvars, rollback>>

UndoMarker ==
    /\ handoff.point = "undoMarker"
    /\ marker' = FALSE
    /\ EndHandoff
    /\ UNCHANGED <<arm, stock, driver, tx, shared, watch, dbus, wanted, rollback>>

HandoffStep ==
    \/ Preconditions \/ Refused \/ ReadOwner0 \/ ReadStock1 \/ CreateMarker
    \/ FeatureReported \/ Arm \/ SetStarted \/ SvcDown
    \/ ProveOwner \/ ProvePairs \/ HandoffComplete \/ GiveUp
    \/ UndoArm \/ UndoStock \/ UndoMarker

(***************************************************************************)
(* rollback-can-owner.                                                     *)
(***************************************************************************)
StartRollback == Idle(rollback) /\ RollbackAt("marker")

\* A rollback that only disarms.
RemoveMarkerKept ==
    /\ rollback = "marker"
    /\ RollbackAt("arm")
    /\ UNCHANGED <<kvars, wanted, handoff>>

RemoveMarker ==
    /\ rollback = "marker"
    /\ marker' = FALSE
    /\ RollbackAt("arm")
    /\ UNCHANGED <<arm, stock, driver, tx, shared, watch, dbus, wanted, handoff>>

RemoveArm ==
    /\ rollback = "arm"
    /\ arm' = FALSE
    /\ RollbackAt("wait")
    /\ UNCHANGED <<marker, stock, driver, tx, shared, watch, dbus, wanted, handoff>>

\* The wait for Owner=0 ends when it is read; for an unregistered service, with its
\* last attempt.
WaitOwner0 ==
    /\ rollback = "wait"
    /\ ~dbus.owner
    /\ RollbackAt("owner0")
    /\ UNCHANGED <<kvars, wanted, handoff>>

\* Twenty attempts outlast the poll and the update period unless the publisher stalls.
WaitRunsOut ==
    /\ rollback = "wait"
    /\ RollbackAt("owner0")
    /\ UNCHANGED <<kvars, wanted, handoff>>

\* The value is read once more, under set -e: a driver that is not registered, or
\* still the owner, ends the script here.
RequireOwner0 ==
    /\ rollback = "owner0"
    /\ RollbackAt(IF dbus.registered /\ ~dbus.owner THEN "up" ELSE "failed")
    /\ UNCHANGED <<kvars, wanted, handoff>>

SvcUp ==
    /\ rollback = "up"
    /\ wanted' = TRUE
    /\ RollbackAt("stock1")
    /\ UNCHANGED <<kvars, handoff>>

RollbackComplete ==
    /\ rollback = "stock1"
    /\ dbus.stock /\ stock
    /\ RollbackAt("idle")
    /\ UNCHANGED <<kvars, wanted, handoff>>

\* "rollback failed: stock driver did not return", after svc -u.
StockNotSeen ==
    /\ rollback = "stock1"
    /\ RollbackAt("idle")
    /\ UNCHANGED <<kvars, wanted, handoff>>

RollbackStep ==
    \/ RemoveMarker \/ RemoveArm \/ WaitOwner0 \/ RequireOwner0 \/ SvcUp
    \/ RollbackComplete \/ StockNotSeen

(***************************************************************************)
(* The supervisor and the machine.                                         *)
(***************************************************************************)
StockStarts ==
    /\ wanted /\ ~stock
    /\ stock' = TRUE
    /\ UNCHANGED <<marker, arm, driver, tx, shared, watch, dbus, svars>>

StockStops ==
    /\ ~wanted /\ stock
    /\ stock' = FALSE
    /\ UNCHANGED <<marker, arm, driver, tx, shared, watch, dbus, svars>>

StockCrashes ==
    /\ stock
    /\ stock' = FALSE
    /\ UNCHANGED <<marker, arm, driver, tx, shared, watch, dbus, svars>>

\* /run and /service are temporary, /data is not: the consent survives, the arm
\* file does not, and the stock service is wanted again.  rc.local then starts a
\* handoff of its own if the consent is there.
Reboot ==
    /\ arm' = FALSE
    /\ stock' = FALSE
    /\ driver' = "down"
    /\ tx' = TxAt("off")
    /\ shared' = SharedAtStart
    /\ watch' = WatchAtStart
    /\ dbus' = NoService
    /\ wanted' = TRUE
    /\ rollback' = "idle"
    /\ handoff' = IF marker THEN [point |-> "preconditions", boot |-> TRUE, created |-> FALSE]
                  ELSE NoHandoff
    /\ UNCHANGED marker
====
