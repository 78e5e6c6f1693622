------------------------------- MODULE Ownership -------------------------------
(***************************************************************************)
(* The whole system of Handoff with an operator and faults, the history    *)
(* its properties speak of, and the properties.  The operator runs one     *)
(* command at a time.  The handoff that rc.local starts at boot runs in    *)
(* the background for minutes; whether the operator may run a rollback     *)
(* beside it is a parameter, because nothing in the scripts keeps the two  *)
(* apart.                                                                  *)
(***************************************************************************)
EXTENDS Handoff

CONSTANTS
    MaxCommands,   \* bound on the operator's commands
    MaxFaults,     \* bound on crashes, reboots, signals, stalls and I/O errors
    RollbackDuringBoot   \* may a rollback run beside a handoff started at boot?

VARIABLES
    commands, faults,
    overlap,   \* frames out since the stock driver last started or stopped, it running
    revoked,   \* has a rollback completed since the last handoff of the operator?
    late,      \* frames out since that rollback completed
    cut        \* has a signal cut a script short and left the stock service down?

hvars == <<commands, faults, overlap, revoked, late, cut>>

OInit ==
    /\ SInit
    /\ commands = 0
    /\ faults = 0
    /\ overlap = 0
    /\ revoked = FALSE
    /\ late = 0
    /\ cut = FALSE

\* The places where a signal leaves nothing behind that sends keepalives: in the trap
\* between rm of the arm file and svc -u (handoff-can-owner:113-114); between the two
\* assignments after the proof, when the trap removes the marker (159-160); and in a
\* rollback that has removed a file and not yet run svc -u (rollback-can-owner:30-41).
Cut ==
    \/ handoff.point = "undoStock" /\ KillHandoff
    \/ handoff.point = "proven" /\ handoff.created /\ Trap
    \/ KillRollback /\ ~(marker /\ arm)

Observe ==
    /\ overlap' = IF stock' # stock THEN 0 ELSE IF stock /\ FrameOut THEN overlap + 1 ELSE overlap
    /\ late' = IF ~revoked' THEN 0 ELSE IF revoked /\ FrameOut THEN late + 1 ELSE late
    /\ cut' = (~wanted' /\ (cut \/ (faults' # faults /\ Cut)))

Operator ==
    /\ commands < MaxCommands
    /\ commands' = commands + 1
    /\ Idle(rollback)
    /\ \/ /\ StartHandoff(FALSE)
          /\ revoked' = FALSE
          /\ UNCHANGED rollback
       \/ /\ handoff.point # "idle" => handoff.boot /\ RollbackDuringBoot
          /\ StartRollback
          /\ UNCHANGED <<handoff, revoked>>
    /\ UNCHANGED <<kvars, wanted, faults>>

Fault ==
    /\ faults < MaxFaults
    /\ faults' = faults + 1
    /\ \/ Signal
       \/ WaitRunsOut
       \/ StockCrashes
       \/ Reboot
       \/ /\ \/ SendFails
             \/ Unregister
             \/ CrashDriver
             \/ \E due \in BOOLEAN : ReadStock(due, TRUE)
          /\ UNCHANGED svars
    /\ UNCHANGED <<commands, revoked>>

Driver ==
    /\ Thread \/ StartDriver \/ Publish \/ StopDriver
    /\ UNCHANGED <<svars, commands, faults, revoked>>

Scripts ==
    /\ HandoffStep \/ RollbackStep
    /\ revoked' = (revoked \/ RollbackComplete)
    /\ UNCHANGED <<commands, faults>>

Supervisor ==
    /\ StockStarts \/ StockStops
    /\ UNCHANGED <<commands, faults, revoked>>

Next == (Operator \/ Fault \/ Driver \/ Scripts \/ Supervisor) /\ Observe

ovars == <<vars, hvars>>

Spec == OInit /\ [][Next]_ovars

(***************************************************************************)
(* Fairness.  The thread, the publisher's timer, the supervisor and the    *)
(* scripts keep running.  A deadline that is tested again and again is     *)
(* passed at some time, and a loop that counts its attempts gives up:      *)
(* strong fairness.  Nothing is asked of the operator or of the faults.    *)
(***************************************************************************)
Rest == UNCHANGED <<svars, commands, faults, revoked>> /\ Observe

Fairness ==
    /\ WF_ovars(Thread /\ Rest)
    /\ SF_ovars(SendDue /\ Rest)
    /\ SF_ovars(ReadStock(TRUE, FALSE) /\ Rest)
    /\ WF_ovars(StartDriver /\ Rest)
    /\ WF_ovars(Publish /\ Rest)
    /\ WF_ovars(StopDriver /\ Rest)
    /\ WF_ovars(Supervisor /\ Observe)
    /\ WF_ovars(Scripts /\ HandoffStep /\ Observe)
    /\ SF_ovars(Scripts /\ GiveUp /\ Observe)
    /\ WF_ovars(Scripts /\ RollbackStep /\ Observe)

FairSpec == Spec /\ Fairness

(***************************************************************************)
(* Properties.                                                             *)
(***************************************************************************)
\* Types, and what belongs together: a thread runs in a live process only, and the
\* service is registered only while the process still updates it, so that no
\* script reads values that nobody refreshes.
OwnershipTypeOK ==
    /\ marker \in BOOLEAN /\ arm \in BOOLEAN /\ stock \in BOOLEAN
    /\ wanted \in BOOLEAN /\ revoked \in BOOLEAN /\ cut \in BOOLEAN
    /\ driver \in {"down", "up", "stopping"}
    /\ tx \in TxState
    /\ shared \in SharedState
    /\ watch \in WatchState
    /\ dbus \in DbusState
    /\ handoff \in HandoffState
    /\ rollback \in RollbackPoints
    /\ commands \in Nat /\ faults \in Nat /\ overlap \in Nat /\ late \in Nat
    /\ driver = "down" => tx.point = "off"
    /\ dbus.registered => driver = "up"
    /\ dbus.pairs => shared.pairs

\* However the stock driver starts and whenever, at most one pair of keepalive
\* frames of ours goes out beside it: the fresh look at the process table before
\* each pair (can_keepalive.py:216-218) bounds the overlap to the pair in flight.
OverlapAtMostOnePair == overlap <= 2

\* A completed rollback lasts, through crashes and reboots, until the operator hands
\* over again: no frame but the pair in flight goes out any more.
RollbackIsFinal == late <= 2

\* The scripts never leave the inverter without a keepalive: while the stock service
\* is down on purpose, the transmitter has its consent and is armed, or a script that
\* can still bring the service up is running, or a rollback said that it failed, or a
\* signal hit one of the three places of Cut.  Everywhere else a signal, a crash or a
\* reboot is safe.
StockDownIsOwned ==
    \/ wanted
    \/ marker /\ arm
    \/ handoff.point # "idle"
    \/ rollback # "idle"
    \/ cut

\* A rollback brings the stock driver back also when our driver is not running: a
\* rollback that ends at its check of Owner leaves the stock service wanted up.
RollbackReturnsStock ==
    [][rollback = "owner0" /\ rollback' = "failed" /\ ~dbus.registered => wanted]_ovars

\* The inverter is never without a keepalive for good: again and again the stock
\* driver runs or a pair of ours goes out, whatever crashes, reboots and
\* signals come between the steps of the scripts, as long as no rollback fails and no
\* signal hits a place of Cut.
BusNotAbandoned == []<>(stock \/ tx.point = "send2" \/ rollback = "failed" \/ cut)

(***************************************************************************)
(* The inductive invariant behind the safety properties.                   *)
(***************************************************************************)
\* No pair is begun while the stock driver runs, so what has gone out beside it is
\* the part of one pair that the thread has passed.
OverlapInv ==
    /\ watch.pid => watch.running
    /\ ~stock => overlap = 0
    /\ tx.point = "send1" => overlap = 0
    /\ tx.point = "send2" => overlap <= 1
    /\ overlap <= 2

\* The commands of a handoff after which the marker, and the arm file, must be there;
\* those before which the stock service has not been touched; and those of a
\* rollback after which the marker is gone.
HasMarker  == {"feature", "arm", "flag", "down", "proveOwner", "provePairs",
               "proven", "undoArm"}
HasArm     == {"flag", "down", "proveOwner", "provePairs", "proven", "undoArm"}
Untouched  == {"idle", "preconditions", "owner0", "stock1", "marker", "feature", "arm", "flag"}
NoMarker   == {"arm", "wait", "owner0", "up", "stock1"}

ScriptsInv ==
    /\ handoff.point # "idle" => Idle(rollback)
    /\ handoff.point \in HasMarker => marker
    /\ handoff.point \in HasArm => arm
    /\ handoff.point = "idle" => ~handoff.created
    /\ rollback \in NoMarker => ~marker
    /\ rollback = "stock1" => wanted

\* A script leaves the stock service down only to an armed transmitter; a handoff
\* that made the marker found the service up, and may take the marker away.
OwnedInv ==
    rollback = "idle" =>
        /\ handoff.point \in Untouched => wanted \/ (marker /\ arm) \/ cut
        /\ handoff.created /\ handoff.point \in Untouched => wanted \/ cut
        /\ handoff.point = "undoMarker" => wanted \/ cut

\* After a completed rollback the consent is gone, and only a thread that read it
\* before can still send.
RevokedInv ==
    /\ ~revoked => late = 0
    /\ revoked => ~marker /\ handoff.point = "idle"
    /\ tx.point \in {"armed", "stock"} /\ tx.feature => late = 0
    /\ tx.point = "send1" => late = 0
    /\ tx.point = "send2" => late <= 1
    /\ late <= 2

IInv ==
    /\ OwnershipTypeOK
    /\ OverlapInv
    /\ ~RollbackDuringBoot => ScriptsInv /\ OwnedInv /\ RevokedInv
====
