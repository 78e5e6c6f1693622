------------------------------- MODULE Keepalive -------------------------------
(***************************************************************************)
(* The keepalive transmitter thread of can_keepalive.py, the stock driver  *)
(* it must not overlap with, and the snapshot of the thread's state that   *)
(* the publisher puts on D-Bus.  The thread polls two files and the        *)
(* process table; each read is a step of its own, because the files and    *)
(* the process change between them.  Time is left out: that a deadline has *)
(* passed is a choice of the step that tests it.                           *)
(***************************************************************************)
EXTENDS Naturals

VARIABLES
    marker,   \* /data/.../can-tx-enabled exists: the operator's consent
    arm,      \* /run/.../tx-armed exists
    stock,    \* a process runs the stock driver's executable
    driver,   \* our process: "down", "up", or "stopping" with its service unregistered
    tx,       \* the thread: where it is, and what it read so far
    shared,   \* the fields that snapshot() reads under the lock
    watch,    \* the StockDriverWatch
    dbus      \* /Diagnostics/CanTx/* as published last, NoService if unregistered

kvars == <<marker, arm, stock, driver, tx, shared, watch, dbus>>

NoService == [feature |-> FALSE, stock |-> FALSE, owner |-> FALSE,
              pairs |-> FALSE, errors |-> FALSE, registered |-> FALSE]

\* "poll" and "fresh" read the files, then "armed" and "stock"; "decide" is the
\* test of the send deadline; "send1" and "send2" put the two frames on the bus.
Points == {"off", "poll", "fresh", "armed", "stock", "decide", "send1", "send2"}

TxState     == [point : Points, fresh : BOOLEAN, feature : BOOLEAN, armed : BOOLEAN]
SharedState == [feature : BOOLEAN, stock : BOOLEAN, owner : BOOLEAN,
                pairs : BOOLEAN, errors : BOOLEAN]
WatchState  == [pid : BOOLEAN, running : BOOLEAN, scanned : BOOLEAN]
DbusState   == [feature : BOOLEAN, stock : BOOLEAN, owner : BOOLEAN,
                pairs : BOOLEAN, errors : BOOLEAN, registered : BOOLEAN]

TxAt(point) == [point |-> point, fresh |-> FALSE, feature |-> FALSE, armed |-> FALSE]

SharedAtStart == [feature |-> FALSE, stock |-> TRUE, owner |-> FALSE,
                  pairs |-> FALSE, errors |-> FALSE]

WatchAtStart == [pid |-> FALSE, running |-> TRUE, scanned |-> FALSE]

Init ==
    /\ marker = FALSE
    /\ arm = FALSE
    /\ stock = TRUE
    /\ driver = "down"
    /\ tx = TxAt("off")
    /\ shared = SharedAtStart
    /\ watch = WatchAtStart
    /\ dbus = NoService

(***************************************************************************)
(* StockDriverWatch.__call__.  A remembered pid answers for itself while   *)
(* its process lives; a driver that has been restarted since runs under    *)
(* another pid, and looking for it gives the same answer.  Otherwise the   *)
(* last scan answers until a rescan is due.  A scan that fails says that   *)
(* the driver runs.                                                        *)
(***************************************************************************)
Scan(fails) == [pid     |-> stock /\ ~fails,
                running |-> stock \/ fails,
                scanned |-> TRUE]

\* A watch that lets the rescan interval answer for a send too.
WatchCallLazy(fresh, due, fails) ==
    IF watch.pid /\ stock THEN watch
    ELSE IF watch.pid \/ ~watch.scanned \/ due THEN Scan(fails)
    ELSE watch

WatchCall(fresh, due, fails) ==
    IF watch.pid /\ stock THEN watch
    ELSE IF watch.pid \/ fresh \/ ~watch.scanned \/ due THEN Scan(fails)
    ELSE watch

ownership_allowed(feature, armed, running) == feature /\ armed /\ ~running

(***************************************************************************)
(* The steps of the thread.                                                *)
(***************************************************************************)
\* The head of the loop tests _stop; the fresh look before a send does not.
ReadFeature ==
    /\ \/ tx.point = "poll" /\ driver = "up"
       \/ tx.point = "fresh"
    /\ tx' = [point |-> "armed", fresh |-> tx.point = "fresh",
              feature |-> marker, armed |-> FALSE]
    /\ UNCHANGED <<marker, arm, stock, driver, shared, watch, dbus>>

ReadArmed ==
    /\ tx.point = "armed"
    /\ tx' = [tx EXCEPT !.point = "stock", !.armed = arm]
    /\ UNCHANGED <<marker, arm, stock, driver, shared, watch, dbus>>

ReadStock(due, fails) ==
    /\ tx.point = "stock"
    /\ watch' = WatchCall(tx.fresh, due, fails)
    /\ LET owner == ownership_allowed(tx.feature, tx.armed, watch'.running)
       IN  /\ shared' = [shared EXCEPT !.feature = tx.feature,
                                       !.stock = watch'.running,
                                       !.owner = owner]
           /\ tx' = TxAt(IF ~owner THEN "poll"
                         ELSE IF tx.fresh THEN "send1" ELSE "decide")
    /\ UNCHANGED <<marker, arm, stock, driver, dbus>>

SendDue ==
    /\ tx.point = "decide"
    /\ tx' = TxAt("fresh")
    /\ UNCHANGED <<marker, arm, stock, driver, shared, watch, dbus>>

SendNotDue ==
    /\ tx.point = "decide"
    /\ tx' = TxAt("poll")
    /\ UNCHANGED <<marker, arm, stock, driver, shared, watch, dbus>>

\* _open_socket and the first send of _send_pair.
SendFirst ==
    /\ tx.point = "send1"
    /\ tx' = TxAt("send2")
    /\ UNCHANGED <<marker, arm, stock, driver, shared, watch, dbus>>

SendSecond ==
    /\ tx.point = "send2"
    /\ tx' = TxAt("poll")
    /\ shared' = [shared EXCEPT !.pairs = TRUE]
    /\ UNCHANGED <<marker, arm, stock, driver, watch, dbus>>

\* The socket cannot be opened, or either send raises OSError.
SendFails ==
    /\ tx.point \in {"send1", "send2"}
    /\ tx' = TxAt("poll")
    /\ shared' = [shared EXCEPT !.errors = TRUE]
    /\ UNCHANGED <<marker, arm, stock, driver, watch, dbus>>

\* stop() was called: the loop ends and its finally clause gives ownership up.
LeaveLoop ==
    /\ tx.point = "poll"
    /\ driver = "stopping"
    /\ tx' = TxAt("off")
    /\ shared' = [shared EXCEPT !.owner = FALSE]
    /\ UNCHANGED <<marker, arm, stock, driver, watch, dbus>>

(***************************************************************************)
(* The process around the thread: run() in venus_bms_publisher.py.         *)
(***************************************************************************)
\* The supervisor starts the process; the transmitter starts before the service
\* is registered.
StartDriver ==
    /\ driver = "down"
    /\ driver' = "up"
    /\ tx' = TxAt("poll")
    /\ shared' = SharedAtStart
    /\ watch' = WatchAtStart
    /\ dbus' = NoService
    /\ UNCHANGED <<marker, arm, stock>>

\* The registration and every update() publish a snapshot.
Snapshot == [feature |-> shared.feature, stock |-> shared.stock,
             owner |-> shared.owner, pairs |-> shared.pairs,
             errors |-> shared.errors, registered |-> TRUE]

Publish ==
    /\ driver = "up"
    /\ dbus' = Snapshot
    /\ UNCHANGED <<marker, arm, stock, driver, tx, shared, watch>>

\* A publisher that stops its transmitter but leaves its service registered.
UnregisterKept ==
    /\ driver = "up"
    /\ driver' = "stopping"
    /\ UNCHANGED <<marker, arm, stock, tx, shared, watch, dbus>>

\* An update that raises, SIGTERM, or a qualification that times out: the service
\* goes first, then the transmitter is told to stop.
Unregister ==
    /\ driver = "up"
    /\ driver' = "stopping"
    /\ dbus' = NoService
    /\ UNCHANGED <<marker, arm, stock, tx, shared, watch>>

\* The process ends: after stop() or its timeout, or killed.
ExitDriver ==
    /\ driver' = "down"
    /\ tx' = TxAt("off")
    /\ shared' = SharedAtStart
    /\ watch' = WatchAtStart
    /\ dbus' = NoService
    /\ UNCHANGED <<marker, arm, stock>>

StopDriver  == driver = "stopping" /\ ExitDriver
CrashDriver == driver # "down" /\ ExitDriver

Thread ==
    \/ ReadFeature
    \/ ReadArmed
    \/ \E due \in BOOLEAN : ReadStock(due, FALSE)
    \/ SendDue
    \/ SendNotDue
    \/ SendFirst
    \/ SendSecond
    \/ LeaveLoop

\* A frame goes out, or is tried.
FrameOut ==
    \/ tx.point = "send1" /\ tx'.point \in {"send2", "poll"}
    \/ tx.point = "send2" /\ tx'.point = "poll"
====
