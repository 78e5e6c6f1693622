--------------------------- MODULE OwnershipProofs ---------------------------
(***************************************************************************)
(* Proofs about Ownership, for every number of commands and faults.        *)
(***************************************************************************)
EXTENDS Ownership, TLAPS

-----------------------------------------------------------------------------
(* The steps of Next, without the counters and the history. *)

TransmitterStep ==
    /\ \/ ReadFeature \/ ReadArmed \/ (\E due, fails \in BOOLEAN : ReadStock(due, fails))
       \/ SendDue \/ SendNotDue \/ SendFirst \/ SendSecond \/ SendFails \/ LeaveLoop
       \/ StartDriver \/ Publish \/ Unregister \/ ExitDriver
    /\ UNCHANGED <<svars, revoked>>

MachineStep ==
    /\ StockStarts \/ StockStops \/ StockCrashes \/ Reboot
    /\ UNCHANGED revoked

HandoffOrTrap ==
    /\ \/ Preconditions \/ Refused \/ ReadOwner0 \/ ReadStock1 \/ CreateMarker
       \/ FeatureReported \/ Arm \/ SetStarted \/ SvcDown \/ ProveOwner \/ ProvePairs
       \/ HandoffComplete \/ GiveUp \/ UndoArm \/ UndoStock \/ UndoMarker
       \/ (Trap \/ KillHandoff) /\ faults' # faults
    /\ UNCHANGED revoked

RollbackOrStall ==
    \/ /\ \/ RemoveMarker \/ RemoveArm \/ WaitOwner0 \/ RequireOwner0 \/ SvcUp
          \/ RollbackComplete \/ StockNotSeen
       /\ revoked' = (revoked \/ RollbackComplete)
    \/ (WaitRunsOut \/ (KillRollback /\ faults' # faults)) /\ UNCHANGED revoked

Command ==
    /\ Idle(rollback)
    /\ \/ /\ StartHandoff(FALSE)
          /\ revoked' = FALSE
          /\ UNCHANGED rollback
       \/ /\ handoff.point # "idle" => handoff.boot /\ RollbackDuringBoot
          /\ StartRollback
          /\ UNCHANGED <<handoff, revoked>>
    /\ UNCHANGED <<kvars, wanted>>

\* Every step is one of these, and keeps the counters and the history numbers.
LEMMA NextIsStep ==
    ASSUME OwnershipTypeOK, Next
    PROVE  /\ TransmitterStep \/ MachineStep \/ HandoffOrTrap \/ RollbackOrStall \/ Command
           /\ Observe
           /\ commands' \in Nat /\ faults' \in Nat /\ overlap' \in Nat /\ late' \in Nat
           /\ cut' \in BOOLEAN
<1>1. Observe
  BY DEF Next
<1>2. overlap' \in Nat /\ late' \in Nat /\ cut' \in BOOLEAN
  BY <1>1 DEF Observe, OwnershipTypeOK
<1>3. CASE Operator
  <2>1. Command
    BY <1>3, Zenon DEF Operator, Command, kvars
  <2>2. commands' = commands + 1 /\ faults' = faults
    BY <1>3 DEF Operator
  <2> QED
    BY <1>1, <1>2, <2>1, <2>2 DEF OwnershipTypeOK
<1>4. CASE Fault
  <2>0. UNCHANGED <<commands, revoked>> /\ faults' = faults + 1
    BY <1>4, Zenon DEF Fault
  <2>1. UNCHANGED revoked /\ commands' \in Nat /\ faults' \in Nat /\ faults' # faults
    BY <2>0 DEF OwnershipTypeOK
  <2>2. TransmitterStep \/ MachineStep \/ HandoffOrTrap \/ RollbackOrStall
    BY <1>4, <2>1, Zenon DEF Fault, TransmitterStep, MachineStep, HandoffOrTrap,
          RollbackOrStall, Signal,
          CrashDriver
  <2> QED
    BY <1>1, <1>2, <2>1, <2>2
<1>5. CASE Driver
  <2>1. TransmitterStep
    BY <1>5 DEF Driver, TransmitterStep, Thread, StopDriver, svars
  <2> QED
    BY <1>1, <1>2, <1>5, <2>1 DEF Driver, OwnershipTypeOK
<1>6. CASE Scripts
  <2>1. revoked \in BOOLEAN
    BY DEF OwnershipTypeOK
  <2>2. HandoffStep => ~RollbackComplete
    BY DEF HandoffStep, RollbackComplete, RollbackAt, kvars, Preconditions, Refused,
          ReadOwner0,
           ReadStock1, CreateMarker, FeatureReported, Arm, SetStarted, SvcDown, ProveOwner,
           ProvePairs, HandoffComplete, GiveUp, Trap, UndoArm, UndoStock, UndoMarker
  <2>3. HandoffStep => UNCHANGED revoked
    BY <1>6, <2>2, <2>1 DEF Scripts
  <2>4. HandoffOrTrap \/ RollbackOrStall
    BY <1>6, <2>3, Zenon DEF Scripts, HandoffStep, RollbackStep, HandoffOrTrap,
          RollbackOrStall
  <2> QED
    BY <1>1, <1>2, <1>6, <2>4 DEF Scripts, OwnershipTypeOK
<1>7. CASE Supervisor
  BY <1>1, <1>2, <1>7 DEF Supervisor, MachineStep, OwnershipTypeOK
<1> QED
  BY <1>3, <1>4, <1>5, <1>6, <1>7 DEF Next

\* The initial states satisfy the inductive invariant.
LEMMA InitInv == OInit => IInv
<1> SUFFICES ASSUME OInit PROVE IInv
  OBVIOUS
<1> USE DEF OInit, SInit, Init, TxAt, SharedAtStart, WatchAtStart, NoService, NoHandoff
<1>1. OwnershipTypeOK
  BY DEF OwnershipTypeOK, TxState, SharedState, WatchState, DbusState, HandoffState, Points,
         HandoffPoints, RollbackPoints
<1>2. OverlapInv
  BY DEF OverlapInv
<1>3. ScriptsInv /\ OwnedInv /\ RevokedInv
  BY DEF ScriptsInv, OwnedInv, RevokedInv, HasMarker, HasArm, Untouched, NoMarker
<1> QED
  BY <1>1, <1>2, <1>3 DEF IInv

-----------------------------------------------------------------------------
(* Types. *)

\* The transmitter's part of the type invariant, and the scripts'.
TransmitterTypeOK ==
    /\ marker \in BOOLEAN /\ arm \in BOOLEAN /\ stock \in BOOLEAN
    /\ driver \in {"down", "up", "stopping"}
    /\ tx \in TxState
    /\ shared \in SharedState
    /\ watch \in WatchState
    /\ dbus \in DbusState
    /\ driver = "down" => tx.point = "off"
    /\ dbus.registered => driver = "up"
    /\ dbus.pairs => shared.pairs

ScriptsTypeOK ==
    /\ wanted \in BOOLEAN
    /\ handoff \in HandoffState
    /\ rollback \in RollbackPoints

\* Steps of the thread and of its process.
LEMMA TransmitterTypes ==
    ASSUME TransmitterTypeOK, TransmitterStep
    PROVE  TransmitterTypeOK'
<1> USE DEF TransmitterTypeOK, TxAt
<1>1. CASE ReadFeature
  BY <1>1 DEF ReadFeature, TxState, SharedState, WatchState, DbusState, Points
<1>2. CASE ReadArmed
  <2>1. tx' \in TxState
    BY <1>2 DEF ReadArmed, TxState, Points
  <2> QED
    BY <1>2, <2>1 DEF ReadArmed, TxState, SharedState, DbusState, NoService
<1>3. CASE \E due, fails \in BOOLEAN : ReadStock(due, fails)
  <2>1. PICK due \in BOOLEAN, fails \in BOOLEAN : ReadStock(due, fails)
    BY <1>3
  <2>2. watch' \in WatchState
    BY <2>1 DEF ReadStock, WatchCall, Scan, WatchState
  <2> DEFINE owner == ownership_allowed(tx.feature, tx.armed, watch'.running)
  <2>3. owner \in BOOLEAN
    BY <2>2 DEF ownership_allowed, TxState, WatchState
  <2>4. shared' \in SharedState /\ shared'.pairs = shared.pairs
    BY <2>1, <2>2, <2>3 DEF ReadStock, SharedState, TxState, WatchState
  <2>5. tx' \in TxState
    BY <2>1 DEF ReadStock, TxState, Points
  <2> QED
    BY <2>1, <2>2, <2>4, <2>5 DEF ReadStock, TxState
<1>4. CASE SendDue
  BY <1>4 DEF SendDue, TxState, SharedState, WatchState, DbusState, Points
<1>5. CASE SendNotDue
  BY <1>5 DEF SendNotDue, TxState, SharedState, WatchState, DbusState, Points
<1>6. CASE SendFirst
  BY <1>6 DEF SendFirst, TxState, SharedState, WatchState, DbusState, Points
<1>7. CASE SendSecond
  <2>1. tx' \in TxState /\ shared' \in SharedState
    BY <1>7 DEF SendSecond, TxState, SharedState, Points
  <2> QED
    BY <1>7, <2>1 DEF SendSecond, TxState, SharedState, DbusState, NoService
<1>8. CASE SendFails
  <2>1. tx' \in TxState /\ shared' \in SharedState
    BY <1>8 DEF SendFails, TxState, SharedState, Points
  <2> QED
    BY <1>8, <2>1 DEF SendFails, TxState, SharedState, DbusState, NoService
<1>9. CASE LeaveLoop
  <2>1. tx' \in TxState /\ shared' \in SharedState
    BY <1>9 DEF LeaveLoop, TxState, SharedState, Points
  <2> QED
    BY <1>9, <2>1 DEF LeaveLoop, TxState, SharedState, DbusState, NoService
<1>10. CASE StartDriver
  BY <1>10 DEF StartDriver, SharedAtStart, WatchAtStart, NoService, TxState,
        SharedState, WatchState, DbusState, Points
<1>11. CASE Publish
  BY <1>11 DEF Publish, Snapshot, TxState, SharedState, WatchState, DbusState, Points
<1>12. CASE Unregister
  BY <1>12 DEF Unregister, NoService, TxState, SharedState, WatchState, DbusState, Points
<1>13. CASE ExitDriver
  BY <1>13 DEF ExitDriver, SharedAtStart, WatchAtStart, NoService, TxState, SharedState,
        WatchState, DbusState, Points
<1> QED
  BY <1>1, <1>2, <1>3, <1>4, <1>5, <1>6, <1>7, <1>8, <1>9, <1>10, <1>11, <1>12, <1>13
        DEF TransmitterStep

\* Steps of the scripts: a handoff changes the files, a rollback too.
LEMMA ScriptTypes ==
    ASSUME TransmitterTypeOK, ScriptsTypeOK, HandoffOrTrap \/ RollbackOrStall
    PROVE  TransmitterTypeOK' /\ ScriptsTypeOK'
<1>1. TransmitterTypeOK'
  <2>1. /\ marker' \in BOOLEAN /\ arm' \in BOOLEAN
        /\ UNCHANGED <<stock, driver, tx, shared, watch, dbus>>
    BY DEF HandoffOrTrap, RollbackOrStall, TransmitterTypeOK, kvars, Preconditions,
          Refused, ReadOwner0, ReadStock1, CreateMarker, FeatureReported, Arm,
          SetStarted, SvcDown, ProveOwner, ProvePairs, UndoArm, UndoStock, UndoMarker,
          GiveUp, Trap, HandoffComplete, KillHandoff, KillRollback, RemoveMarker, RemoveArm, WaitOwner0, RequireOwner0, SvcUp,
          RollbackComplete, StockNotSeen, WaitRunsOut
  <2> QED
    BY <2>1 DEF TransmitterTypeOK
<1>2. rollback' \in RollbackPoints /\ wanted' \in BOOLEAN
  BY DEF HandoffOrTrap, RollbackOrStall, ScriptsTypeOK, RollbackAt, RollbackPoints,
        Preconditions, Refused, ReadOwner0, ReadStock1, CreateMarker, FeatureReported,
        Arm, SetStarted, SvcDown, ProveOwner, ProvePairs, UndoArm, UndoStock,
        UndoMarker, GiveUp, Trap, HandoffComplete, KillHandoff, KillRollback,
        RemoveMarker, RemoveArm, WaitOwner0, RequireOwner0,
        SvcUp, RollbackComplete, StockNotSeen, WaitRunsOut
<1>3. handoff' \in HandoffState
  <2>1. ASSUME NEW point \in HandoffPoints, HandoffAt(point) PROVE handoff' \in HandoffState
    BY <2>1 DEF HandoffAt, ScriptsTypeOK, HandoffState
  <2>2. ASSUME EndHandoff PROVE handoff' \in HandoffState
    BY <2>2 DEF EndHandoff, NoHandoff, HandoffState, HandoffPoints
  <2>3. CASE CreateMarker
    BY <2>3 DEF CreateMarker, ScriptsTypeOK, TransmitterTypeOK, HandoffState, HandoffPoints
  <2>4. CASE RollbackOrStall
    BY <2>4 DEF RollbackOrStall, ScriptsTypeOK, RemoveMarker, RemoveArm, WaitOwner0,
          RequireOwner0, SvcUp, RollbackComplete, StockNotSeen, WaitRunsOut, KillRollback
  <2>5. CASE Trap \/ GiveUp \/ KillHandoff \/ HandoffComplete \/ ProvePairs \/ UndoStock
    BY <2>1, <2>2, <2>5 DEF Trap, GiveUp, KillHandoff, HandoffComplete, ProvePairs,
          UndoStock, HandoffPoints
  <2>6. CASE \/ Preconditions \/ ReadOwner0 \/ ReadStock1 \/ FeatureReported \/ Arm
             \/ SetStarted \/ SvcDown \/ ProveOwner \/ UndoArm
    BY <2>1, <2>6 DEF Preconditions, ReadOwner0, ReadStock1, FeatureReported, Arm,
          SetStarted,
          SvcDown, ProveOwner, UndoArm, HandoffPoints
  <2> QED
    BY <2>2, <2>3, <2>4, <2>5, <2>6 DEF HandoffOrTrap, Refused, UndoMarker
<1> QED
  BY <1>1, <1>2, <1>3 DEF ScriptsTypeOK

\* Steps of the supervisor and the machine, and commands of the operator.
LEMMA OtherTypes ==
    ASSUME TransmitterTypeOK, ScriptsTypeOK, MachineStep \/ Command
    PROVE  TransmitterTypeOK' /\ ScriptsTypeOK'
<1>1. CASE StockStarts \/ StockStops \/ StockCrashes
  BY <1>1 DEF StockStarts, StockStops, StockCrashes, svars, TransmitterTypeOK, ScriptsTypeOK
<1>2. CASE Reboot
  BY <1>2 DEF Reboot, TransmitterTypeOK, ScriptsTypeOK, TxAt, SharedAtStart, WatchAtStart,
          NoService, NoHandoff, TxState, SharedState, WatchState, DbusState, HandoffState, Points,
          HandoffPoints, RollbackPoints
<1>3. CASE Command
  <2>1. TransmitterTypeOK' /\ wanted' \in BOOLEAN
    BY <1>3 DEF Command, kvars, TransmitterTypeOK, ScriptsTypeOK
  <2>2. rollback' \in RollbackPoints
    BY <1>3 DEF Command, StartRollback, RollbackAt, RollbackPoints, ScriptsTypeOK
  <2>3. handoff' \in HandoffState
    <3>1. StartHandoff(FALSE) => handoff' \in HandoffState
      BY DEF StartHandoff, HandoffState, HandoffPoints
    <3>2. StartHandoff(FALSE) \/ UNCHANGED handoff
      BY <1>3 DEF Command
    <3> QED
      BY <3>1, <3>2 DEF ScriptsTypeOK
  <2> QED
    BY <2>1, <2>2, <2>3 DEF ScriptsTypeOK
<1> QED
  BY <1>1, <1>2, <1>3 DEF MachineStep

\* Every step keeps the type invariant.
LEMMA NextType == OwnershipTypeOK /\ Next => OwnershipTypeOK'
<1> SUFFICES ASSUME OwnershipTypeOK, Next PROVE OwnershipTypeOK'
  OBVIOUS
<1>1. TransmitterTypeOK /\ ScriptsTypeOK
  BY DEF OwnershipTypeOK, TransmitterTypeOK, ScriptsTypeOK
<1>2. TransmitterTypeOK' /\ ScriptsTypeOK'
  <2>1. CASE TransmitterStep
    BY <1>1, <2>1, TransmitterTypes DEF TransmitterStep, svars, ScriptsTypeOK
  <2> QED
    BY <1>1, <2>1, NextIsStep, ScriptTypes, OtherTypes
<1>3. revoked' \in BOOLEAN
  BY NextIsStep DEF TransmitterStep, MachineStep, HandoffOrTrap, RollbackOrStall, Command,
     OwnershipTypeOK
<1> QED
  BY <1>2, <1>3, NextIsStep DEF OwnershipTypeOK, TransmitterTypeOK, ScriptsTypeOK

-----------------------------------------------------------------------------
(* The overlap with the stock driver. *)

\* Only the transmitter, and the stock driver's own coming and going, count.
LEMMA NextOverlap == OwnershipTypeOK /\ OverlapInv /\ Next => OverlapInv'
<1> SUFFICES ASSUME OwnershipTypeOK, OverlapInv, Next PROVE OverlapInv'
  OBVIOUS
<1>1. Observe /\ overlap' \in Nat
  BY NextIsStep
<1> USE <1>1 DEF Observe, FrameOut, OverlapInv, OwnershipTypeOK, TxAt
<1>2. CASE TransmitterStep
  <2> USE <1>2 DEF TransmitterStep
  <2>1. CASE \E due, fails \in BOOLEAN : ReadStock(due, fails)
    <3>1. PICK due \in BOOLEAN, fails \in BOOLEAN : ReadStock(due, fails)
      BY <2>1
    <3>2. watch'.pid => watch'.running
      BY <3>1 DEF ReadStock, WatchCall, Scan, WatchState
    <3>3. tx.fresh /\ stock => watch'.running
      BY <3>1 DEF ReadStock, WatchCall, Scan, WatchState
    <3>4. tx'.point = "send1" => tx.fresh /\ ~watch'.running
      BY <3>1 DEF ReadStock, ownership_allowed, TxState
    <3>5. tx'.point # "send2" /\ overlap' = overlap
      BY <3>1 DEF ReadStock
    <3> QED
      BY <3>1, <3>2, <3>3, <3>4, <3>5 DEF ReadStock
  <2>2. CASE ReadFeature \/ ReadArmed \/ SendDue \/ SendNotDue
    <3>1. tx.point \notin {"send1", "send2"} /\ tx'.point \notin {"send1", "send2"}
      <4>1. CASE ReadFeature
        BY <4>1 DEF ReadFeature
      <4>2. CASE ReadArmed
        BY <4>2 DEF ReadArmed, TxState
      <4> QED
        BY <2>2, <4>1, <4>2 DEF SendDue, SendNotDue
    <3>2. UNCHANGED <<stock, watch>>
      BY <2>2 DEF ReadFeature, ReadArmed, SendDue, SendNotDue
    <3> QED
      BY <3>1, <3>2
  <2>3. CASE SendFirst \/ SendSecond \/ SendFails \/ LeaveLoop
    BY <2>3 DEF SendFirst, SendSecond, SendFails, LeaveLoop
  <2>4. CASE StartDriver \/ Publish \/ Unregister \/ ExitDriver
    BY <2>4 DEF StartDriver, Publish, Unregister, ExitDriver, WatchAtStart
  <2> QED
    BY <2>1, <2>2, <2>3, <2>4
<1>3. CASE MachineStep
  BY <1>3 DEF MachineStep, StockStarts, StockStops, StockCrashes, Reboot, WatchAtStart
<1>4. CASE HandoffOrTrap \/ RollbackOrStall \/ Command
  <2>1. UNCHANGED <<stock, tx, watch>>
    BY <1>4 DEF HandoffOrTrap, RollbackOrStall, Command, kvars, Preconditions, Refused,
          ReadOwner0, ReadStock1, CreateMarker, FeatureReported, Arm, SetStarted,
          SvcDown, ProveOwner, ProvePairs, UndoArm, UndoStock, UndoMarker, GiveUp, Trap, HandoffComplete,
          KillHandoff, KillRollback, RemoveMarker, RemoveArm, WaitOwner0, RequireOwner0, SvcUp, RollbackComplete,
          StockNotSeen, WaitRunsOut
  <2> QED
    BY <2>1
<1> QED
  BY <1>2, <1>3, <1>4, NextIsStep

\* Types are as declared, and what belongs together stays together.
THEOREM OwnershipTypes == Spec => []OwnershipTypeOK
<1>1. OInit => OwnershipTypeOK
  BY InitInv DEF IInv
<1>2. OwnershipTypeOK /\ [Next]_ovars => OwnershipTypeOK'
  <2>1. OwnershipTypeOK /\ UNCHANGED ovars => OwnershipTypeOK'
    BY DEF OwnershipTypeOK, ovars, vars, kvars, svars, hvars
  <2> QED
    BY <2>1, NextType
<1> QED
  BY <1>1, <1>2, PTL DEF Spec

\* At most one pair of our frames goes out beside the stock driver, however the
\* processes, the scripts and the faults interleave.
THEOREM Overlap == Spec => []OverlapAtMostOnePair
<1>1. OInit => OverlapInv
  BY InitInv DEF IInv
<1>2. OwnershipTypeOK /\ OverlapInv /\ [Next]_ovars => OverlapInv'
  <2>1. OverlapInv /\ UNCHANGED ovars => OverlapInv'
    BY DEF OverlapInv, ovars, vars, kvars, hvars
  <2> QED
    BY <2>1, NextOverlap
<1>3. OverlapInv => OverlapAtMostOnePair
  BY DEF OverlapInv, OverlapAtMostOnePair
<1> QED
  BY <1>1, <1>2, <1>3, OwnershipTypes, PTL DEF Spec

-----------------------------------------------------------------------------
(* The scripts, when no rollback runs beside a handoff started at boot. *)

\* The files, the stock service and the consent are where each command of a script
\* takes them to be.
LEMMA NextScripts ==
    ASSUME ~RollbackDuringBoot, OwnershipTypeOK, ScriptsInv, OwnedInv, Next
    PROVE  ScriptsInv' /\ OwnedInv'
<1>0. /\ cut' = (~wanted' /\ (cut \/ (faults' # faults /\ Cut)))
      /\ cut /\ ~wanted' => cut'
  BY NextIsStep DEF Observe
<1> USE <1>0 DEF ScriptsInv, OwnedInv, OwnershipTypeOK, HandoffState, Idle, HasMarker, HasArm,
           Untouched, NoMarker, RollbackAt
<1>1. CASE TransmitterStep
  <2>1. UNCHANGED <<marker, arm, wanted, handoff, rollback>>
    BY <1>1 DEF TransmitterStep, svars, ReadFeature, ReadArmed, ReadStock, SendDue,
          SendNotDue,
          SendFirst, SendSecond, SendFails, LeaveLoop, StartDriver, Publish, Unregister, ExitDriver
  <2> QED
    BY <2>1
<1>2. CASE MachineStep
  BY <1>2 DEF MachineStep, StockStarts, StockStops, StockCrashes, Reboot, svars, NoHandoff
<1>3. CASE HandoffOrTrap
  <2>1. CASE Preconditions
    BY <2>1 DEF Preconditions, HandoffAt, EndHandoff, NoHandoff, kvars
  <2>2. CASE Refused
    BY <2>2 DEF Refused, HandoffAt, EndHandoff, NoHandoff, kvars
  <2>3. CASE ReadOwner0
    BY <2>3 DEF ReadOwner0, HandoffAt, EndHandoff, NoHandoff, kvars
  <2>4. CASE ReadStock1
    BY <2>4 DEF ReadStock1, HandoffAt, EndHandoff, NoHandoff, kvars
  <2>5. CASE CreateMarker
    BY <2>5 DEF CreateMarker, HandoffAt, EndHandoff, NoHandoff, kvars
  <2>6. CASE FeatureReported
    BY <2>6 DEF FeatureReported, HandoffAt, EndHandoff, NoHandoff, kvars
  <2>7. CASE Arm
    BY <2>7 DEF Arm, HandoffAt, EndHandoff, NoHandoff, kvars
  <2>8. CASE SetStarted
    BY <2>8 DEF SetStarted, HandoffAt, EndHandoff, NoHandoff, kvars
  <2>9. CASE SvcDown
    BY <2>9 DEF SvcDown, HandoffAt, EndHandoff, NoHandoff, kvars
  <2>10. CASE ProveOwner
    BY <2>10 DEF ProveOwner, HandoffAt, EndHandoff, NoHandoff, kvars
  <2>11. CASE ProvePairs
    BY <2>11 DEF ProvePairs, HandoffAt, EndHandoff, NoHandoff, kvars
  <2>12. CASE Trap /\ faults' # faults
    <3>1. UNCHANGED <<marker, arm, wanted, rollback>>
      BY <2>12 DEF Trap, kvars
    <3>2. CASE handoff.point = "proven" /\ handoff.created
      <4>1. Cut
        BY <2>12, <3>2 DEF Cut
      <4>2. ~wanted' => cut'
        BY <2>12, <4>1
      <4> QED
        BY <2>12, <3>1, <3>2, <4>2 DEF Trap, Trapped, Started, HandoffAt
    <3>3. CASE ~(handoff.point = "proven" /\ handoff.created)
      BY <2>12, <3>1, <3>3 DEF Trap, Trapped, Started, HandoffAt, EndHandoff, NoHandoff
    <3> QED
      BY <3>2, <3>3
  <2>18. CASE KillHandoff /\ faults' # faults
    <3>1. UNCHANGED <<marker, arm, wanted, rollback>> /\ handoff' = NoHandoff
      BY <2>18 DEF KillHandoff, EndHandoff, kvars
    <3>2. handoff.point = "undoStock" /\ ~wanted' => cut'
      BY <2>18 DEF Cut
    <3>3. wanted' \/ (marker' /\ arm') \/ cut' \/ rollback # "idle"
      BY <2>18, <3>1, <3>2 DEF KillHandoff, HandoffPoints
    <3> QED
      BY <3>1, <3>3 DEF NoHandoff
  <2>16. CASE HandoffComplete
    BY <2>16 DEF HandoffComplete, EndHandoff, NoHandoff, kvars
  <2>17. CASE GiveUp
    BY <2>17 DEF GiveUp, Trap, Trapped, Started, HandoffAt, EndHandoff, NoHandoff, kvars
  <2>13. CASE UndoArm
    BY <2>13 DEF UndoArm, HandoffAt, EndHandoff, NoHandoff, kvars
  <2>14. CASE UndoStock
    BY <2>14 DEF UndoStock, HandoffAt, EndHandoff, NoHandoff, kvars
  <2>15. CASE UndoMarker
    BY <2>15 DEF UndoMarker, HandoffAt, EndHandoff, NoHandoff, kvars
  <2> QED
    BY <1>3, <2>1, <2>2, <2>3, <2>4, <2>5, <2>6, <2>7, <2>8, <2>9, <2>10, <2>11, <2>12,
          <2>13, <2>14, <2>15, <2>16, <2>17, <2>18 DEF HandoffOrTrap
<1>4. CASE RollbackOrStall
  <2>1. CASE KillRollback /\ faults' # faults
    <3>1. UNCHANGED <<marker, arm, wanted, handoff>> /\ rollback' = "idle" /\ ~Idle(rollback)
      BY <2>1 DEF KillRollback, kvars
    <3>2. handoff.point = "idle"
      BY <3>1
    <3>3. ~wanted' => cut' \/ (marker' /\ arm')
      BY <2>1, <3>1 DEF Cut
    <3> QED
      BY <3>1, <3>2, <3>3
  <2>2. CASE ~(KillRollback /\ faults' # faults)
    BY <1>4, <2>2 DEF RollbackOrStall, kvars, RemoveMarker, RemoveArm, WaitOwner0,
          RequireOwner0, SvcUp, RollbackComplete, StockNotSeen, WaitRunsOut
  <2> QED
    BY <2>1, <2>2
<1>5. CASE Command
  BY <1>5 DEF Command, StartHandoff, StartRollback, kvars
<1> QED
  BY <1>1, <1>2, <1>3, <1>4, <1>5, NextIsStep

\* After a completed rollback only a thread that had read the consent before sends.
LEMMA NextRevoked ==
    ASSUME ~RollbackDuringBoot, OwnershipTypeOK, ScriptsInv, RevokedInv, Next
    PROVE  RevokedInv'
<1>1. Observe /\ late' \in Nat
  BY NextIsStep
<1> USE <1>1 DEF Observe, FrameOut, RevokedInv, OwnershipTypeOK, TxAt
<1>2. CASE TransmitterStep
  <2>1. UNCHANGED <<marker, handoff, revoked>>
    BY <1>2 DEF TransmitterStep, svars, ReadFeature, ReadArmed, ReadStock, SendDue,
          SendNotDue,
          SendFirst, SendSecond, SendFails, LeaveLoop, StartDriver, Publish, Unregister, ExitDriver
  <2> USE <1>2, <2>1 DEF TransmitterStep
  <2>2. CASE \E due, fails \in BOOLEAN : ReadStock(due, fails)
    <3>1. tx.point = "stock" /\ tx'.point \in {"poll", "decide", "send1"}
      BY <2>2 DEF ReadStock
    <3>2. tx'.point = "send1" => tx.feature
      BY <2>2 DEF ReadStock, ownership_allowed
    <3> QED
      BY <3>1, <3>2
  <2>3. CASE ReadFeature
    <3>1. tx.point \in {"poll", "fresh"} /\ tx'.point = "armed" /\ tx'.feature = marker
      BY <2>3 DEF ReadFeature
    <3> QED
      BY <3>1
  <2>4. CASE ReadArmed
    <3>1. tx.point = "armed" /\ tx'.point = "stock" /\ tx'.feature = tx.feature
      BY <2>4 DEF ReadArmed, TxState
    <3> QED
      BY <3>1
  <2>5. CASE SendDue \/ SendNotDue \/ SendFirst \/ SendSecond \/ SendFails \/ LeaveLoop
    BY <2>5 DEF SendDue, SendNotDue, SendFirst, SendSecond, SendFails, LeaveLoop
  <2>6. CASE StartDriver \/ Publish \/ Unregister \/ ExitDriver
    BY <2>6 DEF StartDriver, Publish, Unregister, ExitDriver
  <2> QED
    BY <2>2, <2>3, <2>4, <2>5, <2>6
<1>3. CASE MachineStep
  BY <1>3 DEF MachineStep, StockStarts, StockStops, StockCrashes, Reboot, svars, NoHandoff
<1>4. CASE HandoffOrTrap
  <2>1. handoff.point # "idle" /\ UNCHANGED <<tx, revoked>>
    BY <1>4 DEF HandoffOrTrap, kvars, Trapped, Preconditions, Refused, ReadOwner0,
          ReadStock1, CreateMarker, FeatureReported, Arm, SetStarted, SvcDown,
          ProveOwner, ProvePairs, UndoArm, UndoStock, UndoMarker, GiveUp, Trap,
          HandoffComplete, KillHandoff
  <2> QED
    BY <2>1
<1>5. CASE RollbackOrStall
  <2>1. UNCHANGED <<tx, handoff>> /\ (UNCHANGED marker \/ ~marker')
    BY <1>5 DEF RollbackOrStall, kvars, RemoveMarker, RemoveArm, WaitOwner0,
          RequireOwner0, SvcUp, RollbackComplete, StockNotSeen, WaitRunsOut, KillRollback
  <2>2. revoked' => revoked \/ (~marker' /\ handoff'.point = "idle")
    BY <1>5, <2>1 DEF RollbackOrStall, RollbackComplete, ScriptsInv, NoMarker, Idle, kvars
  <2>3. revoked => revoked'
    BY <1>5 DEF RollbackOrStall
  <2>4. ~revoked => late' = 0
    BY <2>1
  <2> QED
    BY <2>1, <2>2, <2>3, <2>4
<1>6. CASE Command
  <2>1. UNCHANGED <<tx, marker>>
    BY <1>6 DEF Command, kvars
  <2>2. revoked' = FALSE \/ UNCHANGED <<handoff, revoked>>
    BY <1>6 DEF Command
  <2> QED
    BY <2>1, <2>2
<1> QED
  BY <1>2, <1>3, <1>4, <1>5, <1>6, NextIsStep

\* The inductive invariant.
THEOREM OwnershipInvariance == Spec => []IInv
<1>1. IInv /\ [Next]_ovars => IInv'
  <2>1. IInv /\ UNCHANGED ovars => IInv'
    BY DEF IInv, OwnershipTypeOK, OverlapInv, ScriptsInv, OwnedInv, RevokedInv, ovars, vars,
           kvars, svars, hvars
  <2> QED
    BY <2>1, NextType, NextOverlap, NextScripts, NextRevoked DEF IInv
<1> QED
  BY <1>1, InitInv, PTL DEF Spec

\* Unless a rollback runs beside a handoff started at boot, a completed rollback
\* lasts until the operator hands over again.
THEOREM RollbackFinal == ASSUME ~RollbackDuringBoot PROVE Spec => []RollbackIsFinal
<1>1. IInv => RollbackIsFinal
  BY DEF IInv, RevokedInv, RollbackIsFinal
<1> QED
  BY <1>1, OwnershipInvariance, PTL

\* Under the same supposition the scripts never leave the inverter without a
\* keepalive, wherever a reboot, or a signal outside the three places of Cut, ends them.
THEOREM StockDown == ASSUME ~RollbackDuringBoot PROVE Spec => []StockDownIsOwned
<1>1. IInv => StockDownIsOwned
  BY DEF IInv, OwnedInv, Untouched, StockDownIsOwned
<1> QED
  BY <1>1, OwnershipInvariance, PTL

====
