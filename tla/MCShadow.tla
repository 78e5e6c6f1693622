------------------------------- MODULE MCShadow -------------------------------
(***************************************************************************)
(* An instance of ShadowRuns for TLC.  The charge voltage limits and the   *)
(* voltage observations do not meet in the shadow, so a behaviour varies   *)
(* one of them: which one is chosen at the start.                          *)
(***************************************************************************)
EXTENDS ShadowRuns

VARIABLE varied

\* Voltages of a 16-cell pack, in centivolts: no VE.Bus reading; agreement; a
\* disagreement past the warning; a disagreement held by the level-2 exit only;
\* past the alarm.
Obs16 == {NoObs,
          [pack |-> 5330, vebus |-> 5330],
          [pack |-> 5330, vebus |-> 5460],
          [pack |-> 5330, vebus |-> 5780],
          [pack |-> 5330, vebus |-> 6078]}
\* A 20-cell pack at 3.31 V per cell: agreement, and a disagreement.
Obs20 == {[pack |-> 6620, vebus |-> 6620],
          [pack |-> 6620, vebus |-> 6800]}

Least == CHOOSE target \in CvlTargets : \A other \in CvlTargets : target <= other

MCInit == InitRuns /\ varied \in {"limits", "voltages"}

MCNext ==
    /\ NextRuns
    /\ varied = "limits" => raw_levels'[Voltage] = 0
    /\ varied = "voltages" => cvl_target' \in {Least, None}
    /\ varied' = varied

MCSpec == MCInit /\ [][MCNext]_<<hvars, varied>>
====
