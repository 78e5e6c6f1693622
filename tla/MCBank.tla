--------------------------------- MODULE MCBank ---------------------------------
(***************************************************************************)
(* A bank with the allowances of the one in the repository's tests         *)
(* (tests/test_multi_pack.py), and the alarms of a bank, for TLC.  The     *)
(* limits and the alarms read no field in common but the MOS state, which  *)
(* each has of its own: a behaviour is of one of the two.                  *)
(***************************************************************************)
EXTENDS BankRuns, PackAlarms

VARIABLE part

MCAllowance == [p \in Packs |-> IF p = First THEN 18 ELSE 45]

MCInit ==
    /\ BInit /\ AInit
    /\ \/ part = "limits" /\ state = [p \in AlarmPacks |-> Quiet]
       \/ part = "alarms" /\ linked = Packs /\ accepts = Packs

MCNext ==
    /\ UNCHANGED part
    /\ \/ part = "limits" /\ BNext /\ UNCHANGED avars
       \/ part = "alarms" /\ ANext /\ UNCHANGED bvars

MCSpec == MCInit /\ [][MCNext]_<<part, bvars, avars>>

\* The types of the two.
BankRunTypeOK == BankTypeOK /\ AlarmsTypeOK
====
