-------------------------------- MODULE MCInputs --------------------------------
(***************************************************************************)
(* Instances of LocatorRuns, IdLayout and Replay for TLC.  The three have  *)
(* nothing in common, so a behaviour is one of one of them: which one is   *)
(* chosen at the start.                                                    *)
(***************************************************************************)
EXTENDS LocatorRuns, IdLayout, Replay

VARIABLE part

\* Of pack 1, frames of each kind that is told apart on an id of the pack's own; of pack 2
\* a frame that ends the shift and one that arrives as the bank's 0x351; of pack 6 one that
\* arrives as the inverter's 0x305; of pack 17 one that arrives as pack 1's 0x110.
SentFrames ==
    ({\h150, \h200, \h500, \h550, \h600} \X {1}) \cup {<<\h400, 2>>, <<\h750, 2>>, <<\h700, 6>>, <<\h500, 17>>}

NoBus == owned = {} /\ explicit = None
NoBank == shifting = {}
NoCapture == capture = <<>> /\ events = <<>>

MCInit ==
    /\ \/ part = "locator" /\ NoBank /\ NoCapture
       \/ part = "layout" /\ NoBus /\ NoCapture
       \/ part = "replay" /\ NoBus /\ NoBank
    /\ LocatorRunsInit /\ LayoutInit /\ ReplayInit

MCNext ==
    /\ UNCHANGED part
    /\ \/ part = "locator" /\ LocatorRunsNext /\ UNCHANGED <<ivars, rvars>>
       \/ part = "layout" /\ LayoutNext /\ UNCHANGED <<lhvars, rvars>>
       \/ part = "replay" /\ ReplayNext /\ UNCHANGED <<lhvars, ivars>>

MCSpec == MCInit /\ [][MCNext]_<<part, lhvars, ivars, rvars>>

\* The types of the three.
InputsTypeOK == LocatorTypeOK /\ LayoutTypeOK /\ ReplayTypeOK
====
