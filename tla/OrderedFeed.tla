------------------------------ MODULE OrderedFeed ------------------------------
(***************************************************************************)
(* What the offline replay promises, without its window, its heap or its   *)
(* generator: the cache is given the frames of the recording one by one,   *)
(* in the order of their times, and each reading is compared with what the *)
(* cache holds when every frame up to the reading's time has been given.   *)
(* Only a recording with a line that comes too late may be given up, and   *)
(* then nothing more happens.                                              *)
(***************************************************************************)
EXTENDS Integers, Sequences

CONSTANTS
    Tolerance,   \* how far a line may be behind the newest one before it
    NotAFrame    \* what stands in the recording for a line without a frame

VARIABLES
    recording,   \* the time of the frame on each line
    readings,    \* the times of the readings
    given,       \* the frames the cache has been given, by their lines
    samples,     \* how many that were at each reading
    given_up

fvars == <<recording, readings, given, samples, given_up>>

Held == {i \in DOMAIN recording : recording[i] # NotAFrame}
Late(i) == \E j \in Held : j < i /\ recording[i] < recording[j] - Tolerance

\* What is still to be given.
Rest == {i \in Held : ~Late(i)} \ {given[n] : n \in DOMAIN given}

\* Of two frames of one time the one that the files hold first.
Sooner(i, j) == recording[i] < recording[j] \/ (recording[i] = recording[j] /\ i < j)

Awaited == Len(samples) < Len(readings)
Reading == readings[Len(samples) + 1]

Init ==
    /\ given = <<>>
    /\ samples = <<>>
    /\ given_up = FALSE

Give ==
    /\ ~given_up
    /\ \E i \in Rest :
         /\ \A j \in Rest \ {i} : Sooner(i, j)
         /\ Awaited => recording[i] <= Reading
         /\ given' = Append(given, i)
    /\ UNCHANGED <<recording, readings, samples, given_up>>

Sample ==
    /\ ~given_up /\ Awaited
    /\ \A i \in Rest : recording[i] > Reading
    /\ samples' = Append(samples, Len(given))
    /\ UNCHANGED <<recording, readings, given, given_up>>

GiveUp ==
    /\ ~given_up
    /\ \E i \in Held : Late(i)
    /\ given_up' = TRUE
    /\ UNCHANGED <<recording, readings, given, samples>>

Next == Give \/ Sample \/ GiveUp

Spec == Init /\ [][Next]_fvars
================================================================================
