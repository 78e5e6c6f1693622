--------------------------------- MODULE Replay ---------------------------------
(***************************************************************************)
(* The offline replay of simulation.py: a recorded capture whose lines may *)
(* be out of order is put in order within a window, and applied to the     *)
(* cache up to the time of each VE.Bus reading, which then samples it.     *)
(*                                                                         *)
(* A line is its timestamp; a frame in the heap or in the cache is the     *)
(* number of its line.                                                     *)
(***************************************************************************)
EXTENDS Integers, Sequences, FiniteSets

CONSTANTS
    Stamps,      \* timestamps there may be
    Lines,       \* longest capture
    Window,      \* reorder_window_seconds
    Readings     \* most VE.Bus readings

ASSUME StampsAssumption == Stamps \subseteq Nat /\ {Lines, Window, Readings} \subseteq Nat

NotAFrame == -1
Nothing == 0       \* current_frame before the first, and while the next is looked for
End == -1          \* current_frame after the last

VARIABLES
    capture,         \* the lines of the files, one file after the other
    events,          \* the VE.Bus readings, sorted by time
    line,            \* lines read
    maximum_seen, heap,
    current_frame,
    applied,         \* the frames the cache has been given
    samples,         \* how many that were at each sample
    refused          \* the capture was given up with a ValueError

input == <<capture, events>>
generator == <<line, maximum_seen, heap>>
rvars == <<input, generator, current_frame, applied, samples, refused>>

Captures == UNION {[1..n -> Stamps \cup {NotAFrame}] : n \in 0..Lines}
Sorted(s) == \A i, j \in DOMAIN s : i <= j => s[i] <= s[j]

ReplayInit ==
    /\ capture \in Captures
    /\ events \in {s \in UNION {[1..n -> Stamps] : n \in 0..Readings} : Sorted(s)}
    /\ line = 0
    /\ maximum_seen = NotAFrame
    /\ heap = {}
    /\ current_frame = Nothing
    /\ applied = <<>>
    /\ samples = <<>>
    /\ refused = FALSE

-----------------------------------------------------------------------------
(* _iter_can_frames; it goes on only while a frame is asked for. *)

Asked == current_frame = Nothing /\ ~refused
Later(a, b) == IF a > b THEN a ELSE b

\* Mutant: the heap is ordered by time alone.
BeforeByTime(i, j) == capture[i] < capture[j] \/ (capture[i] = capture[j] /\ i > j)

\* The heap's order: time, then the place in the files.
Before(i, j) == capture[i] < capture[j] \/ (capture[i] = capture[j] /\ i < j)

Top == CHOOSE i \in heap : \A j \in heap \ {i} : Before(i, j)
Due == heap # {} /\ capture[Top] <= maximum_seen - Window

TooLate(stamp, newest) == stamp < newest - Window

ReadLine ==
    /\ Asked /\ ~Due
    /\ line < Len(capture)
    /\ line' = line + 1
    /\ IF capture[line'] = NotAFrame
       THEN UNCHANGED <<maximum_seen, heap, refused>>
       ELSE /\ maximum_seen' = Later(maximum_seen, capture[line'])
            /\ refused' = TooLate(capture[line'], maximum_seen')
            /\ heap' = IF refused' THEN heap ELSE heap \cup {line'}
    /\ UNCHANGED <<input, current_frame, applied, samples>>

Yield ==
    /\ Asked
    /\ IF heap = {} THEN line = Len(capture) /\ current_frame' = End /\ heap' = heap
       ELSE /\ Due \/ line = Len(capture)
            /\ current_frame' = Top
            /\ heap' = heap \ {Top}
    /\ UNCHANGED <<input, line, maximum_seen, applied, samples, refused>>

-----------------------------------------------------------------------------
(* simulate_recordings and simulate_stateful_recordings. *)

MoreEvents == Len(samples) < Len(events)

\* Mutant: a frame with the very timestamp of a reading comes after it.
BelongsBeforeStrictly == MoreEvents => capture[current_frame] < events[Len(samples) + 1]

BelongsBefore == MoreEvents => capture[current_frame] <= events[Len(samples) + 1]

Apply ==
    /\ current_frame \notin {Nothing, End}
    /\ BelongsBefore
    /\ applied' = Append(applied, current_frame)
    /\ current_frame' = Nothing
    /\ UNCHANGED <<input, generator, samples, refused>>

Sample ==
    /\ MoreEvents
    /\ current_frame # Nothing
    /\ current_frame # End => ~BelongsBefore
    /\ samples' = Append(samples, Len(applied))
    /\ UNCHANGED <<input, generator, current_frame, applied, refused>>

ReplayNext == ReadLine \/ Yield \/ Apply \/ Sample

ReplaySpec == ReplayInit /\ [][ReplayNext]_rvars

-----------------------------------------------------------------------------

Frames == {i \in DOMAIN capture : capture[i] # NotAFrame}

ReplayTypeOK ==
    /\ applied \in Seq(Nat) /\ samples \in Seq(Nat)
    /\ maximum_seen \in Stamps \cup {NotAFrame}
    /\ line \in 0..Len(capture)
    /\ heap \subseteq Frames
    /\ current_frame \in Frames \cup {Nothing, End}
    /\ \A n \in DOMAIN applied : applied[n] \in Frames \ heap
    /\ Len(samples) <= Len(events) /\ \A n \in DOMAIN samples : samples[n] <= Len(applied)
    /\ refused \in BOOLEAN

\* A line that comes more than the window after a later one.
Late(i) == \E j \in Frames : j < i /\ capture[i] < capture[j] - Window

\* The replay is the ordered feed: the cache is given every frame once, in the order of the
\* times, those of one time in the order of the files, although a recorder "can interleave
\* chunks" (simulation.py:225-228); a reading samples when the frames up to its time have
\* been given, and only a capture with a late line is refused.
Feed == INSTANCE OrderedFeed WITH
    Tolerance <- Window, recording <- capture, readings <- events, given <- applied, given_up <- refused

ImplementsOrderedFeed == Feed!Spec

\* A VE.Bus reading is compared with the frames of its time and before, those that the
\* files hold further down included, and with no later one.
SampleSeesItsPast ==
    \A n \in DOMAIN samples :
        {applied[m] : m \in 1..samples[n]} = {i \in Frames : capture[i] <= events[n] /\ ~Late(i)}
-----------------------------------------------------------------------------
(* The invariant behind them. *)

Yielded == {applied[m] : m \in DOMAIN applied} \cup ({current_frame} \ {Nothing, End})

\* What has been read: the newest timestamp is that of a line, and every line that is not
\* late is in the heap or has been yielded.
ReadInv ==
    /\ heap \cup Yielded \subseteq 1..line
    /\ \A i \in 1..line : capture[i] <= maximum_seen
    /\ maximum_seen # NotAFrame => \E j \in Frames \cap (1..line) : capture[j] = maximum_seen
    /\ \A i \in heap \cup Yielded : ~Late(i)
    /\ \A i \in Frames \cap (1..line) : Late(i) \/ i \in heap \cup Yielded
    /\ refused => current_frame = Nothing

\* What has been yielded comes before what is in the heap, and before what is still to be
\* read unless that is late.
YieldedInv ==
    /\ \A i \in Yielded :
         /\ \A j \in heap : Before(i, j)
         /\ line = Len(capture) \/ capture[i] <= maximum_seen - Window
    /\ current_frame = End => heap = {} /\ line = Len(capture)
    /\ current_frame \notin {Nothing, End} =>
         \A m \in DOMAIN applied : Before(applied[m], current_frame)

\* The frames have been applied in order; a refusal is for a late line.
ReplayInOrder ==
    /\ \A m, n \in DOMAIN applied : m < n => Before(applied[m], applied[n])
    /\ refused => \E i \in Frames : Late(i)

\* What has been applied is no later than the next reading.
AppliedInv ==
    MoreEvents => \A m \in DOMAIN applied : capture[applied[m]] <= events[Len(samples) + 1]

ReplayInv ==
    ReplayTypeOK /\ ReadInv /\ YieldedInv /\ AppliedInv /\ ReplayInOrder /\ SampleSeesItsPast
====
