-------------------------------- MODULE IdLayout --------------------------------
(***************************************************************************)
(* ShiftedIdLayout of id_layout.py: a bank may send the ids of its frames  *)
(* from 0x400 up with bit 10 cleared, on top of other frames.  The class   *)
(* learns that from the frames and gives them their documented ids back.   *)
(*                                                                         *)
(* The bank is part of the model: which packs shift, and how much energy   *)
(* each has counted.  A frame is the id that is documented for it, the     *)
(* pack's energy counters, when it was sent and with which stamp it was    *)
(* taken out of the socket; of a payload only its form matters.            *)
(***************************************************************************)
EXTENDS Integers

CONSTANTS
    Packs,            \* the packs of the bank
    Sends,            \* the frames they send: base id and pack
    Rate,             \* ENERGY_RATE_WH_PER_S, and the most a pack can do
    Allowance,        \* ENERGY_ALLOWANCE_WH
    Delay,            \* longest wait of a frame in the socket
    SummaryRange,     \* counters that are also a plausible pack summary
    LastTime          \* bound on the time of frames

ASSUME EnergyAssumption ==
    /\ {Rate, Allowance, Delay, LastTime} \subseteq Nat /\ SummaryRange \subseteq Nat
    /\ Rate * Delay <= Allowance

EVIDENCE_REQUIRED == 2
SHIFT == \h400
LOW_BASES == {\h110, \h150, \h200, \h250}
HIGH_BASES == {\h400, \h500, \h550, \h600, \h650, \h700, \h750}
INVERTER_IDS == {\h305, \h306, \h307}
BANK_IDS == {\h351, \h355, \h356, \h358, \h359, \h35A, \h35C, \h35E, \h35F}
SHIFTED_750_IDS == {\h350, \h352, \h353, \h354}

ASSUME PacksAssumption ==
    Packs \subseteq 1..32 /\ Sends \subseteq (LOW_BASES \cup HIGH_BASES) \X Packs

Unseen == -1
NoFrame == [doc |-> 0, can_id |-> 0, read |-> 0]

VARIABLES
    shifting,    \* the packs whose firmware clears bit 10
    energy,      \* the counters in the last frame of each pack, and when it was sent
    sent, stamp, \* when the last frame was sent, and its timestamp
    active, documented, evidence, _energy,    \* ShiftedIdLayout
    last         \* the last frame: its documented id, that on the wire, and the one it got

layout == <<active, documented, evidence, _energy>>
ivars == <<shifting, energy, sent, stamp, layout, last>>

LayoutInit ==
    /\ shifting \in SUBSET Packs
    /\ energy \in [Packs -> [wh : {0}, at : {0}]]
    /\ sent = 0 /\ stamp = 0
    /\ active = FALSE /\ documented = FALSE /\ evidence = 0
    /\ _energy = [p \in Packs |-> [wh |-> Unseen, at |-> 0]]
    /\ last = NoFrame

-----------------------------------------------------------------------------
(* What is sent. *)

IsHigh(doc, p) == \E base \in HIGH_BASES : doc = base + p - 1

OnWire(doc) == IF \E p \in shifting : IsHigh(doc, p) THEN doc - SHIFT ELSE doc

_family(id, base, count) == base <= id /\ id < base + count

\* Cell and temperature readings are never printable; serials and versions are.
_version_frame(doc) == _family(doc, \h500, 32)
_text_frame(doc) == _family(doc, \h600, 32) \/ _family(doc, \h650, 32)

-----------------------------------------------------------------------------
(* normalise(). *)

\* _observe: the form of the payload tells a shifted frame from the pack's own.
Proves(doc, id) ==
    \/ _family(id, \h100, 16) /\ _version_frame(doc)
    \/ (_family(id, \h200, 32) \/ _family(id, \h250, 32)) /\ _text_frame(doc)

\* Mutant: the time since the last counters is not allowed for.
ContinuesByAllowance(p, wh, at) ==
    _energy[p].wh # Unseen /\ wh - _energy[p].wh \in 0..Allowance

\* The counters grew no more than a pack can charge or discharge in the time.
Continues(p, wh, at) ==
    /\ _energy[p].wh # Unseen
    /\ LET elapsed == IF at > _energy[p].at THEN at - _energy[p].at ELSE 0
       IN  wh - _energy[p].wh \in 0..(Allowance + Rate * elapsed)

\* _energy_frame, of a frame on 0x150 up: a pack's own summary never continues its counters.
_energy_frame(doc, p, wh, at) ==
    /\ _family(doc, \h550, 32)
    /\ wh \in SummaryRange => Continues(p, wh, at)

\* Mutant: the ids of the inverter are taken for shifted counters.
RemapsEvery300(id) == _family(id, \h300, 32)

Remaps300(id) == _family(id, \h300, 32) /\ id \notin INVERTER_IDS

\* _target: whether an id on the wire stands for the one with bit 10 set.
IsTarget(doc, id, p, wh, at) ==
    \/ _family(id, 0, 32)
    \/ _family(id, \h100, 16) /\ _version_frame(doc)
    \/ _family(id, \h150, 32) /\ _energy_frame(doc, p, wh, at)
    \/ (_family(id, \h200, 32) \/ _family(id, \h250, 32)) /\ _text_frame(doc)
    \/ Remaps300(id)
    \/ id \in SHIFTED_750_IDS

Veto(id) == \E base \in HIGH_BASES : _family(id, base, 32)

normalise(doc, p, wh, at) ==
    LET id == OnWire(doc)
        seen == evidence + (IF Proves(doc, id) THEN 1 ELSE 0)
    IN  /\ documented' = (documented \/ Veto(id))
        /\ evidence' = IF documented' \/ active THEN evidence ELSE seen
        /\ active' = (~documented' /\ (active \/ seen >= EVIDENCE_REQUIRED))
        /\ last' = [doc |-> doc, can_id |-> id,
                    read |-> IF active' /\ IsTarget(doc, id, p, wh, at) THEN id + SHIFT ELSE id]
        /\ _energy' = IF active' /\ _family(id, \h150, 32) /\ _energy_frame(doc, p, wh, at)
                      THEN [_energy EXCEPT ![p] = [wh |-> wh, at |-> at]] ELSE _energy

\* A frame of pack p, sent no earlier than the one before it and taken out with a stamp
\* that is at most Delay later.  The counters of a pack grow at most at Rate.
Frame(doc, p, from, at, wh) ==
    /\ from >= sent /\ at >= stamp /\ at - from \in 0..Delay
    /\ sent' = from /\ stamp' = at
    /\ normalise(doc, p, wh, at)
    /\ UNCHANGED shifting

Counters(p, from, at) ==
    \E grown \in 0..(Rate * (from - energy[p].at)) :
        /\ Frame(\h550 + p - 1, p, from, at, energy[p].wh + grown)
        /\ energy' = [energy EXCEPT ![p] = [wh |-> @.wh + grown, at |-> from]]

PackFrame(base, p, from, at) ==
    IF base = \h550 THEN Counters(p, from, at)
    ELSE Frame(base + p - 1, p, from, at, 0) /\ UNCHANGED energy

\* What the master sends for the bank, and the inverter's own frames.
SystemFrame(from, at) ==
    /\ \E doc \in BANK_IDS \cup INVERTER_IDS : Frame(doc, 1, from, at, 0)
    /\ UNCHANGED energy

LayoutNext ==
    \E from, at \in 0..LastTime :
        \/ \E frame \in Sends : PackFrame(frame[1], frame[2], from, at)
        \/ SystemFrame(from, at)

LayoutSpec == LayoutInit /\ [][LayoutNext]_ivars

-----------------------------------------------------------------------------

LayoutTypeOK ==
    /\ shifting \subseteq Packs
    /\ energy \in [Packs -> [wh : Nat, at : 0..LastTime]]
    /\ _energy \in [Packs -> [wh : Nat \cup {Unseen}, at : 0..LastTime]]
    /\ {sent, stamp} \subseteq 0..LastTime /\ sent <= stamp
    /\ active \in BOOLEAN /\ documented \in BOOLEAN /\ evidence \in 0..EVIDENCE_REQUIRED
    /\ active => shifting # {} /\ evidence = EVIDENCE_REQUIRED
    /\ documented => shifting # Packs
    /\ \A p \in Packs : _energy[p].wh # Unseen => _energy[p].wh <= energy[p].wh

\* The ids that are left to the frames they are documented for: the cell extremes of a
\* pack, the inverter's, the bank's and those after them ("which no driver can undo",
\* docs/protocol-notes.md:182).
Aliases == (\h110..\h11F) \cup INVERTER_IDS \cup ((\h350..\h36F) \ SHIFTED_750_IDS)

\* Whatever mixture of frames arrives: what was sent under its documented id is read under
\* it; once the shift is proven every other frame is too, unless it arrives on an id that is
\* left to another frame, or is a counter that looks like a summary; and "a bank that
\* sends the documented ids is never remapped" (README.md:284-285), nor any other from the
\* first documented id on.
ReadAsDocumented ==
    /\ last.can_id = last.doc => last.read = last.doc
    /\ active /\ last.can_id \notin Aliases /\ ~_family(last.doc, \h550, 32) => last.read = last.doc
    /\ documented => last.read = last.can_id

\* The counters of a pack, once recognised, are never again read as its voltage, current
\* and charge, although they pass through that range, frames are lost, and the socket
\* delays them ("they still continue the pack's previous counters", id_layout.py:137-138).
CountersStayCounters ==
    [][\A p \in Packs :
         last'.doc = \h550 + p - 1 /\ energy' # energy /\ active' /\ _energy[p].wh # Unseen =>
            last'.read = last'.doc]_ivars
-----------------------------------------------------------------------------
(* The invariant behind them. *)

\* What a pack has counted since its remembered counters were stamped, it has counted in the
\* time since then and in the time their frame may have waited.
EnergyInv ==
    \A p \in Packs :
        /\ energy[p].at <= sent
        /\ _energy[p].wh # Unseen =>
             energy[p].wh - _energy[p].wh <= Rate * (energy[p].at - _energy[p].at + Delay)

\* Evidence is counted up to the decision.
EvidenceInv == ~active /\ ~documented => evidence < EVIDENCE_REQUIRED

LayoutInv == LayoutTypeOK /\ EnergyInv /\ EvidenceInv
====
