---------------------------- MODULE TxStartStop2 -----------------------------
(***************************************************************************)
(* TxStartStop with the two-region bus: the software manager and the       *)
(* two-region channel control, the driver and a PCIe side that packs the   *)
(* transactions of several channels into a word.                           *)
(***************************************************************************)
EXTENDS TxChanCtrl2, TxDriver

CONSTANT MayStall  \* the header FIFO behind the channel control may become full

ASSUME StallAssumption == MayStall \in BOOLEAN

VARIABLE tail   \* channel of the transaction the last word left open, or N

vars == <<swmVars, cctVars, ptrEq, fate, tail>>

TypeOK ==
    /\ SwmTypeOK
    /\ CctTypeOK
    /\ ptrEq \subseteq Chan
    /\ fate \in [Chan -> Fates]
    /\ tail \in Chan \cup {N}

Init ==
    /\ SwmInit
    /\ CctInit
    /\ ptrEq = Chan
    /\ fate = [c \in Chan |-> "none"]
    /\ tail = N

------------------------------------------------------------------------------
(* The PCIe side *)

Taken == rx.vld /\ dstRdy

\* History: the fates after region i, if they were f before it.
FateAfterRegion(i, f) ==
    [c \in Chan |-> IF rx.r[i].used /\ rx.r[i].chan = c
                    THEN FateAfter(f[c], RegionKept(i), rx.r[i].hdr)
                    ELSE f[c]]

MidFate == FateAfterRegion(0, fate)

FateNext == IF Taken THEN FateAfterRegion(1, MidFate) ELSE fate

TailAfter(t, r) == IF ~r.used THEN t ELSE IF r.eof THEN N ELSE r.chan

BegunAfter(begun, r) ==
    IF ~r.used THEN begun
    ELSE IF r.hdr THEN begun \ {r.chan}
    ELSE begun \cup {r.chan}

\* What a region may hold, if a transaction of channel t goes on (t = N: none)
\* and the frames of the channels in begun have some data and no header yet.
RegionChoices(t, begun) ==
    IF t \in Chan
    THEN [used : {TRUE}, chan : {t}, hdr : {FALSE}, sof : {FALSE}, eof : BOOLEAN]
    ELSE {Gap}
         \cup [used : {TRUE}, chan : Sending, hdr : {FALSE}, sof : {TRUE}, eof : BOOLEAN]
         \cup [used : {TRUE}, chan : begun, hdr : {TRUE}, sof : {TRUE}, eof : {TRUE}]

WordChoices(t, begun) ==
    UNION { { [vld |-> TRUE, r |-> [i \in Regions |-> IF i = 0 THEN r0 ELSE r1]] :
                r1 \in RegionChoices(TailAfter(t, r0), BegunAfter(begun, r0)) } :
            r0 \in RegionChoices(t, begun) }

TailNext == IF Taken THEN TailAfter(TailAfter(tail, rx.r[0]), rx.r[1]) ELSE tail

RxChoices ==
    IF rx.vld /\ ~dstRdy THEN {rx}
    ELSE {NoWord} \cup WordChoices(TailNext, {c \in Chan : FateNext[c] # "none"})

RdyChoices == IF MayStall THEN BOOLEAN ELSE {TRUE}

------------------------------------------------------------------------------
Clock ==
    \E ctl \in ControlChoices, Q \in PtrChoices, w \in RxChoices, rdy \in RdyChoices :
        /\ SwmTick(ctl, StartReqAck(startReqChan), StopReqAck(StopReqChan),
                   stopChan \in ptrEq)
        /\ CctTick(w, rdy)
        /\ ptrEq' = Q
        /\ fate' = FateNext
        /\ tail' = TailNext

Next == Clock

Spec == Init /\ [][Next]_vars

------------------------------------------------------------------------------
(* Properties *)

\* The fate of the frame in region i before the word of that region.
FateBefore(i) == (IF i = 0 THEN fate ELSE MidFate)[rx.r[i].chan]

\* The counter of discarded packets is bumped by the header of each dropped
\* frame and by nothing else.
DiscardCounted ==
    Taken => \A i \in Regions :
                rx.r[i].used => (DiscInc(i) <=> rx.r[i].hdr /\ FateBefore(i) = "dropped")

\* The same for frames that do not begin and end in one word; and no frame that
\* was kept is ever counted as discarded.
LongDiscardCounted ==
    Taken => \A i \in Regions :
                rx.r[i].hdr =>
                    /\ DiscInc(i) => FateBefore(i) = "dropped"
                    /\ fate[rx.r[i].chan] = "dropped" => DiscInc(i)
==============================================================================
