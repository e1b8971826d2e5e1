----------------------------- MODULE TxStartStop -----------------------------
(***************************************************************************)
(* Starting and stopping the channels of the TX DMA while frames arrive:   *)
(* the software manager and the channel control, connected, with the       *)
(* driver that writes the Control registers and the PCIe side that sends   *)
(* the frames.  One step is one clock of the DMA.                          *)
(***************************************************************************)
EXTENDS TxChanCtrl, TxDriver

CONSTANTS
    MaxWords, \* longest data transaction on the bus, in words (1, or 2 for more)
    MayStall  \* the header FIFO behind the channel control may become full

ASSUME BusAssumption ==
    /\ MaxWords \in {1, 2}
    /\ MayStall \in BOOLEAN

vars == <<swmVars, cctVars, ptrEq, fate>>

TypeOK ==
    /\ SwmTypeOK
    /\ CctTypeOK
    /\ ptrEq \subseteq Chan
    /\ fate \in [Chan -> Fates]

Init ==
    /\ SwmInit
    /\ CctInit
    /\ ptrEq = Chan
    /\ fate = [c \in Chan |-> "none"]

------------------------------------------------------------------------------
(* The PCIe side *)

Taken == rx.vld /\ dstRdy

\* History: the fate of the frame on c with the word of this clock.
FateNext(c) ==
    IF ~(Taken /\ rx.chan = c) THEN fate[c]
    ELSE FateAfter(fate[c], Kept, rx.hdr)

LastWord == IF MaxWords = 1 THEN {TRUE} ELSE BOOLEAN

FirstWords ==
    [vld : {TRUE}, chan : Sending, hdr : {FALSE}, sof : {TRUE}, eof : LastWord]

HeaderWords ==
    [vld : {TRUE}, chan : {c \in Sending : FateNext(c) # "none"},
     hdr : {TRUE}, sof : {TRUE}, eof : {TRUE}]

Pauses == [vld : {FALSE}, chan : {rx.chan}, hdr : {FALSE}, sof : {FALSE}, eof : {FALSE}]

LaterWords == [vld : {TRUE}, chan : {rx.chan}, hdr : {FALSE}, sof : {FALSE}, eof : BOOLEAN]

\* Words that may follow.  A word that is not taken stays; a transaction goes
\* on until its end, with pauses; a header is one word and follows at least
\* one data transaction of its channel.
RxChoices ==
    IF rx.vld /\ ~dstRdy THEN {rx}
    ELSE IF rx.eof THEN {NoWord} \cup FirstWords \cup HeaderWords
    ELSE Pauses \cup LaterWords

RdyChoices == IF MayStall THEN BOOLEAN ELSE {TRUE}

------------------------------------------------------------------------------
Clock ==
    \E ctl \in ControlChoices, Q \in PtrChoices, w \in RxChoices, r \in RdyChoices :
        /\ SwmTick(ctl, StartReqAck(startReqChan), StopReqAck(StopReqChan),
                   stopChan \in ptrEq)
        /\ CctTick(w, r)
        /\ ptrEq' = Q
        /\ fate' = [c \in Chan |-> FateNext(c)]

Next == Clock

Spec == Init /\ [][Next]_vars

\* The clock runs; the driver ends every frame it began with the header of the
\* frame; the hardware works off what the driver has published.
HeaderSent(c) == Clock /\ rx'.vld /\ rx'.hdr /\ rx'.chan = c

CaughtUp(c) == Clock /\ c \in ptrEq'

Fairness ==
    /\ WF_vars(Clock)
    /\ \A c \in Sending : SF_vars(HeaderSent(c)) /\ WF_vars(CaughtUp(c))

FairSpec == Spec /\ Fairness
------------------------------------------------------------------------------
(* Properties *)

\* The discard counter of a channel is bumped by the header of a dropped frame
\* and by no other word: every dropped frame is counted exactly once.
DiscardCounted ==
    Taken => (PktDiscInc <=> rx.hdr /\ fate[rx.chan] = "dropped")

\* A channel is reported stopped only when the hardware has caught up with the
\* software pointers of that channel, although the comparators answer two
\* clocks late and are shared by all channels.
StopDrained == [][StopAcked => stopChan \in ptrEq]_vars

==============================================================================
