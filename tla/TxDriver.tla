------------------------------ MODULE TxDriver -------------------------------
(***************************************************************************)
(* The driver of the TX DMA, seen from the registers, and what it is       *)
(* promised in return, whatever the width of the PCIe bus.                 *)
(***************************************************************************)
EXTENDS TxSwManager

CONSTANTS
    Opened,   \* channels the driver opens
    Sending,  \* channels it sends frames to, opened or not
    Polite    \* the driver writes Control only when Status agrees with it

ASSUME DriverAssumption ==
    /\ Opened \subseteq Chan
    /\ Sending \subseteq Chan
    /\ Polite \in BOOLEAN

VARIABLES
    ptrEq,    \* channels with HDP = SDP and HHP = SHP
    fate      \* what became so far of the frame that is arriving on each channel

\* Control after this clock.  A polite driver sets the bit of a channel that
\* is stopped and clears the bit of one that runs, as a driver that polls
\* Status after each write does.
ControlChoices ==
    {control} \cup
    { control \cup {c} : c \in {d \in Opened : Polite => d \notin status} } \cup
    { control \ {c} : c \in {d \in Opened : Polite => d \in status} }

\* The hardware moves its pointers towards the software's.  The software moves
\* its own away while it has the channel open, and when it resets the pointers
\* of a stopped channel; it does not touch them while a stop is served.
Used == Opened \cap Sending

MayPublish(c) == c \in control \/ c \notin status

PtrChoices ==
    { (Chan \ Used) \cup Q : Q \in
        {R \in SUBSET Used : \A c \in (ptrEq \cap Used) \ R : MayPublish(c)} }

\* History: the fate of a frame that was f, after a transaction that is kept or
\* dropped; a header ends the frame.
Fates == {"none", "kept", "dropped", "mixed"}

FateAfter(f, kept, hdr) ==
    LET this == IF kept THEN "kept" ELSE "dropped"
    IN  IF f \notin {"none", this} THEN "mixed"
        ELSE IF hdr THEN "none" ELSE this

------------------------------------------------------------------------------
(* What the driver may rely on *)

\* A frame of several PCIe transactions is kept whole or dropped whole,
\* whatever start or stop requests of its channel are served while it arrives.
FrameWhole == \A c \in Chan : fate[c] # "mixed"

\* A start or stop request lasts one clock and nobody repeats it: when it is
\* raised, the channel is in the one state in which it listens.
NoRequestLost ==
    /\ startReqVld => chanState[startReqChan] = "STOPPED"
    /\ StopReqVld => chanState[StopReqChan] = "RUNNING"

\* Status has one write port for both outcomes; a start and a stop are never
\* reported in the same clock, when one of the two would be lost.
StatusPortExclusive == ~(StartAcked /\ StopAcked)

\* ENABLED_CHAN, which the set and reset pulses drive apart from Status, says
\* the same as Status up to the clock the set pulse needs.
EnabledMatchesStatus == enabled \cup enabledSet = status

\* The phases of a channel as the driver sees them.
phase ==
    [c \in Chan |->
        IF c \in status
        THEN IF stopFsm # "IDLE" /\ stopChan = c THEN "stopping" ELSE "running"
        ELSE IF startVld /\ startChan = c THEN "starting" ELSE "stopped"]

Receiving == {c \in Chan : pktAcc[c] = "PENDING"}

Lifecycle == INSTANCE ChannelLifecycle WITH inFrame <- Receiving

\* Probing one channel per clock, with its handshakes and pipelines,
\* implements the life cycle.
ImplementsLifecycle == Lifecycle!Spec

\* Every request of the driver is answered in Status, although one pending
\* register serves all starts, one machine serves all stops, and a stop waits
\* for the header of the frame under way.
StartServed == \A c \in Opened : c \in control ~> c \in status
StopServed == \A c \in Opened : (c \in status /\ c \notin control) ~> c \notin status
==============================================================================
