----------------------------- MODULE TxSwManager -----------------------------
(***************************************************************************)
(* The start/stop half of TX_DMA_SW_MANAGER, the register file of the TX   *)
(* DMA.  The driver sets bit 0 of a channel's Control register to ask for  *)
(* a start and clears it to ask for a stop; the manager serves one start   *)
(* and one stop at a time and reports the outcome in the Status register.  *)
(*                                                                         *)
(* The manager does not watch the channels together: active_chan_reg       *)
(* visits one per clock and the second read port of Control and Status     *)
(* shows only that one.  One tick of this module is one rising clock edge: *)
(* every register takes its new value at once.  The machines that answer   *)
(* its requests, one per channel, are at the end of the module.            *)
(***************************************************************************)
EXTENDS Naturals

CONSTANT N      \* CHANNELS, the number of DMA channels

ASSUME NAssumption == N \in Nat /\ N >= 2

Chan == 0 .. N - 1

\* Mutants: the counter does not wrap at the last channel, or wraps one early.
NextChanUnwrapped(c) == c + 1

NextChanEarly(c) == IF c + 2 >= N THEN 0 ELSE c + 1

\* active_chan_reg is a counter of log2(CHANNELS) bits and the assertion on
\* CHANNELS names powers of two, for which it wraps at N.
NextChan(c) == IF c = N - 1 THEN 0 ELSE c + 1

VARIABLES
    control,      \* channels whose Control bit 0 is set
    status,       \* channels whose Status bit 0 is set
    activeChan,   \* active_chan_reg
    startVld,     \* start_pending_reg_vld
    startAcked,   \* start_pending_reg_acked
    startChan,    \* start_pending_reg_chan
    startReqVld,  \* START_REQ_VLD, registered
    startReqChan, \* START_REQ_CHAN, registered
    enabledSet,   \* registered one-clock pulses enabled_chan_set
    enabled,      \* ENABLED_CHAN
    stopFsm,      \* stop_fsm_pst
    stopChan,     \* stop_fsm_channel_reg
    cmpIn, cmpOut \* the two register stages of the pointer comparators

swmVars == <<control, status, activeChan, startVld, startAcked, startChan,
             startReqVld, startReqChan, enabledSet, enabled, stopFsm, stopChan, cmpIn, cmpOut>>

SwmTypeOK ==
    /\ control \subseteq Chan
    /\ status \subseteq Chan
    /\ activeChan \in Chan
    /\ startVld \in BOOLEAN
    /\ startAcked \in BOOLEAN
    /\ startChan \in Chan
    /\ startReqVld \in BOOLEAN
    /\ startReqChan \in Chan
    /\ enabledSet \subseteq Chan
    /\ enabled \subseteq Chan
    /\ stopFsm \in {"IDLE", "WAIT_FOR_REQ_ACK", "WAIT_FOR_POINTERS"}
    /\ stopChan \in Chan
    /\ cmpIn \in BOOLEAN
    /\ cmpOut \in BOOLEAN

\* After RESET.  The probing register and the channel registers have no reset.
SwmInit ==
    /\ control = {}
    /\ status = {}
    /\ activeChan \in Chan
    /\ startVld = FALSE
    /\ startAcked \in BOOLEAN
    /\ startChan \in Chan
    /\ startReqVld = FALSE
    /\ startReqChan = startChan
    /\ enabledSet = {}
    /\ enabled = {}
    /\ stopFsm = "IDLE"
    /\ stopChan \in Chan
    /\ cmpIn = TRUE
    /\ cmpOut = TRUE

------------------------------------------------------------------------------
(* Combinational signals *)

\* Mutant: a start is detected while another one is pending.
StartDetectAnyTime == activeChan \in control /\ activeChan \notin status

StartDetect == ~startVld /\ activeChan \in control /\ activeChan \notin status

\* Mutant: the acknowledged start is written wherever the register stands.
StartAckedAnywhere == startVld /\ startAcked

\* start_acked: the acknowledged start is written to Status when the probing
\* register comes round to its channel.
StartAcked == startVld /\ startAcked /\ startChan = activeChan

\* Mutant: a stop is requested while the machine serves another one.
StopReqVldAnyTime == activeChan \notin control /\ activeChan \in status

StopReqVld == stopFsm = "IDLE" /\ activeChan \notin control /\ activeChan \in status

StopReqChan == IF StopReqVld THEN activeChan ELSE stopChan

\* Mutants: the stop is written wherever the register stands, or before the
\* pointers are equal.
StopAckedAnywhere == stopFsm = "WAIT_FOR_POINTERS" /\ cmpOut

StopAckedEarly == stopFsm = "WAIT_FOR_POINTERS" /\ stopChan = activeChan

StopAcked == stopFsm = "WAIT_FOR_POINTERS" /\ stopChan = activeChan /\ cmpOut

------------------------------------------------------------------------------
(* One clock.  startAck and stopAck are the answers of the channel control *)
(* in this clock; eq says that the hardware and the software pointers of   *)
(* channel stopChan are equal in this clock; ctl is the Control register   *)
(* after a possible write over the MI bus.                                 *)

StartTick(startAck) ==
    /\ startReqVld' = StartDetect
    /\ startReqChan' = IF StartDetect THEN activeChan ELSE startChan
    /\ startChan' = IF StartDetect THEN activeChan ELSE startChan
    /\ startVld' = IF StartDetect THEN TRUE
                   ELSE startVld /\ ~StartAcked
    /\ startAcked' = IF StartDetect THEN FALSE
                     ELSE startAcked \/ (startVld /\ startAck)
    /\ enabledSet' = IF StartAcked THEN {activeChan} ELSE {}

StopFsmNext(stopAck) ==
    IF StopReqVld THEN "WAIT_FOR_REQ_ACK"
    ELSE IF stopFsm = "WAIT_FOR_REQ_ACK" /\ stopAck THEN "WAIT_FOR_POINTERS"
    ELSE IF StopAcked THEN "IDLE"
    ELSE stopFsm

\* DSP_COMPARATOR with its input registers: two clocks from pointers to result.
ComparatorTick(eq) ==
    /\ cmpIn' = eq
    /\ cmpOut' = cmpIn

StopTick(stopAck, eq) ==
    /\ stopFsm' = StopFsmNext(stopAck)
    /\ stopChan' = StopReqChan
    /\ ComparatorTick(eq)

\* The single write port of Status: its address is activeChan, its data is
\* start_acked, its enable is start_acked or stop_acked.
StatusTick ==
    status' = IF StartAcked THEN status \cup {activeChan}
              ELSE IF StopAcked THEN status \ {activeChan}
              ELSE status

\* Mutant: the bit is never reset.
EnabledTickSetOnly == enabled' = enabled \cup enabledSet

\* A reset pulse of an ENABLED_CHAN bit wins over a set pulse.
EnabledTick ==
    enabled' = (enabled \cup enabledSet) \ (IF StopAcked THEN {stopChan} ELSE {})

SwmTick(ctl, startAck, stopAck, eq) ==
    /\ control' = ctl
    /\ activeChan' = NextChan(activeChan)
    /\ StartTick(startAck)
    /\ StopTick(stopAck, eq)
    /\ StatusTick
    /\ EnabledTick

------------------------------------------------------------------------------
(* The part of TX_DMA_CHAN_START_STOP_CTRL that does not depend on the width   *)
(* of the PCIe bus: one machine per channel that answers the requests above.   *)
(* A stop is acknowledged when the channel is in the middle of no frame.       *)

VARIABLES
    chanState,   \* channel_active_pst
    pktAcc       \* pkt_acc_pst: what becomes of the frame that is arriving

ChanStates == {"STOPPED", "START", "RUNNING", "STOP_PENDING"}

PktAccStates == {"IDLE", "PENDING", "DROP"}

Running(c) == chanState[c] = "RUNNING"

StartReqAck(c) == chanState[c] = "START"

\* Mutant: a stop is acknowledged in the middle of a frame.
StopReqAckAnyTime(c) == chanState[c] = "STOP_PENDING"

StopReqAck(c) == chanState[c] = "STOP_PENDING" /\ pktAcc[c] = "IDLE"

ChanStateNext(c) ==
    IF chanState[c] = "STOPPED" /\ startReqVld /\ startReqChan = c THEN "START"
    ELSE IF StartReqAck(c) THEN "RUNNING"
    ELSE IF Running(c) /\ StopReqVld /\ StopReqChan = c THEN "STOP_PENDING"
    ELSE IF StopReqAck(c) THEN "STOPPED"
    ELSE chanState[c]
==============================================================================
