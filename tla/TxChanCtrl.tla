----------------------------- MODULE TxChanCtrl ------------------------------
(***************************************************************************)
(* TX_DMA_CHAN_START_STOP_CTRL in its one-region form, with the            *)
(* MFB_DROPPER on its output.  A frame of a channel is a number of PCIe    *)
(* data transactions ended by a DMA header; the frames of different        *)
(* channels interleave by transactions.  Per channel one machine follows   *)
(* the frame that is arriving; a frame that begins on a channel that does  *)
(* not run is dropped to its end.                                          *)
(***************************************************************************)
EXTENDS TxSwManager

VARIABLES
    rx,          \* the word on PCIE_MFB_*
    dstRdy,      \* USR_MFB_DST_RDY, which is also PCIE_MFB_DST_RDY
    dropLv,      \* s_drop_lv(0): the transaction being received is dropped
    incPkt       \* s_inc_pkt(0): a kept transaction is being received

cctVars == <<chanState, pktAcc, rx, dstRdy, dropLv, incPkt>>

Words == [vld : BOOLEAN, chan : Chan, hdr : BOOLEAN, sof : BOOLEAN, eof : BOOLEAN]

NoWord == [vld |-> FALSE, chan |-> 0, hdr |-> FALSE, sof |-> FALSE, eof |-> TRUE]

CctTypeOK ==
    /\ chanState \in [Chan -> ChanStates]
    /\ pktAcc \in [Chan -> PktAccStates]
    /\ rx \in Words
    /\ dstRdy \in BOOLEAN
    /\ dropLv \in BOOLEAN
    /\ incPkt \in BOOLEAN

CctInit ==
    /\ chanState = [c \in Chan |-> "STOPPED"]
    /\ pktAcc = [c \in Chan |-> "IDLE"]
    /\ rx = NoWord
    /\ dstRdy = TRUE
    /\ dropLv = FALSE
    /\ incPkt = FALSE

------------------------------------------------------------------------------
(* The arriving frame *)

SofOn(c) == rx.vld /\ rx.sof /\ rx.chan = c

\* Mutant: the header does not end the frame.
PktAccNextEndless(c) ==
    IF ~SofOn(c) \/ pktAcc[c] # "IDLE" THEN pktAcc[c]
    ELSE IF Running(c) THEN "PENDING"
    ELSE "DROP"

\* The acceptor looks at SRC_RDY only: it moves in a clock in which the word
\* is not taken, too.
PktAccNext(c) ==
    IF ~SofOn(c) THEN pktAcc[c]
    ELSE IF rx.hdr THEN "IDLE"
    ELSE IF pktAcc[c] # "IDLE" THEN pktAcc[c]
    ELSE IF Running(c) THEN "PENDING"
    ELSE "DROP"

\* Mutant: only the first transaction of a frame is dropped.
PktDropEnFirst ==
    SofOn(rx.chan) /\ pktAcc[rx.chan] = "IDLE" /\ ~rx.hdr /\ ~Running(rx.chan)

\* pkt_drop_en: chan_pkt_drop_en of the channel of the word on the bus.
PktDropEn ==
    /\ SofOn(rx.chan)
    /\ \/ pktAcc[rx.chan] = "DROP"
       \/ pktAcc[rx.chan] = "IDLE" /\ ~rx.hdr /\ ~Running(rx.chan)

\* Mutant: every transaction of a dropped frame is counted.
PktDiscIncSof == rx.vld /\ rx.sof /\ dstRdy /\ pktAcc[rx.chan] = "DROP"

\* PKT_DISC_INC
PktDiscInc == rx.vld /\ rx.hdr /\ dstRdy /\ pktAcc[rx.chan] = "DROP"

------------------------------------------------------------------------------
(* MFB_DROPPER, up to the source ready Kept that its output register takes  *)
(* over.                                                                   *)

DropSof == rx.sof /\ ~PktDropEn

DropEof == rx.eof /\ ~(IF rx.sof THEN PktDropEn ELSE dropLv)

\* Mutant: only the first word of a transaction is kept.
KeptSof == rx.vld /\ DropSof

\* s_src_rdy: the word is kept.
Kept == rx.vld /\ (DropSof \/ incPkt)

DropperTick ==
    IF dstRdy
    THEN /\ dropLv' = IF rx.vld /\ rx.sof THEN PktDropEn ELSE dropLv
         /\ incPkt' = IF rx.vld
                      THEN \/ DropSof /\ (DropEof <=> incPkt)
                           \/ ~DropSof /\ ~DropEof /\ incPkt
                      ELSE incPkt
    ELSE UNCHANGED <<dropLv, incPkt>>

------------------------------------------------------------------------------
\* One clock; rxNext and rdyNext are what the neighbours drive in the next one.
CctTick(rxNext, rdyNext) ==
    /\ chanState' = [c \in Chan |-> ChanStateNext(c)]
    /\ pktAcc' = [c \in Chan |-> PktAccNext(c)]
    /\ DropperTick
    /\ rx' = rxNext
    /\ dstRdy' = rdyNext
==============================================================================
