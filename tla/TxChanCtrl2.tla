----------------------------- MODULE TxChanCtrl2 -----------------------------
(***************************************************************************)
(* TX_DMA_CHAN_START_STOP_CTRL in its two-region form, with the two-region *)
(* MFB_DROPPER.  A word carries up to two transactions, of one channel or  *)
(* of two: a header may share the word with the data before it or with the *)
(* first data of the next frame.  Regions are of one block, so that a      *)
(* transaction starts at the beginning of a region.                        *)
(***************************************************************************)
EXTENDS TxSwManager

VARIABLES
    rx,          \* the word on PCIE_MFB_*: vld and the two regions r[0], r[1]
    dstRdy,      \* USR_MFB_DST_RDY, which is also PCIE_MFB_DST_RDY
    dropLv,      \* s_drop_lv(0)
    incPkt       \* s_inc_pkt(0)

cctVars == <<chanState, pktAcc, rx, dstRdy, dropLv, incPkt>>

Regions == {0, 1}

\* used: the region holds a part of a transaction (known to the sender only).
Region == [used : BOOLEAN, chan : Chan, hdr : BOOLEAN, sof : BOOLEAN, eof : BOOLEAN]

Gap == [used |-> FALSE, chan |-> 0, hdr |-> FALSE, sof |-> FALSE, eof |-> FALSE]

NoWord == [vld |-> FALSE, r |-> [i \in Regions |-> Gap]]

CctTypeOK ==
    /\ chanState \in [Chan -> ChanStates]
    /\ pktAcc \in [Chan -> PktAccStates]
    /\ rx \in [vld : BOOLEAN, r : [Regions -> Region]]
    /\ dstRdy \in BOOLEAN
    /\ dropLv \in BOOLEAN
    /\ incPkt \in BOOLEAN

CctInit ==
    /\ chanState = [c \in Chan |-> "STOPPED"]
    /\ pktAcc = [c \in Chan |-> "IDLE"]
    /\ rx = NoWord
    /\ dstRdy = TRUE
    /\ dropLv = FALSE
    /\ incPkt = FALSE

------------------------------------------------------------------------------
(* The arriving frames *)

\* pcie_mfb_sof_by_chan and is_dma_hdr_by_chan
SofOn(c, i) == rx.r[i].sof /\ rx.r[i].chan = c

HdrOn(c, i) == SofOn(c, i) /\ rx.r[i].hdr

WordOn(c) == rx.vld /\ \E i \in Regions : SofOn(c, i)

\* One frame ends in the first region and the next one begins in the second.
Restart(c) == rx.vld /\ HdrOn(c, 0) /\ SofOn(c, 1)

\* Mutant: the channel is not asked whether it runs.
FreshAlways(c) == "PENDING"

Fresh(c) == IF Running(c) THEN "PENDING" ELSE "DROP"

PktAccNext(c) ==
    IF ~WordOn(c) THEN pktAcc[c]
    ELSE IF HdrOn(c, 1) THEN "IDLE"
    ELSE IF pktAcc[c] = "IDLE" \/ Restart(c) THEN Fresh(c)
    ELSE IF HdrOn(c, 0) THEN "IDLE"
    ELSE pktAcc[c]

\* Mutant: a frame that begins behind a header in the same word is not looked at.
ChanPktDropEnNoRestart(c, i) ==
    \/ pktAcc[c] = "IDLE" /\ WordOn(c) /\ ~Running(c)
    \/ pktAcc[c] = "DROP"

\* chan_pkt_drop_en(c)(i)
ChanPktDropEn(c, i) ==
    \/ pktAcc[c] = "IDLE" /\ WordOn(c) /\ ~Running(c)
    \/ pktAcc[c] = "PENDING" /\ i = 1 /\ Restart(c) /\ ~Running(c)
    \/ pktAcc[c] = "DROP" /\ ~(i = 1 /\ Restart(c) /\ Running(c))

PktDropEn(i) == ChanPktDropEn(rx.r[i].chan, i)

\* Mutant: headers of kept frames are counted, too.
DiscIncAny(i) == rx.vld /\ dstRdy /\ rx.r[i].hdr

\* pcie_mfb_disc_inc_arr(i): what goes to the FIFO of the discard counter
DiscInc(i) == rx.vld /\ dstRdy /\ rx.r[i].hdr /\ pktAcc[rx.r[i].chan] = "DROP"

------------------------------------------------------------------------------
(* MFB_DROPPER: lv and inc are s_drop_lv and s_inc_pkt as they ripple       *)
(* through the regions.                                                    *)

DropSof(i) == rx.r[i].sof /\ ~PktDropEn(i)

LvAfter(i, lv) == IF rx.r[i].sof THEN PktDropEn(i) ELSE lv

IncAfter(i, lv, inc) ==
    LET eof == rx.r[i].eof /\ ~LvAfter(i, lv)
    IN  \/ DropSof(i) /\ (eof <=> inc)
        \/ ~DropSof(i) /\ ~eof /\ inc

\* s_drop_lv(1) and s_inc_pkt(1)
MidLv == LvAfter(0, dropLv)

MidInc == IncAfter(0, dropLv, incPkt)

\* s_region_vld
RegionKept(i) == DropSof(i) \/ (IF i = 0 THEN incPkt ELSE MidInc)

DropperTick ==
    IF rx.vld /\ dstRdy
    THEN /\ dropLv' = LvAfter(1, MidLv)
         /\ incPkt' = IncAfter(1, MidLv, MidInc)
    ELSE UNCHANGED <<dropLv, incPkt>>

------------------------------------------------------------------------------
\* One clock; rxNext and rdyNext are what the neighbours drive in the next one.
CctTick(rxNext, rdyNext) ==
    /\ chanState' = [c \in Chan |-> ChanStateNext(c)]
    /\ pktAcc' = [c \in Chan |-> PktAccNext(c)]
    /\ DropperTick
    /\ rx' = rxNext
    /\ dstRdy' = rdyNext
==============================================================================
