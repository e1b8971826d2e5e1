------------------------------ MODULE FifoxMem -------------------------------
(***************************************************************************)
(* FIFOX with an addressed memory (RAM_TYPE LUT, BRAM or URAM).  The write *)
(* and the read address each have a counter that runs one ahead; the       *)
(* memory is taken as empty when the counters are equal, which they are    *)
(* again if it ever holds Items words.                                     *)
(***************************************************************************)
EXTENDS FifoxCtl

VARIABLES
    mem,
    addrInCnt,  addrIn,    \* addr_in_cnt, addr_in_reg
    addrOutCnt, addrOut    \* addr_out_cnt, addr_out_reg

memVars == <<mem, addrInCnt, addrIn, addrOutCnt, addrOut>>

vars == <<ctlVars, memVars>>

TypeOK ==
    /\ CtlTypeOK
    /\ mem \in [Addr -> Data]
    /\ addrInCnt \in Addr
    /\ addrIn \in Addr
    /\ addrOutCnt \in Addr
    /\ addrOut \in Addr

Init ==
    /\ CtlInit
    /\ mem \in [Addr -> Data]
    /\ addrInCnt = 1
    /\ addrIn = 0
    /\ addrOutCnt = 1
    /\ addrOut = 0

\* Mutant: the address does not wrap.
UpUnwrapped(a) == a + 1

Up(a) == IF a = Items - 1 THEN 0 ELSE a + 1

EmptyComp == addrOutCnt = addrInCnt

\* inc_in_cnt
WriteTick(wr, di) ==
    IF WrEn(wr)
    THEN /\ mem' = [mem EXCEPT ![addrIn] = di]
         /\ addrInCnt' = Up(addrInCnt)
         /\ addrIn' = addrInCnt
    ELSE UNCHANGED <<mem, addrInCnt, addrIn>>

\* inc_out_cnt
ReadTick(rd) ==
    IF RdCe(rd) /\ ~EmptyComp
    THEN /\ addrOutCnt' = Up(addrOutCnt)
         /\ addrOut' = addrOutCnt
    ELSE UNCHANGED <<addrOutCnt, addrOut>>

Clock(wr, rd, di) ==
    /\ CtlTick(wr, rd, di, EmptyComp, mem[addrOut])
    /\ WriteTick(wr, di)
    /\ ReadTick(rd)

Next == \E wr, rd \in BOOLEAN, di \in Data : Clock(wr, rd, di)

Spec == Init /\ [][Next]_vars

\* The clock runs; nobody is obliged to write or to read.
FairSpec == Spec /\ WF_vars(WordBehind(EmptyComp) /\ Next)
==============================================================================
