----------------------------- MODULE FifoxShift ------------------------------
(***************************************************************************)
(* FIFOX on a shift register (RAM_TYPE SHIFT).  Each write shifts; the     *)
(* output address follows the oldest word and rests at Items - 1, the      *)
(* place of the oldest of Items words, when there is none.                 *)
(***************************************************************************)
EXTENDS FifoxCtl

VARIABLES
    sh,       \* the shift register, the newest word at 0
    addrOut   \* addr_out_reg

vars == <<ctlVars, sh, addrOut>>

TypeOK ==
    /\ CtlTypeOK
    /\ sh \in [Addr -> Data]
    /\ addrOut \in Addr

Init ==
    /\ CtlInit
    /\ sh \in [Addr -> Data]
    /\ addrOut = Items - 1

EmptyComp == addrOut = Items - 1

ShRegRd(rd) == RdCe(rd) /\ ~EmptyComp

\* Mutants: the address overruns, or a simultaneous write is ignored.
AddrNextUnwrapped(wr, rd) ==
    IF WrEn(wr) /\ ~ShRegRd(rd) THEN addrOut + 1
    ELSE IF ShRegRd(rd) /\ ~WrEn(wr) THEN addrOut - 1
    ELSE addrOut

AddrNextReadFirst(wr, rd) ==
    IF ShRegRd(rd) THEN IF addrOut = 0 THEN Items - 1 ELSE addrOut - 1
    ELSE IF WrEn(wr) THEN IF addrOut = Items - 1 THEN 0 ELSE addrOut + 1
    ELSE addrOut

AddrNext(wr, rd) ==
    IF WrEn(wr) /\ ~ShRegRd(rd)
    THEN IF addrOut = Items - 1 THEN 0 ELSE addrOut + 1
    ELSE IF ShRegRd(rd) /\ ~WrEn(wr)
    THEN IF addrOut = 0 THEN Items - 1 ELSE addrOut - 1
    ELSE addrOut

Clock(wr, rd, di) ==
    /\ CtlTick(wr, rd, di, EmptyComp, sh[addrOut])
    /\ sh' = IF WrEn(wr)
             THEN [i \in Addr |-> IF i = 0 THEN di ELSE sh[i - 1]]
             ELSE sh
    /\ addrOut' = AddrNext(wr, rd)

Next == \E wr, rd \in BOOLEAN, di \in Data : Clock(wr, rd, di)

Spec == Init /\ [][Next]_vars

\* The clock runs; nobody is obliged to write or to read.
FairSpec == Spec /\ WF_vars(WordBehind(EmptyComp) /\ Next)
==============================================================================
