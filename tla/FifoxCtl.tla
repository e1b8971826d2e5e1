------------------------------ MODULE FifoxCtl -------------------------------
(***************************************************************************)
(* The part of FIFOX that does not depend on the memory: the flags, the    *)
(* status counter and the two output registers behind the memory, each     *)
(* with its own empty flag.                                                *)
(***************************************************************************)
EXTENDS Naturals, Sequences

CONSTANTS
    Items,   \* ITEMS_INTER: the depth, at least 2
    Data

ASSUME ItemsAssumption == Items \in Nat /\ Items >= 2

Addr == 0 .. Items - 1

VARIABLES
    status,  \* status_reg
    full,    \* FULL
    empty1,  \* empty_reg: the register behind the memory holds no word
    out1,    \* lut_mem_out or sh_mem_out
    empty,   \* EMPTY
    do,      \* DO
    q        \* history: the words accepted and not yet consumed, oldest first

ctlVars == <<status, full, empty1, out1, empty, do, q>>

CtlTypeOK ==
    /\ status \in 0 .. Items
    /\ full \in BOOLEAN
    /\ empty1 \in BOOLEAN
    /\ out1 \in Data
    /\ empty \in BOOLEAN
    /\ do \in Data
    /\ q \in Seq(Data)

\* After RESET; the data registers have none.
CtlInit ==
    /\ status = 0
    /\ full = FALSE
    /\ empty1 = TRUE
    /\ out1 \in Data
    /\ empty = TRUE
    /\ do \in Data
    /\ q = <<>>

WrEn(wr) == wr /\ ~full

RdEn(rd) == rd /\ ~empty

\* Mutant: the output register is moved by a successful read only.
RdRegCeRead(rd) == RdEn(rd)

\* rd_reg_ce moves the second output register, rd_ce the first and the memory.
RdRegCe(rd) == rd \/ empty

RdCe(rd) == RdRegCe(rd) \/ empty1

\* Mutant: a read in the clock of a write is not counted.
StatusNextWriteFirst(wr, rd) ==
    IF WrEn(wr) THEN IF status = Items THEN status ELSE status + 1
    ELSE IF RdEn(rd) THEN status - 1
    ELSE status

StatusNext(wr, rd) ==
    IF WrEn(wr) /\ ~RdEn(rd) THEN status + 1
    ELSE IF RdEn(rd) /\ ~WrEn(wr) THEN status - 1
    ELSE status

\* Mutant: FULL is set from the status of the clock before.
FullCompLate(wr, rd) == status = Items /\ ~RdEn(rd)

FullComp(wr, rd) ==
    \/ ~WrEn(wr) /\ ~RdEn(rd) /\ status = Items
    \/ WrEn(wr) /\ ~RdEn(rd) /\ status = Items - 1

\* The memory offers memOut, unless emptyComp says that it holds nothing.
OutputsTick(rd, emptyComp, memOut) ==
    /\ empty1' = IF RdCe(rd) THEN emptyComp ELSE empty1
    /\ out1' = IF RdCe(rd) THEN memOut ELSE out1
    /\ empty' = IF RdRegCe(rd) THEN empty1 ELSE empty
    /\ do' = IF RdRegCe(rd) THEN out1 ELSE do

QueueNext(accept, consume, di) ==
    LET rest == IF consume THEN Tail(q) ELSE q
    IN  IF accept THEN Append(rest, di) ELSE rest

CtlTick(wr, rd, di, emptyComp, memOut) ==
    /\ status' = StatusNext(wr, rd)
    /\ full' = FullComp(wr, rd)
    /\ OutputsTick(rd, emptyComp, memOut)
    /\ q' = QueueNext(WrEn(wr), RdEn(rd), di)

\* The output is empty and a word is behind it: any clock moves something.
WordBehind(emptyComp) == empty /\ ~(empty1 /\ emptyComp)

------------------------------------------------------------------------------
(* Properties *)

\* FULL and the status counter, which are registers computed a clock ahead,
\* and the output registers, which may be empty in front of a filled memory,
\* together behave as a queue of Items words.
Fifo == INSTANCE BoundedFifo

ImplementsFifo == Fifo!Spec

\* STATUS is the number of words in the FIFO, those in the registers included.
StatusExact == status = Len(q)

\* A word that was accepted gets to the output even when nothing is written
\* after it.
EventuallyOffered == q # <<>> ~> ~empty
==============================================================================
