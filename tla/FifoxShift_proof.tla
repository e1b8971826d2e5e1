-------------------------- MODULE FifoxShift_proof ---------------------------
(***************************************************************************)
(* FIFOX on a shift register is a FIFO of Items words, for every depth.    *)
(* The output address Items - 1 means two things, no word and the oldest   *)
(* of Items words; the second never occurs, because the output registers   *)
(* take the first two words as fast as they are written.                   *)
(***************************************************************************)
EXTENDS FifoxShift, Fifox_proof

AddrInv == addrOut = IF InMem = 0 THEN Items - 1 ELSE InMem - 1

\* The words behind the registers lie, oldest first, from addrOut down to 0.
MemInv == \A i \in 1 .. InMem : sh[InMem - i] = q[Held + i]

FifoInv == TypeOK /\ CtlInv /\ AddrInv /\ MemInv

------------------------------------------------------------------------------
(* One clock *)

LEMMA MemAnswersOK ==
    ASSUME FifoInv
    PROVE  /\ EmptyComp \in BOOLEAN
           /\ sh[addrOut] \in Data
           /\ MemAnswers(EmptyComp, sh[addrOut])
<1>1. EmptyComp \in BOOLEAN /\ sh[addrOut] \in Data
  BY DEF EmptyComp, FifoInv, TypeOK
<1>2. InMem \in 0 .. Items - 1
  BY CtlFacts DEF FifoInv
<1>3. EmptyComp <=> InMem = 0
  BY <1>2, ItemsAssumption DEF EmptyComp, FifoInv, AddrInv
<1>4. ASSUME InMem > 0 PROVE sh[addrOut] = q[Held + 1]
  <2>1. 1 \in 1 .. InMem /\ addrOut = InMem - 1
    BY <1>2, <1>4, ItemsAssumption DEF FifoInv, AddrInv
  <2> QED
    BY <2>1 DEF FifoInv, MemInv
<1> QED
  BY <1>1, <1>3, <1>4 DEF MemAnswers

LEMMA CtlKept ==
    ASSUME FifoInv,
           NEW wr \in BOOLEAN, NEW rd \in BOOLEAN, NEW di \in Data, Clock(wr, rd, di)
    PROVE  CtlInv' /\ InMem' = InMem + W(wr) - D(rd, EmptyComp)
<1>1. CtlTick(wr, rd, di, EmptyComp, sh[addrOut]) /\ CtlInv
  BY DEF Clock, FifoInv
<1>2. CtlInv'
  BY <1>1, MemAnswersOK, CtlStep
<1>3. InMem' = InMem + W(wr) - D(rd, EmptyComp)
  BY <1>1, MemAnswersOK, CountStep DEF MemAnswers
<1> QED
  BY <1>2, <1>3

\* The address follows the oldest word, through 0 and Items - 1 when the last
\* word leaves and the first one comes.
LEMMA AddrStep ==
    ASSUME FifoInv,
           NEW wr \in BOOLEAN, NEW rd \in BOOLEAN, NEW di \in Data, Clock(wr, rd, di)
    PROVE  AddrInv' /\ TypeOK'
<1>1. /\ InMem \in 0 .. Items - 1
      /\ addrOut = IF InMem = 0 THEN Items - 1 ELSE InMem - 1
      /\ sh \in [Addr -> Data]
  BY CtlFacts DEF FifoInv, AddrInv, TypeOK
<1>2. InMem' = InMem + W(wr) - D(rd, EmptyComp) /\ InMem' \in 0 .. Items - 1
  BY CtlKept DEF CtlInv, CountInv
<1>3. D(rd, EmptyComp) = 1 => InMem > 0
  BY <1>1, MemAnswersOK, ItemsAssumption DEF D, MemAnswers
<1>4. addrOut' = AddrNext(wr, rd)
  BY DEF Clock
<1>5. addrOut' = IF InMem' = 0 THEN Items - 1 ELSE InMem' - 1
  BY <1>1, <1>2, <1>3, <1>4, ItemsAssumption DEF AddrNext, ShRegRd, D, W
<1>6. addrOut' \in Addr
  BY <1>2, <1>5, ItemsAssumption DEF Addr
<1>7. sh' \in [Addr -> Data]
  <2>1. \A i \in Addr : i # 0 => i - 1 \in Addr
    BY ItemsAssumption DEF Addr
  <2> QED
    BY <1>1, <2>1 DEF Clock
<1> QED
  BY <1>5, <1>6, <1>7, CtlKept DEF AddrInv, TypeOK, CtlInv

\* No word is shifted out unread, skipped or delivered twice.
LEMMA MemStep ==
    ASSUME FifoInv,
           NEW wr \in BOOLEAN, NEW rd \in BOOLEAN, NEW di \in Data, Clock(wr, rd, di)
    PROVE  MemInv'
<1> SUFFICES ASSUME NEW i \in 1 .. InMem'
             PROVE  sh'[InMem' - i] = q'[Held' + i]
  BY DEF MemInv
<1> DEFINE out == D(rd, EmptyComp)
           j == i + out
<1>1. /\ InMem \in 0 .. Items - 1
      /\ \A k \in 1 .. InMem : sh[InMem - k] = q[Held + k]
  BY CtlFacts DEF FifoInv, MemInv
<1>2. out \in {0, 1} /\ W(wr) \in {0, 1}
  BY DEF D, W
<1>3. InMem' = InMem + W(wr) - out /\ InMem' \in 0 .. Items - 1
  BY CtlKept DEF CtlInv, CountInv
<1>4. i \in Nat /\ i >= 1 /\ i <= InMem' /\ j = i + out /\ j \in Nat
  BY <1>2, <1>3, ItemsAssumption
<1>5. /\ j \in 1 .. Items
      /\ j <= InMem => q'[Held' + i] = q[Held + j]
      /\ j > InMem => j = InMem + 1 /\ WrEn(wr) /\ q'[Held' + i] = di
  <2>1. CtlTick(wr, rd, di, EmptyComp, sh[addrOut]) /\ CtlInv
    BY DEF Clock, FifoInv
  <2>2. EmptyComp \in BOOLEAN /\ sh[addrOut] \in Data /\ (EmptyComp <=> InMem = 0)
    BY MemAnswersOK DEF MemAnswers
  <2> HIDE DEF j
  <2> QED
    BY <1>4, <2>1, <2>2, MemWordMoves
<1>6. sh' = IF WrEn(wr) THEN [k \in Addr |-> IF k = 0 THEN di ELSE sh[k - 1]] ELSE sh
  BY DEF Clock
<1> HIDE DEF out, j
<1>7. InMem' - i = InMem + W(wr) - j /\ InMem' - i \in Addr
  BY <1>1, <1>2, <1>3, <1>4, ItemsAssumption DEF Addr
<1>8. CASE j <= InMem
  <2>1. j \in 1 .. InMem
    BY <1>1, <1>5, <1>8, ItemsAssumption
  <2>2. sh[InMem - j] = q[Held + j]
    BY <1>1, <2>1
  <2>3. CASE WrEn(wr)
    <3>1. InMem' - i # 0 /\ (InMem' - i) - 1 = InMem - j
      BY <1>1, <1>7, <2>1, <2>3, ItemsAssumption DEF W
    <3> QED
      BY <1>5, <1>6, <1>7, <1>8, <2>2, <2>3, <3>1
  <2>4. CASE ~WrEn(wr)
    <3>1. InMem' - i = InMem - j
      BY <1>1, <1>7, <2>1, <2>4, ItemsAssumption DEF W
    <3> QED
      BY <1>5, <1>6, <1>8, <2>2, <2>4, <3>1
  <2> QED
    BY <2>3, <2>4
<1>9. CASE j > InMem
  <2>1. j = InMem + 1 /\ WrEn(wr) /\ q'[Held' + i] = di
    BY <1>5, <1>9
  <2>2. InMem' - i = 0
    BY <1>1, <1>7, <2>1, ItemsAssumption DEF W
  <2> QED
    BY <1>6, <1>7, <2>1, <2>2
<1>10. j <= InMem \/ j > InMem
  BY <1>1, <1>4, ItemsAssumption
<1> QED
  BY <1>8, <1>9, <1>10

------------------------------------------------------------------------------
(* The specification *)

LEMMA InvInit == Init => FifoInv
<1> SUFFICES ASSUME Init PROVE FifoInv
  OBVIOUS
<1>1. CtlInv /\ InMem = 0
  BY CtlInitOK DEF Init
<1>2. TypeOK
  BY <1>1, ItemsAssumption DEF Init, TypeOK, CtlInv, Addr
<1>3. AddrInv /\ MemInv
  BY <1>1 DEF Init, AddrInv, MemInv
<1> QED
  BY <1>1, <1>2, <1>3 DEF FifoInv

LEMMA InvStep == FifoInv /\ [Next]_vars => FifoInv'
<1>1. ASSUME FifoInv, Next PROVE FifoInv'
  <2>1. PICK wr \in BOOLEAN, rd \in BOOLEAN, di \in Data : Clock(wr, rd, di)
    BY <1>1 DEF Next
  <2> QED
    BY <1>1, <2>1, CtlKept, AddrStep, MemStep DEF FifoInv
<1>2. ASSUME FifoInv, UNCHANGED vars PROVE FifoInv'
  BY <1>2 DEF vars, ctlVars, FifoInv, TypeOK, CtlTypeOK, CtlInv, CountInv,
              RegInv, AddrInv, MemInv, InMem, Held, B
<1> QED
  BY <1>1, <1>2

\* The words of the FIFO are in the output registers and in the shift register,
\* in the order in which they were accepted.
THEOREM FifoInvariant == Spec => []FifoInv
<1> QED
  BY InvInit, InvStep, PTL DEF Spec

\* The output address, the flags and the data registers keep their ranges.
THEOREM TypeCorrect == Spec => []TypeOK
<1>1. FifoInv => TypeOK
  BY DEF FifoInv
<1> QED
  BY <1>1, FifoInvariant, PTL

\* STATUS counts the words in the FIFO.
THEOREM StatusCounts == Spec => []StatusExact
<1>1. FifoInv => StatusExact
  BY DEF FifoInv, CtlInv, CountInv, StatusExact
<1> QED
  BY <1>1, FifoInvariant, PTL

\* FIFOX implements a FIFO of Items words: FULL is exact and DO is the oldest
\* word whenever EMPTY is not set.
THEOREM FifoImplemented == Spec => ImplementsFifo
<1>1. Init => Fifo!Init
  BY InvInit, FlagsHold DEF Init, CtlInit, Fifo!Init, FlagsOK, FifoInv
<1>2. FifoInv => FlagsOK
  BY FlagsHold DEF FifoInv
<1>3. FlagsOK' /\ [Next]_vars => [Fifo!Next]_(Fifo!vars)
  BY FifoStep DEF Next, Clock, vars, ctlVars, Fifo!vars
<1> QED
  BY <1>1, <1>2, <1>3, FifoInvariant, PTL DEF Spec, Fifo!Spec, ImplementsFifo
==============================================================================
