--------------------------- MODULE FifoxMem_proof ----------------------------
(***************************************************************************)
(* FIFOX with an addressed memory is a FIFO of Items words, for every      *)
(* depth.  The memory is taken as empty when the two addresses are equal,  *)
(* so it must never hold Items words; it does not, because the two output  *)
(* registers take the first two words as fast as they are written.         *)
(***************************************************************************)
EXTENDS FifoxMem, Fifox_proof

\* The address n places after a.
Off(a, n) == IF a + n >= Items THEN a + n - Items ELSE a + n

AddrInv ==
    /\ addrInCnt = Up(addrIn)
    /\ addrOutCnt = Up(addrOut)
    /\ addrIn = Off(addrOut, InMem)

\* The words behind the registers lie, oldest first, from addrOut on.
MemInv == \A i \in 1 .. InMem : mem[Off(addrOut, i - 1)] = q[Held + i]

FifoInv == TypeOK /\ CtlInv /\ AddrInv /\ MemInv

------------------------------------------------------------------------------
(* Arithmetic of wrapping addresses *)

LEMMA AddrFacts ==
    /\ 0 \in Addr /\ 1 \in Addr
    /\ \A a \in Addr : Up(a) \in Addr
    /\ \A a \in Addr, n \in 0 .. Items - 1 : Off(a, n) \in Addr
BY ItemsAssumption DEF Addr, Up, Off

LEMMA OffFacts ==
    ASSUME NEW a \in Addr, NEW n \in 0 .. Items - 1
    PROVE  /\ Off(a, 0) = a
           /\ Up(Off(a, n)) = Off(Up(a), n)
           /\ n > 0 => Off(a, n) = Off(Up(a), n - 1)
           /\ n < Items - 1 => Up(Off(a, n)) = Off(a, n + 1)
           /\ \A m \in 0 .. Items - 1 : Off(a, m) = Off(a, n) => m = n
BY ItemsAssumption DEF Addr, Up, Off

LEMMA UpInjective ==
    ASSUME NEW a \in Addr, NEW b \in Addr, Up(a) = Up(b)
    PROVE  a = b
BY ItemsAssumption DEF Addr, Up

------------------------------------------------------------------------------
(* One clock *)

\* The two address counters are equal exactly when the memory holds no word.
LEMMA EmptyCompExact ==
    ASSUME FifoInv
    PROVE  EmptyComp <=> InMem = 0
<1>1. /\ addrOut \in Addr /\ addrIn \in Addr /\ InMem \in 0 .. Items - 1
      /\ addrIn = Off(addrOut, InMem)
  BY CtlFacts DEF FifoInv, TypeOK, AddrInv
<1>2. EmptyComp <=> Up(addrOut) = Up(addrIn)
  BY DEF EmptyComp, FifoInv, AddrInv
<1>3. Up(addrOut) = Up(addrIn) <=> addrOut = addrIn
  BY <1>1, UpInjective
<1>4. 0 \in 0 .. Items - 1
  BY ItemsAssumption
<1>5. addrOut = Off(addrOut, 0)
  BY <1>1, <1>4, OffFacts
<1>6. addrOut = addrIn <=> InMem = 0
  BY <1>1, <1>4, <1>5, OffFacts
<1> QED
  BY <1>2, <1>3, <1>6

LEMMA MemAnswersOK ==
    ASSUME FifoInv
    PROVE  /\ EmptyComp \in BOOLEAN
           /\ mem[addrOut] \in Data
           /\ MemAnswers(EmptyComp, mem[addrOut])
<1>1. EmptyComp \in BOOLEAN /\ addrOut \in Addr /\ mem[addrOut] \in Data
  BY DEF EmptyComp, FifoInv, TypeOK
<1>2. ASSUME InMem > 0 PROVE mem[addrOut] = q[Held + 1]
  <2>1. 1 \in 1 .. InMem /\ 0 \in 0 .. Items - 1 /\ 1 - 1 = 0
    BY <1>2, CtlFacts, ItemsAssumption DEF FifoInv
  <2>2. Off(addrOut, 0) = addrOut
    BY <1>1, <2>1, OffFacts
  <2>3. mem[Off(addrOut, 1 - 1)] = q[Held + 1]
    BY <2>1 DEF FifoInv, MemInv
  <2> QED
    BY <2>1, <2>2, <2>3
<1> QED
  BY <1>1, <1>2, EmptyCompExact DEF MemAnswers

LEMMA TypeStep ==
    ASSUME FifoInv,
           NEW wr \in BOOLEAN, NEW rd \in BOOLEAN, NEW di \in Data, Clock(wr, rd, di)
    PROVE  TypeOK' /\ CtlInv'
<1> USE DEF FifoInv, TypeOK
<1>1. CtlInv'
  BY MemAnswersOK, CtlStep DEF Clock
<1>2. /\ mem' \in [Addr -> Data] /\ addrInCnt' \in Addr /\ addrIn' \in Addr
  BY AddrFacts DEF Clock, WriteTick
<1>3. addrOutCnt' \in Addr /\ addrOut' \in Addr
  BY AddrFacts DEF Clock, ReadTick
<1> QED
  BY <1>1, <1>2, <1>3 DEF CtlInv

LEMMA AddrStep ==
    ASSUME FifoInv,
           NEW wr \in BOOLEAN, NEW rd \in BOOLEAN, NEW di \in Data, Clock(wr, rd, di)
    PROVE  AddrInv'
<1> DEFINE out == D(rd, EmptyComp)
<1>1. /\ addrOut \in Addr /\ addrIn \in Addr
      /\ addrInCnt = Up(addrIn) /\ addrOutCnt = Up(addrOut)
      /\ addrIn = Off(addrOut, InMem)
      /\ InMem \in 0 .. Items - 1
  BY CtlFacts DEF FifoInv, TypeOK, AddrInv
<1>2. /\ addrIn' = IF WrEn(wr) THEN Up(addrIn) ELSE addrIn
      /\ addrInCnt' = Up(addrIn')
  BY <1>1 DEF Clock, WriteTick
<1>3. /\ addrOut' = IF out = 1 THEN Up(addrOut) ELSE addrOut
      /\ addrOutCnt' = Up(addrOut')
  BY <1>1 DEF Clock, ReadTick, D
<1>4. /\ InMem' = InMem + W(wr) - out
      /\ InMem' \in 0 .. Items - 1
  BY CountStep, MemAnswersOK DEF CountInv, FifoInv, Clock, MemAnswers
<1>5. out = 1 => InMem > 0
  BY <1>1, EmptyCompExact DEF D
<1>6. out \in {0, 1}
  BY DEF D
<1> HIDE DEF out
<1>7. addrIn' = Off(addrOut', InMem')
  <2>1. CASE WrEn(wr) /\ out = 1
    BY <1>1, <1>2, <1>3, <1>4, <2>1, OffFacts DEF W
  <2>2. CASE WrEn(wr) /\ out = 0
    BY <1>1, <1>2, <1>3, <1>4, <2>2, OffFacts DEF W
  <2>3. CASE ~WrEn(wr) /\ out = 1
    BY <1>1, <1>2, <1>3, <1>4, <1>5, <2>3, OffFacts DEF W
  <2>4. CASE ~WrEn(wr) /\ out = 0
    BY <1>1, <1>2, <1>3, <1>4, <2>4 DEF W
  <2> QED
    BY <1>6, <2>1, <2>2, <2>3, <2>4
<1> QED
  BY <1>2, <1>3, <1>7 DEF AddrInv

\* No word is overwritten, skipped or delivered twice: after a clock the words
\* are where the queue of accepted words says.
LEMMA MemStep ==
    ASSUME FifoInv,
           NEW wr \in BOOLEAN, NEW rd \in BOOLEAN, NEW di \in Data, Clock(wr, rd, di)
    PROVE  MemInv'
<1> SUFFICES ASSUME NEW i \in 1 .. InMem'
             PROVE  mem'[Off(addrOut', i - 1)] = q'[Held' + i]
  BY DEF MemInv
<1> DEFINE out == D(rd, EmptyComp)
           j == i + out
<1>1. /\ addrOut \in Addr /\ addrIn = Off(addrOut, InMem)
      /\ mem \in [Addr -> Data] /\ InMem \in 0 .. Items - 1
      /\ \A k \in 1 .. InMem : mem[Off(addrOut, k - 1)] = q[Held + k]
  BY CtlFacts DEF FifoInv, TypeOK, AddrInv, MemInv
<1>2. out \in {0, 1}
  BY DEF D
<1>3. InMem' \in 0 .. Items - 1
  BY TypeStep DEF CtlInv, CountInv
<1>4. i \in Nat /\ i >= 1 /\ j = i + out /\ j \in Nat
  BY <1>2, <1>3, ItemsAssumption
<1>5. /\ j \in 1 .. Items /\ i \in 1 .. Items - 1
      /\ j <= InMem => q'[Held' + i] = q[Held + j]
      /\ j > InMem => j = InMem + 1 /\ WrEn(wr) /\ q'[Held' + i] = di
  <2>1. CtlTick(wr, rd, di, EmptyComp, mem[addrOut]) /\ CtlInv
    BY DEF Clock, FifoInv
  <2>2. EmptyComp \in BOOLEAN /\ mem[addrOut] \in Data /\ (EmptyComp <=> InMem = 0)
    BY MemAnswersOK DEF MemAnswers
  <2> HIDE DEF j
  <2> QED
    BY <1>4, <2>1, <2>2, MemWordMoves
<1> HIDE DEF out, j
<1>6. addrOut' = IF out = 1 THEN Up(addrOut) ELSE addrOut
  BY DEF Clock, ReadTick, D, FifoInv, AddrInv, out
<1>7. j - 1 \in 0 .. Items - 1 /\ i - 1 \in 0 .. Items - 1
  BY <1>4, <1>5, ItemsAssumption
<1>8. Off(addrOut', i - 1) = Off(addrOut, j - 1)
  <2>1. CASE out = 1
    <3>1. j - 1 > 0 /\ (j - 1) - 1 = i - 1
      BY <1>4, <2>1
    <3> QED
      BY <1>1, <1>6, <1>7, <2>1, <3>1, OffFacts
  <2>2. CASE out = 0
    BY <1>4, <1>6, <2>2
  <2> QED
    BY <1>2, <2>1, <2>2
<1>9. mem' = IF WrEn(wr) THEN [mem EXCEPT ![addrIn] = di] ELSE mem
  BY DEF Clock, WriteTick
<1>10. CASE j <= InMem
  <2>1. j \in 1 .. InMem
    BY <1>1, <1>5, <1>10, ItemsAssumption
  <2>2. mem[Off(addrOut, j - 1)] = q[Held + j]
    BY <1>1, <2>1
  <2>3. j - 1 # InMem
    BY <1>1, <2>1, ItemsAssumption
  <2>4. Off(addrOut, j - 1) # addrIn
    BY <1>1, <1>7, <2>3, OffFacts
  <2>5. mem'[Off(addrOut, j - 1)] = mem[Off(addrOut, j - 1)]
    BY <1>1, <1>7, <1>9, <2>4, AddrFacts
  <2> QED
    BY <1>5, <1>8, <1>10, <2>2, <2>5
<1>11. CASE j > InMem
  <2>1. j - 1 = InMem /\ WrEn(wr)
    BY <1>1, <1>5, <1>11, ItemsAssumption
  <2>2. Off(addrOut, j - 1) = addrIn /\ addrIn \in Addr
    BY <1>1, <2>1, AddrFacts
  <2>3. mem'[addrIn] = di
    BY <1>1, <1>9, <2>1, <2>2
  <2> QED
    BY <1>5, <1>8, <1>11, <2>2, <2>3
<1>12. j <= InMem \/ j > InMem
  BY <1>1, <1>4, ItemsAssumption
<1> QED
  BY <1>10, <1>11, <1>12

------------------------------------------------------------------------------
(* The specification *)

LEMMA InvInit == Init => FifoInv
<1> SUFFICES ASSUME Init PROVE FifoInv
  OBVIOUS
<1>1. CtlInv /\ InMem = 0
  BY CtlInitOK DEF Init
<1>2. TypeOK
  BY <1>1, AddrFacts DEF Init, TypeOK, CtlInv
<1>3. AddrInv
  BY <1>1, ItemsAssumption DEF Init, AddrInv, Up, Off
<1>4. MemInv
  BY <1>1 DEF MemInv
<1> QED
  BY <1>1, <1>2, <1>3, <1>4 DEF FifoInv

LEMMA InvStep == FifoInv /\ [Next]_vars => FifoInv'
<1>1. ASSUME FifoInv, Next PROVE FifoInv'
  <2>1. PICK wr \in BOOLEAN, rd \in BOOLEAN, di \in Data : Clock(wr, rd, di)
    BY <1>1 DEF Next
  <2> QED
    BY <1>1, <2>1, TypeStep, AddrStep, MemStep DEF FifoInv
<1>2. ASSUME FifoInv, UNCHANGED vars PROVE FifoInv'
  BY <1>2 DEF vars, ctlVars, memVars, FifoInv, TypeOK, CtlTypeOK, CtlInv, CountInv,
              RegInv, AddrInv, MemInv, InMem, Held, B, Off, Up
<1> QED
  BY <1>1, <1>2

\* The words of the FIFO are in the output registers and in the memory, in the
\* order in which they were accepted.
THEOREM FifoInvariant == Spec => []FifoInv
<1> QED
  BY InvInit, InvStep, PTL DEF Spec

\* The address registers, the flags and the data registers keep their ranges.
THEOREM TypeCorrect == Spec => []TypeOK
<1>1. FifoInv => TypeOK
  BY DEF FifoInv
<1> QED
  BY <1>1, FifoInvariant, PTL

\* STATUS counts the words in the FIFO.
THEOREM StatusCounts == Spec => []StatusExact
<1>1. FifoInv => StatusExact
  BY DEF FifoInv, CtlInv, CountInv, StatusExact
<1> QED
  BY <1>1, FifoInvariant, PTL

\* FIFOX implements a FIFO of Items words: FULL is exact and DO is the oldest
\* word whenever EMPTY is not set.
THEOREM FifoImplemented == Spec => ImplementsFifo
<1>1. Init => Fifo!Init
  BY InvInit, FlagsHold DEF Init, CtlInit, Fifo!Init, FlagsOK, FifoInv
<1>2. FifoInv => FlagsOK
  BY FlagsHold DEF FifoInv
<1>3. FlagsOK' /\ [Next]_vars => [Fifo!Next]_(Fifo!vars)
  BY FifoStep DEF Next, Clock, vars, ctlVars, Fifo!vars
<1> QED
  BY <1>1, <1>2, <1>3, FifoInvariant, PTL DEF Spec, Fifo!Spec, ImplementsFifo
==============================================================================
