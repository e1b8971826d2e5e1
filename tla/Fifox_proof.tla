----------------------------- MODULE Fifox_proof -----------------------------
(***************************************************************************)
(* What a clock of FIFOX does to the words it holds, whichever memory is   *)
(* behind the output registers: the lemmas that the proofs of the two      *)
(* memories share.  The memory answers a clock with e, that it holds no    *)
(* word, and m, the word at its output.                                    *)
(***************************************************************************)
EXTENDS FifoxCtl, SequenceTheorems, TLAPS

B(e) == IF e THEN 0 ELSE 1

\* Words in the output registers and words in the memory.
Held == B(empty) + B(empty1)

InMem == status - Held

\* The registers take the first two words as fast as they are written, so that
\* the memory never holds Items words.
CountInv ==
    /\ status = Len(q)
    /\ (full <=> status = Items)
    /\ InMem \in 0 .. Items - 1
    /\ InMem >= 2 => ~empty /\ ~empty1

\* The oldest word of the queue lies in DO, the next one behind it.
RegInv ==
    /\ ~empty => do = q[1]
    /\ ~empty1 => out1 = q[1 + B(empty)]

CtlInv == CtlTypeOK /\ CountInv /\ RegInv

\* The words that are consumed, accepted, and taken out of the memory in a
\* clock, as numbers.
R(rd) == IF RdEn(rd) THEN 1 ELSE 0
W(wr) == IF WrEn(wr) THEN 1 ELSE 0
D(rd, e) == IF RdCe(rd) /\ ~e THEN 1 ELSE 0

\* What the memory has to answer: it knows when it is empty, and otherwise
\* offers the oldest of its words.
MemAnswers(e, m) ==
    /\ e <=> InMem = 0
    /\ InMem > 0 => m = q[Held + 1]

------------------------------------------------------------------------------
(* One clock *)

LEMMA CtlFacts ==
    ASSUME CtlInv
    PROVE  /\ q \in Seq(Data) /\ status = Len(q) /\ status \in 0 .. Items
           /\ empty \in BOOLEAN /\ empty1 \in BOOLEAN
           /\ Held = B(empty) + B(empty1) /\ Held \in 0 .. 2
           /\ InMem \in 0 .. Items - 1 /\ status = Held + InMem
           /\ InMem >= 2 => ~empty /\ ~empty1
           /\ (full <=> status = Items)
<1>1. CtlTypeOK /\ CountInv
  BY DEF CtlInv
<1>2. Held \in 0 .. 2 /\ Held = B(empty) + B(empty1)
  BY DEF Held, B
<1>3. status \in Nat /\ status = Held + InMem
  BY <1>1, <1>2, ItemsAssumption DEF CtlTypeOK, InMem
<1> QED
  BY <1>1, <1>2, <1>3 DEF CtlTypeOK, CountInv

LEMMA QueueStep ==
    ASSUME CtlInv, NEW e \in BOOLEAN, NEW m \in Data,
           NEW wr \in BOOLEAN, NEW rd \in BOOLEAN, NEW di \in Data,
           CtlTick(wr, rd, di, e, m)
    PROVE  /\ q' \in Seq(Data)
           /\ Len(q') = Len(q) - R(rd) + W(wr)
           /\ \A k \in 1 .. Len(q) - R(rd) : q'[k] = q[k + R(rd)]
           /\ WrEn(wr) => q'[Len(q')] = di
<1> DEFINE rest == IF RdEn(rd) THEN Tail(q) ELSE q
<1>1. q \in Seq(Data) /\ Len(q) \in Nat /\ status = Len(q)
  BY CtlFacts, LenProperties
<1>2. RdEn(rd) => q # <<>>
  <2>1. RdEn(rd) => status > 0
    BY CtlFacts, ItemsAssumption DEF RdEn, B
  <2> QED
    BY <1>1, <2>1, EmptySeq
<1>3. /\ rest \in Seq(Data)
      /\ Len(rest) = Len(q) - R(rd)
      /\ \A k \in 1 .. Len(q) - R(rd) : rest[k] = q[k + R(rd)]
  <2>1. CASE RdEn(rd)
    BY <1>1, <1>2, <2>1, HeadTailProperties DEF R
  <2>2. CASE ~RdEn(rd)
    BY <1>1, <2>2 DEF R
  <2> QED
    BY <2>1, <2>2
<1>4. q' = IF WrEn(wr) THEN Append(rest, di) ELSE rest
  BY DEF CtlTick, QueueNext
<1> HIDE DEF rest
<1>5. CASE WrEn(wr)
  <2>1. q' = Append(rest, di)
    BY <1>4, <1>5
  <2>2. /\ q' \in Seq(Data)
        /\ Len(q') = Len(rest) + 1
        /\ \A k \in 1 .. Len(rest) : q'[k] = rest[k]
        /\ q'[Len(rest) + 1] = di
    BY <1>3, <2>1, AppendProperties
  <2> QED
    BY <1>1, <1>3, <1>5, <2>2 DEF W, R
<1>6. CASE ~WrEn(wr)
  BY <1>1, <1>3, <1>4, <1>6 DEF W, R
<1> QED
  BY <1>5, <1>6

LEMMA CtlTypeStep ==
    ASSUME CtlInv, NEW e \in BOOLEAN, NEW m \in Data, status' \in 0 .. Items,
           NEW wr \in BOOLEAN, NEW rd \in BOOLEAN, NEW di \in Data,
           CtlTick(wr, rd, di, e, m)
    PROVE  CtlTypeOK'
<1> USE DEF CtlInv, CtlTypeOK
<1>1. full' \in BOOLEAN
  BY DEF CtlTick, FullComp
<1>2. /\ empty1' \in BOOLEAN /\ out1' \in Data
      /\ empty' \in BOOLEAN /\ do' \in Data
  BY DEF CtlTick, OutputsTick
<1>3. q' \in Seq(Data)
  BY QueueStep
<1> QED
  BY <1>1, <1>2, <1>3

\* How many words lie where after a clock, and that two are in the registers
\* whenever two or more are in the memory.
LEMMA CountStep ==
    ASSUME CtlInv, NEW e \in BOOLEAN, NEW m \in Data, e <=> InMem = 0,
           NEW wr \in BOOLEAN, NEW rd \in BOOLEAN, NEW di \in Data,
           CtlTick(wr, rd, di, e, m)
    PROVE  /\ status' = status - R(rd) + W(wr)
           /\ status' \in 0 .. Items
           /\ InMem' = InMem + W(wr) - D(rd, e)
           /\ Held' + R(rd) = Held + D(rd, e)
           /\ CountInv'
<1>1. /\ status \in 0 .. Items /\ empty \in BOOLEAN /\ empty1 \in BOOLEAN
      /\ (full <=> status = Items)
      /\ status = Len(q)
      /\ status = Held + InMem
      /\ InMem \in 0 .. Items - 1
      /\ InMem >= 2 => ~empty /\ ~empty1
      /\ Held = B(empty) + B(empty1)
  BY CtlFacts
<1>2. /\ status' = StatusNext(wr, rd)
      /\ full' = FullComp(wr, rd)
      /\ empty1' = IF RdCe(rd) THEN e ELSE empty1
      /\ empty' = IF RdRegCe(rd) THEN empty1 ELSE empty
  BY DEF CtlTick, OutputsTick
<1>3. e <=> InMem = 0
  OBVIOUS
<1>4. RdEn(rd) => status >= 1
  BY <1>1 DEF RdEn, B
<1>5. status' = status - R(rd) + W(wr) /\ status' \in 0 .. Items
  BY <1>1, <1>2, <1>4, ItemsAssumption DEF StatusNext, R, W, WrEn
<1>6. full' <=> status' = Items
  BY <1>1, <1>2, <1>5, ItemsAssumption DEF FullComp, WrEn, R, W
<1>7. status' = Len(q')
  BY <1>1, <1>5, QueueStep
<1>8. Held' + R(rd) = Held + D(rd, e)
  <2>1. Held' = B(empty') + B(empty1')
    BY DEF Held
  <2>2. CASE RdRegCe(rd)
    <3>1. R(rd) = B(empty) /\ RdCe(rd) /\ B(empty') = B(empty1)
      BY <1>1, <1>2, <2>2 DEF RdRegCe, RdCe, RdEn, R, B
    <3>2. B(empty1') = D(rd, e)
      BY <1>2, <3>1 DEF D, B
    <3> QED
      BY <1>1, <2>1, <3>1, <3>2 DEF B, D
  <2>3. CASE ~RdRegCe(rd)
    <3>1. R(rd) = 0 /\ B(empty') = B(empty) /\ (RdCe(rd) <=> empty1)
      BY <1>1, <1>2, <2>3 DEF RdRegCe, RdCe, RdEn, R, B
    <3>2. B(empty1') = B(empty1) + D(rd, e)
      BY <1>1, <1>2, <3>1 DEF D, B
    <3> QED
      BY <1>1, <2>1, <3>1, <3>2 DEF B, D
  <2> QED
    BY <2>2, <2>3
<1>9. InMem' = InMem + W(wr) - D(rd, e)
  <2>1. Held' \in Int /\ R(rd) \in Int /\ W(wr) \in Int /\ D(rd, e) \in Int
    BY DEF Held, B, R, W, D
  <2>2. InMem' = status' - Held'
    BY DEF InMem
  <2> QED
    BY <1>1, <1>5, <1>8, <2>1, <2>2
<1>10. InMem' >= 2 => ~empty' /\ ~empty1'
  <2> SUFFICES ASSUME InMem' >= 2 PROVE ~empty' /\ ~empty1'
    OBVIOUS
  <2>1. CASE InMem >= 2
    BY <1>1, <1>2, <1>3, <2>1
  <2>2. CASE InMem < 2
    <3>1. W(wr) = 1 /\ D(rd, e) = 0 /\ InMem = 1
      BY <1>1, <1>9, <2>2 DEF W, D
    <3>2. ~RdCe(rd)
      BY <1>3, <3>1 DEF D
    <3> QED
      BY <1>1, <1>2, <3>2 DEF RdCe, RdRegCe
  <2> QED
    BY <1>1, <2>1, <2>2
<1>11. InMem' \in 0 .. Items - 1
  <2>1. InMem' \in Int /\ InMem' >= 0
    BY <1>1, <1>3, <1>9 DEF W, D
  <2>2. CASE InMem' >= 2
    <3>1. Held' = 2
      BY <1>10, <2>2 DEF Held, B
    <3> QED
      BY <1>5, <2>1, <3>1, ItemsAssumption DEF InMem
  <2>3. CASE InMem' < 2
    BY <2>1, <2>3, ItemsAssumption
  <2> QED
    BY <2>1, <2>2, <2>3
<1> QED
  BY <1>5, <1>6, <1>7, <1>8, <1>9, <1>10, <1>11 DEF CountInv

\* The registers hold the first words of the queue after a clock, too.
LEMMA RegStep ==
    ASSUME CtlInv, NEW e \in BOOLEAN, NEW m \in Data, MemAnswers(e, m),
           NEW wr \in BOOLEAN, NEW rd \in BOOLEAN, NEW di \in Data,
           CtlTick(wr, rd, di, e, m)
    PROVE  RegInv'
<1>1. /\ status = Len(q) /\ status \in Nat
      /\ empty \in BOOLEAN /\ empty1 \in BOOLEAN
      /\ InMem \in Nat /\ status = Held + InMem
      /\ Held = B(empty) + B(empty1)
  BY CtlFacts, ItemsAssumption
<1>2. /\ ~empty => do = q[1]
      /\ ~empty1 => out1 = q[1 + B(empty)]
      /\ InMem > 0 => m = q[Held + 1]
  BY DEF CtlInv, RegInv, MemAnswers
<1>3. /\ empty1' = IF RdCe(rd) THEN e ELSE empty1
      /\ out1' = IF RdCe(rd) THEN m ELSE out1
      /\ empty' = IF RdRegCe(rd) THEN empty1 ELSE empty
      /\ do' = IF RdRegCe(rd) THEN out1 ELSE do
  BY DEF CtlTick, OutputsTick
<1>4. /\ Len(q') = Len(q) - R(rd) + W(wr)
      /\ \A k \in 1 .. Len(q) - R(rd) : q'[k] = q[k + R(rd)]
      /\ WrEn(wr) => q'[Len(q')] = di
  BY QueueStep
<1>5. e <=> InMem = 0
  BY DEF MemAnswers
<1>6. Held' + R(rd) = Held + D(rd, e)
  BY <1>5, CountStep
<1>7. R(rd) \in {0, 1} /\ W(wr) \in {0, 1} /\ D(rd, e) \in {0, 1}
      /\ Held \in Nat /\ Held' \in Nat /\ B(empty) \in {0, 1} /\ B(empty1) \in {0, 1}
      /\ B(empty') \in {0, 1} /\ B(empty1') \in {0, 1}
  BY DEF R, W, D, Held, B
<1>8. /\ RdRegCe(rd) => R(rd) = B(empty) /\ RdCe(rd)
      /\ ~RdRegCe(rd) => R(rd) = 0 /\ ~empty
      /\ ~RdRegCe(rd) /\ RdCe(rd) => empty1
  BY <1>1 DEF RdRegCe, RdCe, RdEn, R, B
<1>9. ~empty' => do' = q'[1]
  <2> SUFFICES ASSUME ~empty' PROVE do' = q'[1]
    OBVIOUS
  <2>1. CASE RdRegCe(rd)
    <3>1. ~empty1 /\ do' = q[1 + R(rd)]
      BY <1>2, <1>3, <1>8, <2>1
    <3>2. 1 \in 1 .. Len(q) - R(rd)
      BY <1>1, <1>7, <1>8, <2>1, <3>1 DEF B
    <3> QED
      BY <1>4, <3>1, <3>2
  <2>2. CASE ~RdRegCe(rd)
    <3>1. ~empty /\ do' = q[1] /\ R(rd) = 0
      BY <1>2, <1>3, <1>8, <2>2
    <3>2. 1 \in 1 .. Len(q)
      BY <1>1, <1>7, <3>1 DEF B
    <3> QED
      BY <1>1, <1>4, <3>1, <3>2
  <2> QED
    BY <2>1, <2>2
<1>10. ~empty1' => out1' = q'[1 + B(empty')]
  <2> SUFFICES ASSUME ~empty1' PROVE out1' = q'[1 + B(empty')]
    OBVIOUS
  <2>1. CASE RdCe(rd)
    <3>1. InMem > 0 /\ out1' = q[Held + 1] /\ D(rd, e) = 1
      BY <1>1, <1>2, <1>3, <1>5, <2>1 DEF D
    <3>2. B(empty') + 1 + R(rd) = Held + 1
      <4>1. Held' = B(empty') + 1
        BY DEF Held, B
      <4> QED
        BY <1>6, <1>7, <3>1, <4>1
    <3>3. 1 + B(empty') \in 1 .. Len(q) - R(rd)
      BY <1>1, <1>7, <3>1, <3>2
    <3> QED
      BY <1>4, <1>7, <3>1, <3>2, <3>3
  <2>2. CASE ~RdCe(rd)
    <3>1. ~RdRegCe(rd) /\ ~empty1 /\ out1' = q[1 + B(empty)] /\ B(empty') = B(empty)
      BY <1>2, <1>3, <1>8, <2>2
    <3>2. 1 + B(empty) \in 1 .. Len(q)
      BY <1>1, <1>7, <3>1 DEF B
    <3> QED
      BY <1>1, <1>4, <1>8, <3>1, <3>2
  <2> QED
    BY <2>1, <2>2
<1> QED
  BY <1>9, <1>10 DEF RegInv

\* The word in place i of the memory after a clock was in place i + D before,
\* or has just been written.
LEMMA MemWordMoves ==
    ASSUME CtlInv, NEW e \in BOOLEAN, NEW m \in Data, e <=> InMem = 0,
           NEW wr \in BOOLEAN, NEW rd \in BOOLEAN, NEW di \in Data,
           CtlTick(wr, rd, di, e, m),
           NEW i \in 1 .. InMem', NEW j \in Nat, j = i + D(rd, e)
    PROVE  /\ j \in 1 .. Items /\ i \in 1 .. Items - 1
           /\ j <= InMem => q'[Held' + i] = q[Held + j]
           /\ j > InMem => j = InMem + 1 /\ WrEn(wr) /\ q'[Held' + i] = di
<1>1. /\ status = Len(q) /\ status \in Nat /\ Held \in Nat
      /\ InMem \in 0 .. Items - 1 /\ status = Held + InMem
  BY CtlFacts, ItemsAssumption
<1>2. /\ Len(q') = Len(q) - R(rd) + W(wr)
      /\ \A k \in 1 .. Len(q) - R(rd) : q'[k] = q[k + R(rd)]
      /\ WrEn(wr) => q'[Len(q')] = di
  BY QueueStep
<1>3. /\ InMem' = InMem + W(wr) - D(rd, e)
      /\ Held' + R(rd) = Held + D(rd, e)
      /\ InMem' \in 0 .. Items - 1
      /\ status' = Len(q') /\ status' = status - R(rd) + W(wr)
  BY CountStep DEF CountInv
<1>4. R(rd) \in {0, 1} /\ W(wr) \in {0, 1} /\ D(rd, e) \in {0, 1} /\ Held' \in Nat
  BY DEF R, W, D, Held, B
<1> DEFINE h == Held'
<1>5. /\ i \in Nat /\ i >= 1 /\ i <= Items - 1 /\ j >= 1 /\ j <= InMem + W(wr)
      /\ j <= Items /\ h + i + R(rd) = Held + j /\ h \in Nat
  BY <1>1, <1>3, <1>4, ItemsAssumption
<1>6. Len(q) = Held + InMem /\ InMem \in Nat
  BY <1>1, ItemsAssumption
<1>7. Len(q') = Held + InMem - R(rd) + W(wr)
  BY <1>1, <1>2, <1>4, <1>6
<1> HIDE DEF h
<1>8. ASSUME j <= InMem PROVE q'[h + i] = q[Held + j]
  <2>1. h + i \in 1 .. Len(q) - R(rd)
    BY <1>1, <1>4, <1>5, <1>6, <1>8
  <2> QED
    BY <1>2, <1>5, <2>1
<1>9. ASSUME j > InMem PROVE j = InMem + 1 /\ WrEn(wr) /\ q'[h + i] = di
  <2>1. j = InMem + 1 /\ W(wr) = 1
    BY <1>1, <1>4, <1>5, <1>6, <1>9
  <2>2. h + i = Len(q')
    BY <1>1, <1>4, <1>5, <1>6, <1>7, <2>1
  <2> QED
    BY <1>2, <2>1, <2>2 DEF W
<1> QED
  BY <1>5, <1>8, <1>9, ItemsAssumption DEF h

LEMMA CtlStep ==
    ASSUME CtlInv, NEW e \in BOOLEAN, NEW m \in Data, MemAnswers(e, m),
           NEW wr \in BOOLEAN, NEW rd \in BOOLEAN, NEW di \in Data,
           CtlTick(wr, rd, di, e, m)
    PROVE  CtlInv'
<1>1. CountInv' /\ status' \in 0 .. Items
  BY CountStep DEF MemAnswers
<1> QED
  BY <1>1, CtlTypeStep, RegStep DEF CtlInv

LEMMA CtlInitOK ==
    ASSUME CtlInit
    PROVE  CtlInv /\ InMem = 0
<1>1. /\ status = 0 /\ q = <<>> /\ empty = TRUE /\ empty1 = TRUE /\ full = FALSE
      /\ out1 \in Data /\ do \in Data
  BY DEF CtlInit
<1>2. Held = 0 /\ InMem = 0
  <2>1. B(empty) = 0 /\ B(empty1) = 0
    BY <1>1 DEF B
  <2> QED
    BY <1>1, <2>1 DEF Held, InMem
<1>3. q \in Seq(Data) /\ Len(q) = 0
  BY <1>1, EmptySeq
<1>4. status \in 0 .. Items /\ 0 \in 0 .. Items - 1 /\ status # Items
  BY <1>1, ItemsAssumption
<1>5. CtlTypeOK
  BY <1>1, <1>3, <1>4 DEF CtlTypeOK
<1>6. CountInv
  BY <1>1, <1>2, <1>3, <1>4 DEF CountInv
<1> QED
  BY <1>1, <1>2, <1>5, <1>6 DEF CtlInv, RegInv

------------------------------------------------------------------------------
(* The ports *)

FlagsOK == Fifo!Flags(q, full, empty, do)

LEMMA FlagsHold == CtlInv => FlagsOK
<1> SUFFICES ASSUME CtlInv PROVE FlagsOK
  OBVIOUS
<1>1. full = (Len(q) = Items)
  BY DEF CtlInv, CtlTypeOK, CountInv
<1>2. ASSUME ~empty PROVE q # <<>> /\ do = Head(q)
  <2>1. status > 0
    BY <1>2, CtlFacts, ItemsAssumption DEF B
  <2>2. q \in Seq(Data) /\ Len(q) > 0
    BY <2>1, CtlFacts
  <2>3. q # <<>> /\ Head(q) = q[1]
    BY <2>2, EmptySeq
  <2> QED
    BY <1>2, <2>3 DEF CtlInv, RegInv
<1> QED
  BY <1>1, <1>2 DEF FlagsOK, Fifo!Flags

LEMMA FifoStep ==
    ASSUME FlagsOK', NEW e, NEW m,
           NEW wr \in BOOLEAN, NEW rd \in BOOLEAN, NEW di \in Data,
           CtlTick(wr, rd, di, e, m)
    PROVE  Fifo!Next
<1>1. q' = Fifo!After(q, wr /\ ~full, rd /\ ~empty, di)
  BY DEF CtlTick, QueueNext, WrEn, RdEn, Fifo!After
<1>2. Fifo!Flags(q', full', empty', do')
  BY DEF FlagsOK
<1>3. ~empty /\ ~rd => ~empty'
  BY DEF CtlTick, OutputsTick, RdRegCe
<1> QED
  BY <1>1, <1>2, <1>3 DEF Fifo!Next
==============================================================================
