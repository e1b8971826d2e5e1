-------------------------- MODULE TxStartStop_proof --------------------------
(***************************************************************************)
(* Proofs about starting and stopping TX DMA channels on the one-region    *)
(* bus, for every number of channels, every set of opened channels and any *)
(* frames on the bus.                                                      *)
(***************************************************************************)
EXTENDS TxStartStop, TxHandshake_proof

\* Every word the PCIe side may present is a word.
LEMMA WordsOK ==
    ASSUME TypeOK
    PROVE  RxChoices \subseteq Words
<1>1. NoWord \in Words
  BY ChanFacts DEF NoWord, Words
<1>2. rx \in Words /\ rx.chan \in Chan
  BY DEF TypeOK, CctTypeOK, Words
<1>3. FirstWords \subseteq Words
  BY DriverAssumption, BusAssumption DEF FirstWords, LastWord, Words
<1>4. HeaderWords \subseteq Words
  BY DriverAssumption, BusAssumption DEF HeaderWords, Words
<1>5. Pauses \subseteq Words /\ LaterWords \subseteq Words
  BY <1>2 DEF Pauses, LaterWords, Words
<1> QED
  BY <1>1, <1>2, <1>3, <1>4, <1>5 DEF RxChoices

\* What one clock does on the bus; the rest is what it does on any bus.
LEMMA BusRegisters ==
    ASSUME Next
    PROVE  /\ rx' \in RxChoices
           /\ dstRdy' \in RdyChoices
           /\ pktAcc' = [c \in Chan |-> PktAccNext(c)]
           /\ DropperTick
           /\ fate' = [c \in Chan |-> FateNext(c)]
BY DEF Next, Clock, CctTick

LEMMA NextIsTick ==
    ASSUME TypeOK, Next
    PROVE  BaseTick
<1>1. pktAcc' = [c \in Chan |-> PktAccNext(c)] /\ pktAcc \in [Chan -> PktAccStates]
  BY DEF Next, Clock, CctTick, TypeOK, CctTypeOK
<1>2. \A c \in Chan : /\ PktAccNext(c) \in PktAccStates
                      /\ PktAccNext(c) = "PENDING" => pktAcc[c] = "PENDING" \/ Running(c)
  BY <1>1 DEF PktAccNext, PktAccStates
<1>3. /\ pktAcc' \in [Chan -> PktAccStates]
      /\ \A c \in Chan : pktAcc'[c] = "PENDING" => pktAcc[c] = "PENDING" \/ Running(c)
  BY <1>1, <1>2
<1> QED
  BY <1>3 DEF Next, Clock, SwmTick, CctTick, BaseTick

LEMMA TypeIsBase == TypeOK => BaseTypeOK
BY DEF TypeOK, CctTypeOK, BaseTypeOK

LEMMA TypeInit == Init => TypeOK
<1> SUFFICES ASSUME Init PROVE TypeOK
  OBVIOUS
<1>1. SwmTypeOK
  BY DEF Init, SwmInit, SwmTypeOK
<1>2. CctTypeOK
  BY ChanFacts DEF Init, CctInit, CctTypeOK, ChanStates, PktAccStates, NoWord, Words
<1> QED
  BY <1>1, <1>2 DEF Init, TypeOK, Fates

LEMMA TypeStep ==
    ASSUME TypeOK, Next
    PROVE  TypeOK'
<1>1. BaseTypeOK'
  BY NextIsTick, TypeIsBase, BaseTypeStep
<1>2. rx' \in Words /\ dstRdy' \in BOOLEAN
  BY BusRegisters, WordsOK DEF RdyChoices
<1>3. dropLv' \in BOOLEAN /\ incPkt' \in BOOLEAN
  BY BusRegisters DEF DropperTick, PktDropEn, Running, DropSof, DropEof, TypeOK, CctTypeOK
<1>4. fate' \in [Chan -> Fates]
  BY BusRegisters DEF FateNext, FateAfter, Fates, TypeOK
<1> QED
  BY <1>1, <1>2, <1>3, <1>4 DEF BaseTypeOK, TypeOK, CctTypeOK

LEMMA TypeStutter ==
    ASSUME TypeOK, UNCHANGED vars
    PROVE  TypeOK'
BY DEF vars, swmVars, cctVars, TypeOK, SwmTypeOK, CctTypeOK

\* Every register, history and wire keeps its type.
THEOREM TypeCorrect == Spec => []TypeOK
<1>1. TypeOK /\ [Next]_vars => TypeOK'
  BY TypeStep, TypeStutter
<1> QED
  BY <1>1, TypeInit, PTL DEF Spec

------------------------------------------------------------------------------
(* Handshakes and life cycle *)

LEMMA BaseStart == Init => BaseInit
BY DEF Init, CctInit, BaseInit

LEMMA BaseStutter == UNCHANGED vars => UNCHANGED baseVars
BY DEF vars, cctVars, baseVars

\* The handshake invariant holds, whatever the driver writes and whatever stalls.
THEOREM HandshakeCorrect == Spec => []HandshakeInv
<1>1. Init => HandshakeInv
  BY BaseStart, HandshakeInit
<1>2. TypeOK /\ HandshakeInv /\ [Next]_vars => HandshakeInv'
  BY NextIsTick, HandshakeStep, BaseStutter, HandshakeStutter
<1> QED
  BY <1>1, <1>2, TypeCorrect, PTL DEF Spec

\* No start or stop request is raised while its channel is not listening,
\* whatever the driver writes and whatever stalls: no request is ever lost.
THEOREM RequestsHeard == Spec => []NoRequestLost
BY Listening, HandshakeCorrect, PTL

\* The single write port of Status never has two outcomes to write.
THEOREM StatusPort == Spec => []StatusPortExclusive
BY OneOutcome, HandshakeCorrect, PTL

\* The array of enabled channels and the Status registers agree.
THEOREM EnabledAgrees == Spec => []EnabledMatchesStatus
<1>1. HandshakeInv => EnabledMatchesStatus
  BY DEF HandshakeInv
<1> QED
  BY <1>1, HandshakeCorrect, PTL

\* With at least three channels and a driver that polls Status, a stop is
\* reported only when the hardware pointers of that very channel have reached
\* the software pointers.
THEOREM StopsAreDrained ==
    ASSUME Polite, N >= 3
    PROVE  Spec => StopDrained
<1>1. Init => DrainInv
  BY BaseStart, DrainInit
<1>2. TypeOK /\ HandshakeInv /\ DrainInv /\ [Next]_vars => DrainInv'
  BY NextIsTick, DrainStep, BaseStutter, DrainStutter
<1>3. HandshakeInv /\ DrainInv => (StopAcked => stopChan \in ptrEq)
  BY StopFindsPointersEqual
<1> QED
  BY <1>1, <1>2, <1>3, TypeCorrect, HandshakeCorrect, PTL DEF Spec, StopDrained

\* Probing, handshakes, comparators and all implement the life cycle that the
\* driver relies on, whatever the driver writes, the PCIe side sends and the
\* header FIFO stalls.
THEOREM LifecycleImplemented == Spec => ImplementsLifecycle
<1>1. Init => Lifecycle!Init
  BY BaseStart, LifecycleInit
<1>2. TypeOK /\ HandshakeInv /\ HandshakeInv' /\ [Next]_vars
         => [Lifecycle!Next]_(Lifecycle!vars)
  BY NextIsTick, LifecycleStep, BaseStutter, LifecycleStutter
<1> QED
  BY <1>1, <1>2, TypeCorrect, HandshakeCorrect, PTL
     DEF Spec, Lifecycle!Spec, ImplementsLifecycle

------------------------------------------------------------------------------
(* Frames.  As long as the output never stalls, the acceptor of a channel  *)
(* and the fate of the channel's frame move together, and the dropper's    *)
(* registers follow the transaction on the bus.                            *)

InTransaction == ~rx.sof /\ (rx.vld \/ ~rx.eof)

FateInv ==
    \A c \in Chan :
        /\ pktAcc[c] = "IDLE" => fate[c] = "none"
        /\ pktAcc[c] = "PENDING" => fate[c] = "kept"
        /\ pktAcc[c] = "DROP" => fate[c] = "dropped"

BusInv ==
    /\ rx.hdr => rx.vld /\ rx.sof /\ rx.eof /\ fate[rx.chan] # "none"
    /\ rx.sof => rx.vld
    /\ InTransaction => /\ fate[rx.chan] # "none"
                       /\ (incPkt <=> fate[rx.chan] = "kept")
                       /\ (dropLv <=> fate[rx.chan] = "dropped")
    /\ ~InTransaction => ~incPkt

FrameInv ==
    /\ dstRdy
    /\ FateInv
    /\ BusInv

LEMMA FrameInit == Init => FrameInv
BY DEF Init, CctInit, FrameInv, FateInv, BusInv, InTransaction, NoWord

LEMMA WordFields ==
    ASSUME TypeOK
    PROVE  /\ rx.vld \in BOOLEAN /\ rx.sof \in BOOLEAN
           /\ rx.eof \in BOOLEAN /\ rx.hdr \in BOOLEAN
           /\ rx.chan \in Chan
BY DEF TypeOK, CctTypeOK, Words

\* Where the clock leaves the dropper and the channel of the word on the bus.
AfterWord ==
    /\ rx.eof => ~incPkt'
    /\ ~rx.eof => /\ fate'[rx.chan] # "none"
                 /\ (incPkt' <=> fate'[rx.chan] = "kept")
                 /\ (dropLv' <=> fate'[rx.chan] = "dropped")

LEMMA OtherChannels ==
    ASSUME TypeOK, FrameInv, Next, NEW c \in Chan, ~(rx.vld /\ rx.chan = c)
    PROVE  pktAcc'[c] = pktAcc[c] /\ fate'[c] = fate[c]
BY BusRegisters, WordFields DEF PktAccNext, Running, SofOn, FateNext, FateAfter, Taken, TypeOK, CctTypeOK

LEMMA IdleClock ==
    ASSUME TypeOK, FrameInv, Next, ~rx.vld
    PROVE  FateInv' /\ AfterWord
<1>1. FateInv'
  BY OtherChannels DEF FrameInv, FateInv
<1>2. (incPkt' <=> incPkt) /\ (dropLv' <=> dropLv)
  BY BusRegisters DEF DropperTick, FrameInv
<1>3. ~rx.sof /\ (InTransaction <=> ~rx.eof)
  BY DEF FrameInv, BusInv, InTransaction
<1>4. fate'[rx.chan] = fate[rx.chan]
  BY OtherChannels, WordFields
<1> QED
  BY <1>1, <1>2, <1>3, <1>4 DEF FrameInv, BusInv, AfterWord

LEMMA WordClock ==
    ASSUME TypeOK, FrameInv, Next, rx.vld
    PROVE  FateInv' /\ AfterWord
<1> DEFINE c == rx.chan
<1>1. c \in Chan /\ Taken /\ dstRdy
  BY WordFields DEF FrameInv, Taken
<1>2. /\ fate'[c] = FateNext(c)
      /\ pktAcc'[c] = PktAccNext(c)
      /\ pktAcc[c] \in PktAccStates
  BY <1>1, BusRegisters DEF TypeOK, CctTypeOK
<1>3. /\ FateInv!(c)
      /\ rx.sof \in BOOLEAN /\ rx.eof \in BOOLEAN /\ rx.hdr \in BOOLEAN
  BY <1>1, WordFields DEF FrameInv, FateInv
<1>4. /\ (incPkt' <=> \/ DropSof /\ (DropEof <=> incPkt)
                      \/ ~DropSof /\ ~DropEof /\ incPkt)
      /\ (dropLv' <=> IF rx.sof THEN PktDropEn ELSE dropLv)
  BY <1>1, BusRegisters DEF DropperTick, PktDropEn, Running, DropSof, DropEof
<1>5. SofOn(c) <=> rx.sof
  BY <1>3 DEF SofOn
<1>6. PktDropEn <=> (/\ rx.sof
                   /\ \/ pktAcc[c] = "DROP"
                      \/ pktAcc[c] = "IDLE" /\ ~rx.hdr /\ chanState[c] # "RUNNING")
  BY <1>5 DEF PktDropEn, Running
<1>7. CASE rx.sof /\ rx.hdr
  <2>1. rx.eof /\ ~incPkt /\ pktAcc[c] # "IDLE"
    BY <1>3, <1>7 DEF FrameInv, BusInv, InTransaction
  <2>2. Kept <=> pktAcc[c] = "PENDING"
    BY <1>2, <1>6, <1>7, <2>1 DEF Kept, DropSof, PktAccStates
  <2>3. fate'[c] = "none"
    BY <1>1, <1>2, <1>3, <1>7, <2>1, <2>2 DEF FateNext, FateAfter, PktAccStates
  <2>4. pktAcc'[c] = "IDLE"
    BY <1>2, <1>5, <1>7 DEF PktAccNext, Running
  <2>5. ~incPkt'
    BY <1>4, <1>7, <2>1 DEF DropSof, DropEof
  <2> QED
    BY <2>1, <2>3, <2>4, <2>5, OtherChannels DEF AfterWord, FrameInv, FateInv
<1>8. CASE rx.sof /\ ~rx.hdr
  <2>1. ~incPkt
    BY <1>8 DEF FrameInv, BusInv, InTransaction
  <2>2. Kept <=> pktAcc'[c] = "PENDING"
    BY <1>2, <1>5, <1>6, <1>8, <2>1 DEF Kept, DropSof, PktAccNext, Running, PktAccStates
  <2>3. fate'[c] = IF pktAcc'[c] = "PENDING" THEN "kept" ELSE "dropped"
    BY <1>1, <1>2, <1>3, <1>5, <1>8, <2>2 DEF FateNext, FateAfter, PktAccNext, Running, PktAccStates
  <2>4. pktAcc'[c] \in {"PENDING", "DROP"}
    BY <1>2, <1>5, <1>8 DEF PktAccNext, Running, PktAccStates
  <2>5. FateInv'
    BY <2>3, <2>4, OtherChannels DEF FrameInv, FateInv
  <2>6. DropSof <=> pktAcc'[c] = "PENDING"
    BY <2>1, <2>2, <1>8 DEF Kept, DropSof
  <2>7. AfterWord
    BY <1>4, <1>8, <2>1, <2>3, <2>4, <2>6 DEF AfterWord, DropSof, DropEof
  <2> QED
    BY <2>5, <2>7
<1>9. CASE ~rx.sof
  <2>1. InTransaction /\ ~rx.hdr
    BY <1>9 DEF FrameInv, BusInv, InTransaction
  <2>2. /\ fate[c] # "none"
        /\ (incPkt <=> fate[c] = "kept")
        /\ (dropLv <=> fate[c] = "dropped")
    BY <2>1 DEF FrameInv, BusInv
  <2>3. pktAcc'[c] = pktAcc[c]
    BY <1>2, <1>5, <1>9 DEF PktAccNext, Running
  <2>4. Kept <=> fate[c] = "kept"
    BY <1>9, <2>2 DEF Kept, DropSof
  <2>5. fate'[c] = fate[c]
    BY <1>1, <1>2, <1>3, <2>1, <2>2, <2>4 DEF FateNext, FateAfter, PktAccStates
  <2>6. FateInv'
    BY <2>3, <2>5, OtherChannels DEF FrameInv, FateInv
  <2>7. DropEof <=> rx.eof /\ fate[c] # "dropped"
    BY <1>9, <2>2 DEF DropEof
  <2>8. incPkt' <=> ~rx.eof /\ fate[c] = "kept"
    BY <1>2, <1>3, <1>4, <1>9, <2>2, <2>7 DEF DropSof, PktAccStates
  <2>9. dropLv' <=> fate[c] = "dropped"
    BY <1>4, <1>9, <2>2
  <2>10. AfterWord
    BY <2>2, <2>5, <2>8, <2>9 DEF AfterWord
  <2> QED
    BY <2>6, <2>10
<1> QED
  BY <1>3, <1>7, <1>8, <1>9

LEMMA FrameStep ==
    ASSUME ~MayStall, TypeOK, FrameInv, Next
    PROVE  FrameInv'
<1>1. dstRdy'
  BY BusRegisters DEF RdyChoices
<1>2. FateInv' /\ AfterWord
  BY IdleClock, WordClock
<1>3. BusInv'
  <2>1. CASE rx.eof
    <3>1. rx' \in {NoWord} \cup FirstWords \cup HeaderWords
      BY <2>1, BusRegisters DEF RxChoices, FrameInv
    <3>2. rx' \in HeaderWords => fate'[rx'.chan] # "none"
      BY BusRegisters, DriverAssumption, BusAssumption DEF HeaderWords
    <3>3. CASE rx' = NoWord
      <4>1. ~rx'.vld /\ ~rx'.sof /\ rx'.eof /\ ~rx'.hdr
        BY <3>3 DEF NoWord
      <4> QED
        BY <1>2, <2>1, <4>1 DEF BusInv, AfterWord, InTransaction
    <3>4. CASE rx' \in FirstWords
      <4>1. rx'.vld /\ rx'.sof /\ ~rx'.hdr
        BY <3>4 DEF FirstWords
      <4> QED
        BY <1>2, <2>1, <4>1 DEF BusInv, AfterWord, InTransaction
    <3>5. CASE rx' \in HeaderWords
      <4>1. rx'.vld /\ rx'.sof /\ rx'.eof
        BY <3>5 DEF HeaderWords
      <4> QED
        BY <1>2, <2>1, <3>2, <3>5, <4>1 DEF BusInv, AfterWord, InTransaction
    <3> QED
      BY <3>1, <3>3, <3>4, <3>5
  <2>2. CASE ~rx.eof
    <3>1. rx' \in Pauses \cup LaterWords
      BY <2>2, BusRegisters DEF RxChoices, FrameInv
    <3>2. InTransaction' /\ rx'.chan = rx.chan /\ ~rx'.hdr /\ ~rx'.sof
      BY <3>1 DEF InTransaction, Pauses, LaterWords
    <3> QED
      BY <1>2, <2>2, <3>2 DEF BusInv, AfterWord
  <2> QED
    BY <2>1, <2>2
<1> QED
  BY <1>1, <1>2, <1>3 DEF FrameInv

\* The frame invariant holds as long as the header FIFO takes every word.
THEOREM FramesTracked ==
    ASSUME ~MayStall
    PROVE  Spec => []FrameInv
<1>1. TypeOK /\ FrameInv /\ [Next]_vars => FrameInv'
  <2>1. ASSUME FrameInv, UNCHANGED vars PROVE FrameInv'
    BY <2>1 DEF vars, cctVars, FrameInv, FateInv, BusInv, InTransaction
  <2> QED
    BY <2>1, FrameStep
<1> QED
  BY <1>1, TypeCorrect, FrameInit, PTL DEF Spec

\* While the header FIFO takes every word, a frame of any number of PCIe
\* transactions is kept whole or dropped whole.
THEOREM FramesWhole ==
    ASSUME ~MayStall
    PROVE  Spec => []FrameWhole
<1>1. TypeOK /\ FrameInv => FrameWhole
  BY DEF TypeOK, CctTypeOK, FrameInv, FateInv, FrameWhole, PktAccStates
<1> QED
  BY <1>1, TypeCorrect, FramesTracked, PTL

\* Under the same condition every dropped frame is counted, and counted once.
THEOREM DiscardsCounted ==
    ASSUME ~MayStall
    PROVE  Spec => []DiscardCounted
<1>1. TypeOK /\ FrameInv => DiscardCounted
  BY WordFields DEF TypeOK, CctTypeOK, FrameInv, FateInv, BusInv, DiscardCounted,
                    PktDiscInc, Taken, PktAccStates
<1> QED
  BY <1>1, TypeCorrect, FramesTracked, PTL
==============================================================================
