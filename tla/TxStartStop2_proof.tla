------------------------- MODULE TxStartStop2_proof --------------------------
(***************************************************************************)
(* Proofs about starting and stopping TX DMA channels on the two-region    *)
(* bus, for every number of channels, every set of opened channels and any *)
(* packing of transactions into words.                                     *)
(***************************************************************************)
EXTENDS TxStartStop2, TxHandshake_proof

LEMMA BegunOK ==
    ASSUME TypeOK, NEW i \in Regions, NEW begun \in SUBSET Chan
    PROVE  BegunAfter(begun, rx.r[i]) \subseteq Chan
BY DEF BegunAfter, TypeOK, CctTypeOK, Region

LEMMA GapIsRegion == Gap \in Region
BY ChanFacts DEF Gap, Region

\* Every region the PCIe side may fill is a region.
LEMMA RegionsOK ==
    ASSUME NEW t \in Chan \cup {N}, NEW begun \in SUBSET Chan
    PROVE  RegionChoices(t, begun) \subseteq Region
BY GapIsRegion, DriverAssumption DEF RegionChoices, Region

LEMMA AfterRegion ==
    ASSUME NEW t \in Chan \cup {N}, NEW begun \in SUBSET Chan, NEW r \in Region
    PROVE  /\ TailAfter(t, r) \in Chan \cup {N}
           /\ BegunAfter(begun, r) \in SUBSET Chan
BY DEF TailAfter, BegunAfter, Region

LEMMA WordChoicesOK ==
    ASSUME NEW t \in Chan \cup {N}, NEW begun \in SUBSET Chan,
           NEW w \in WordChoices(t, begun)
    PROVE  /\ w \in [vld : BOOLEAN, r : [Regions -> Region]]
           /\ w.vld
           /\ w.r[0] \in RegionChoices(t, begun)
           /\ w.r[1] \in RegionChoices(TailAfter(t, w.r[0]), BegunAfter(begun, w.r[0]))
<1>0. PICK r0 \in RegionChoices(t, begun) :
           \E r1 \in RegionChoices(TailAfter(t, r0), BegunAfter(begun, r0)) :
               w = [vld |-> TRUE, r |-> [i \in Regions |-> IF i = 0 THEN r0 ELSE r1]]
  BY DEF WordChoices
<1>1. PICK r1 \in RegionChoices(TailAfter(t, r0), BegunAfter(begun, r0)) :
           w = [vld |-> TRUE, r |-> [i \in Regions |-> IF i = 0 THEN r0 ELSE r1]]
  BY <1>0
<1>2. r0 \in Region
  BY RegionsOK
<1>3. r1 \in Region
  BY <1>2, AfterRegion, RegionsOK
<1>4. w.vld /\ w.r = [i \in Regions |-> IF i = 0 THEN r0 ELSE r1]
  BY <1>1
<1>5. w.r[0] = r0 /\ w.r[1] = r1
  BY <1>4 DEF Regions
<1>6. [i \in Regions |-> IF i = 0 THEN r0 ELSE r1] \in [Regions -> Region]
  BY <1>2, <1>3
<1>7. w \in [vld : BOOLEAN, r : [Regions -> Region]]
  BY <1>1, <1>6
<1> QED
  BY <1>4, <1>5, <1>7

LEMMA NoWordOK ==
    /\ NoWord \in [vld : BOOLEAN, r : [Regions -> Region]]
    /\ NoWord.vld = FALSE
BY GapIsRegion DEF NoWord

\* What one clock does on the bus; the rest is what it does on any bus.
LEMMA BusRegisters ==
    ASSUME Next
    PROVE  /\ rx' \in RxChoices
           /\ dstRdy' \in RdyChoices
           /\ pktAcc' = [c \in Chan |-> PktAccNext(c)]
           /\ DropperTick
           /\ fate' = FateNext
           /\ tail' = TailNext
BY DEF Next, Clock, CctTick

LEMMA WordFields ==
    ASSUME TypeOK, NEW i \in Regions
    PROVE  /\ rx.vld \in BOOLEAN
           /\ rx.r[i] \in Region
           /\ rx.r[i].used \in BOOLEAN /\ rx.r[i].hdr \in BOOLEAN
           /\ rx.r[i].sof \in BOOLEAN /\ rx.r[i].eof \in BOOLEAN
           /\ rx.r[i].chan \in Chan
BY DEF TypeOK, CctTypeOK, Region

LEMMA TailOK ==
    ASSUME TypeOK
    PROVE  TailNext \in Chan \cup {N}
<1>1. rx.r[0] \in Region /\ rx.r[1] \in Region
  BY WordFields DEF Regions
<1>2. \A t \in Chan \cup {N}, r \in Region : TailAfter(t, r) \in Chan \cup {N}
  BY DEF TailAfter, Region
<1> QED
  BY <1>1, <1>2 DEF TailNext, TypeOK

LEMMA NextIsTick ==
    ASSUME TypeOK, Next
    PROVE  BaseTick
<1>1. pktAcc' = [c \in Chan |-> PktAccNext(c)] /\ pktAcc \in [Chan -> PktAccStates]
  BY DEF Next, Clock, CctTick, TypeOK, CctTypeOK
<1>2. \A c \in Chan : /\ PktAccNext(c) \in PktAccStates
                      /\ PktAccNext(c) = "PENDING" => pktAcc[c] = "PENDING" \/ Running(c)
  BY <1>1 DEF PktAccNext, Fresh, PktAccStates
<1>3. /\ pktAcc' \in [Chan -> PktAccStates]
      /\ \A c \in Chan : pktAcc'[c] = "PENDING" => pktAcc[c] = "PENDING" \/ Running(c)
  BY <1>1, <1>2
<1> QED
  BY <1>3 DEF Next, Clock, SwmTick, CctTick, BaseTick

LEMMA TypeIsBase == TypeOK => BaseTypeOK
BY DEF TypeOK, CctTypeOK, BaseTypeOK

LEMMA TypeInit == Init => TypeOK
<1> SUFFICES ASSUME Init PROVE TypeOK
  OBVIOUS
<1>1. SwmTypeOK
  BY DEF Init, SwmInit, SwmTypeOK
<1>2. CctTypeOK
  BY NoWordOK DEF Init, CctInit, CctTypeOK, ChanStates, PktAccStates
<1> QED
  BY <1>1, <1>2 DEF Init, TypeOK, Fates

LEMMA FatesOK ==
    ASSUME NEW i \in Regions, NEW f \in [Chan -> Fates]
    PROVE  FateAfterRegion(i, f) \in [Chan -> Fates]
BY DEF FateAfterRegion, FateAfter, Fates

LEMMA RxOK ==
    ASSUME TypeOK
    PROVE  RxChoices \subseteq [vld : BOOLEAN, r : [Regions -> Region]]
<1>1. rx \in [vld : BOOLEAN, r : [Regions -> Region]]
  BY DEF TypeOK, CctTypeOK
<1>2. {c \in Chan : FateNext[c] # "none"} \in SUBSET Chan
  OBVIOUS
<1>3. WordChoices(TailNext, {c \in Chan : FateNext[c] # "none"})
         \subseteq [vld : BOOLEAN, r : [Regions -> Region]]
  BY <1>2, TailOK, WordChoicesOK
<1> QED
  BY <1>1, <1>3, NoWordOK DEF RxChoices

LEMMA TypeStep ==
    ASSUME TypeOK, Next
    PROVE  TypeOK'
<1>1. BaseTypeOK'
  BY NextIsTick, TypeIsBase, BaseTypeStep
<1>2. rx' \in [vld : BOOLEAN, r : [Regions -> Region]]
  BY BusRegisters, RxOK
<1>3. dstRdy' \in BOOLEAN
  BY BusRegisters DEF RdyChoices
<1>4. dropLv' \in BOOLEAN /\ incPkt' \in BOOLEAN
  <2>1. dropLv \in BOOLEAN /\ incPkt \in BOOLEAN
    BY DEF TypeOK, CctTypeOK
  <2>2. \A i \in Regions : PktDropEn(i) \in BOOLEAN
    BY DEF PktDropEn, ChanPktDropEn
  <2>3. \A i \in Regions, lv \in BOOLEAN : LvAfter(i, lv) \in BOOLEAN
    BY <2>2 DEF LvAfter
  <2>4. \A i, lv, inc : IncAfter(i, lv, inc) \in BOOLEAN
    BY DEF IncAfter
  <2> QED
    BY <2>1, <2>3, <2>4, BusRegisters DEF DropperTick, MidLv, Regions
<1>5. fate' \in [Chan -> Fates]
  <2>1. MidFate \in [Chan -> Fates]
    BY FatesOK DEF MidFate, TypeOK, Regions
  <2> QED
    BY <2>1, BusRegisters, FatesOK DEF FateNext, TypeOK, Regions
<1>6. tail' \in Chan \cup {N}
  BY BusRegisters, TailOK
<1> QED
  BY <1>1, <1>2, <1>3, <1>4, <1>5, <1>6 DEF BaseTypeOK, TypeOK, CctTypeOK

LEMMA TypeStutter ==
    ASSUME TypeOK, UNCHANGED vars
    PROVE  TypeOK'
BY DEF vars, swmVars, cctVars, TypeOK, SwmTypeOK, CctTypeOK

\* Every register, history and wire keeps its type.
THEOREM TypeCorrect == Spec => []TypeOK
<1>1. TypeOK /\ [Next]_vars => TypeOK'
  BY TypeStep, TypeStutter
<1> QED
  BY <1>1, TypeInit, PTL DEF Spec

------------------------------------------------------------------------------
(* Handshakes and life cycle *)

LEMMA BaseStart == Init => BaseInit
BY DEF Init, CctInit, BaseInit

LEMMA BaseStutter == UNCHANGED vars => UNCHANGED baseVars
BY DEF vars, cctVars, baseVars

\* The handshake invariant holds, whatever the driver writes and whatever stalls.
THEOREM HandshakeCorrect == Spec => []HandshakeInv
<1>1. Init => HandshakeInv
  BY BaseStart, HandshakeInit
<1>2. TypeOK /\ HandshakeInv /\ [Next]_vars => HandshakeInv'
  BY NextIsTick, HandshakeStep, BaseStutter, HandshakeStutter
<1> QED
  BY <1>1, <1>2, TypeCorrect, PTL DEF Spec

\* On the two-region bus, too, no start or stop request is ever lost.
THEOREM RequestsHeard == Spec => []NoRequestLost
BY Listening, HandshakeCorrect, PTL

\* The single write port of Status never has two outcomes to write, and the
\* array of enabled channels agrees with Status.
THEOREM StatusPort == Spec => [](StatusPortExclusive /\ EnabledMatchesStatus)
<1>1. HandshakeInv => StatusPortExclusive /\ EnabledMatchesStatus
  BY OneOutcome DEF HandshakeInv
<1> QED
  BY <1>1, HandshakeCorrect, PTL

\* With at least three channels and a driver that polls Status, a stop is
\* reported only when the hardware pointers of that very channel have reached
\* the software pointers.
THEOREM StopsAreDrained ==
    ASSUME Polite, N >= 3
    PROVE  Spec => [](StopAcked => stopChan \in ptrEq)
<1>1. Init => DrainInv
  BY BaseStart, DrainInit
<1>2. TypeOK /\ HandshakeInv /\ DrainInv /\ [Next]_vars => DrainInv'
  BY NextIsTick, DrainStep, BaseStutter, DrainStutter
<1>3. HandshakeInv /\ DrainInv => (StopAcked => stopChan \in ptrEq)
  BY StopFindsPointersEqual
<1> QED
  BY <1>1, <1>2, <1>3, TypeCorrect, HandshakeCorrect, PTL DEF Spec

\* The two-region start/stop logic implements the life cycle of the channels,
\* although a frame may end and the next one begin in one word.
THEOREM LifecycleImplemented == Spec => ImplementsLifecycle
<1>1. Init => Lifecycle!Init
  BY BaseStart, LifecycleInit
<1>2. TypeOK /\ HandshakeInv /\ HandshakeInv' /\ [Next]_vars
         => [Lifecycle!Next]_(Lifecycle!vars)
  BY NextIsTick, LifecycleStep, BaseStutter, LifecycleStutter
<1> QED
  BY <1>1, <1>2, TypeCorrect, HandshakeCorrect, PTL
     DEF Spec, Lifecycle!Spec, ImplementsLifecycle

------------------------------------------------------------------------------
(* Frames.  As long as the output never stalls, the acceptor of a channel  *)
(* and the fate of the channel's frame move together over both regions of  *)
(* a word, and the dropper's registers follow the transaction that is open *)
(* between two words.                                                      *)

FateInv ==
    \A c \in Chan :
        /\ pktAcc[c] = "IDLE" => fate[c] = "none"
        /\ pktAcc[c] = "PENDING" => fate[c] = "kept"
        /\ pktAcc[c] = "DROP" => fate[c] = "dropped"

\* The channels whose frame has begun, if the fates are f.
Begun(f) == {c \in Chan : f[c] # "none"}

WordInv == rx.vld => rx \in WordChoices(tail, Begun(fate))

\* The dropper's registers lv and inc agree with the fate of the frame whose
\* transaction is open.
DropperOK(f, t, lv, inc) ==
    /\ t \in Chan => /\ f[t] # "none"
                     /\ inc <=> f[t] = "kept"
                     /\ lv <=> f[t] = "dropped"
    /\ t \notin Chan => ~inc

FrameInv ==
    /\ dstRdy
    /\ FateInv
    /\ WordInv
    /\ DropperOK(fate, tail, dropLv, incPkt)

LEMMA FrameInit == Init => FrameInv
<1> SUFFICES ASSUME Init PROVE FrameInv
  OBVIOUS
<1>1. tail \notin Chan
  BY NAssumption DEF Init, Chan
<1>2. ~rx.vld
  BY NoWordOK DEF Init, CctInit
<1> QED
  BY <1>1, <1>2 DEF Init, CctInit, FrameInv, FateInv, WordInv, DropperOK

Settled == {"none", "kept", "dropped"}

\* What becomes of the fates f in region i, once it is known that the dropper
\* keeps what it has begun to keep and drops what it has begun to drop.
FateMoved(i, f) ==
    [c \in Chan |-> IF SofOn(c, i)
                    THEN IF HdrOn(c, i) THEN "none"
                         ELSE IF ChanPktDropEn(c, i) THEN "dropped" ELSE "kept"
                    ELSE f[c]]

\* The decision about region i does not split a frame that was f before it.
DecisionOK(i, f) ==
    rx.r[i].sof => /\ f[rx.r[i].chan] = "kept" => ~PktDropEn(i)
                   /\ f[rx.r[i].chan] = "dropped" => PktDropEn(i)

LEMMA RegionShape ==
    ASSUME NEW t, NEW begun, NEW r \in RegionChoices(t, begun)
    PROVE  /\ t \in Chan => r.used /\ r.chan = t /\ ~r.hdr /\ ~r.sof
           /\ t \notin Chan /\ r.used => r.sof /\ (r.hdr => r.eof /\ r.chan \in begun)
           /\ ~r.used => r = Gap /\ ~r.sof /\ ~r.hdr
<1>1. CASE t \in Chan
  BY <1>1 DEF RegionChoices
<1>2. CASE t \notin Chan
  <2>1. CASE r = Gap
    <3>1. ~Gap.used /\ ~Gap.sof /\ ~Gap.hdr
      BY DEF Gap
    <3> QED
      BY <1>2, <2>1, <3>1
  <2>2. CASE r \in [used : {TRUE}, chan : Sending, hdr : {FALSE}, sof : {TRUE}, eof : BOOLEAN]
    BY <1>2, <2>2
  <2>3. CASE r \in [used : {TRUE}, chan : begun, hdr : {TRUE}, sof : {TRUE}, eof : {TRUE}]
    BY <1>2, <2>3
  <2> QED
    BY <1>2, <2>1, <2>2, <2>3 DEF RegionChoices
<1> QED
  BY <1>1, <1>2

\* One region: the dropper goes on with what it began, its registers follow.
LEMMA RegionStep ==
    ASSUME TypeOK, NEW i \in Regions, NEW f \in [Chan -> Settled],
           NEW t \in Chan \cup {N}, NEW lv \in BOOLEAN, NEW inc \in BOOLEAN,
           DropperOK(f, t, lv, inc),
           rx.r[i] \in RegionChoices(t, Begun(f)),
           DecisionOK(i, f),
           RegionKept(i) <=> DropSof(i) \/ inc
    PROVE  /\ FateAfterRegion(i, f) = FateMoved(i, f)
           /\ FateMoved(i, f) \in [Chan -> Settled]
           /\ DropperOK(FateMoved(i, f), TailAfter(t, rx.r[i]),
                        LvAfter(i, lv), IncAfter(i, lv, inc))
<1> DEFINE c == rx.r[i].chan
<1>1. /\ rx.r[i].used \in BOOLEAN /\ rx.r[i].hdr \in BOOLEAN
      /\ rx.r[i].sof \in BOOLEAN /\ rx.r[i].eof \in BOOLEAN
      /\ c \in Chan
  BY WordFields
<1>2. PktDropEn(i) \in BOOLEAN /\ PktDropEn(i) = ChanPktDropEn(c, i)
  BY DEF PktDropEn, ChanPktDropEn
<1>3. N \notin Chan
  BY NAssumption DEF Chan
<1>4. FateMoved(i, f) \in [Chan -> Settled]
  BY DEF FateMoved, Settled
<1>5. FateAfterRegion(i, f) =
        [d \in Chan |-> IF rx.r[i].used /\ c = d
                        THEN FateAfter(f[d], DropSof(i) \/ inc, rx.r[i].hdr) ELSE f[d]]
  BY DEF FateAfterRegion, FateAfter
<1>6. CASE t \in Chan
  <2>1. /\ rx.r[i].used /\ c = t /\ ~rx.r[i].hdr /\ ~rx.r[i].sof
    BY <1>6, RegionShape
  <2>2. /\ f[t] \in {"kept", "dropped"}
        /\ (inc <=> f[t] = "kept") /\ (lv <=> f[t] = "dropped")
    BY <1>6 DEF DropperOK, Settled
  <2>3. FateMoved(i, f) = f
    BY <2>1 DEF FateMoved, SofOn
  <2>4. ~DropSof(i)
    BY <2>1 DEF DropSof
  <2>5. FateAfterRegion(i, f) = f
    <3>1. DropSof(i) \/ inc <=> inc
      BY <2>4
    <3>2. inc \in BOOLEAN /\ (DropSof(i) \/ inc) \in BOOLEAN
      BY DEF DropSof
    <3>3. FateAfter(f[t], DropSof(i) \/ inc, rx.r[i].hdr) = f[t]
      BY <2>1, <2>2, <3>1 DEF FateAfter
    <3> QED
      BY <1>5, <2>1, <3>3
  <2>7. LvAfter(i, lv) = lv
    BY <2>1 DEF LvAfter
  <2>8. IncAfter(i, lv, inc) <=> ~(rx.r[i].eof /\ ~lv) /\ inc
    BY <2>4, <2>7 DEF IncAfter
  <2>9. DropperOK(f, TailAfter(t, rx.r[i]), lv, IncAfter(i, lv, inc))
    BY <1>1, <1>3, <2>1, <2>2, <2>8 DEF DropperOK, TailAfter
  <2> QED
    BY <1>4, <2>3, <2>5, <2>7, <2>9
<1>7. CASE t \notin Chan
  <2>1. ~inc
    BY <1>7 DEF DropperOK
  <2>2. CASE ~rx.r[i].used
    <3>1. ~rx.r[i].used /\ ~rx.r[i].sof
      BY <2>2, RegionShape
    <3>2. FateMoved(i, f) = f /\ FateAfterRegion(i, f) = f
      BY <1>5, <3>1 DEF FateMoved, SofOn
    <3>3. ~IncAfter(i, lv, inc)
      BY <2>1, <3>1 DEF IncAfter, DropSof
    <3>4. TailAfter(t, rx.r[i]) = t
      BY <3>1 DEF TailAfter
    <3> QED
      BY <1>4, <1>7, <3>2, <3>3, <3>4 DEF DropperOK
  <2>3. CASE rx.r[i].used
    <3>1. /\ rx.r[i].used /\ rx.r[i].sof
          /\ rx.r[i].hdr => rx.r[i].eof /\ f[c] # "none"
      BY <1>7, <2>3, RegionShape DEF Begun
    <3>2. DropSof(i) <=> ~PktDropEn(i)
      BY <3>1 DEF DropSof
    <3>3. FateMoved(i, f) =
            [d \in Chan |-> IF c = d
                            THEN IF rx.r[i].hdr THEN "none"
                                 ELSE IF PktDropEn(i) THEN "dropped" ELSE "kept"
                            ELSE f[d]]
      BY <1>1, <1>2, <3>1 DEF FateMoved, SofOn, HdrOn
    <3>4. /\ f[c] \in Settled
          /\ f[c] = "kept" => ~PktDropEn(i)
          /\ f[c] = "dropped" => PktDropEn(i)
      BY <1>1, <3>1 DEF DecisionOK
    <3>5. FateAfter(f[c], DropSof(i) \/ inc, rx.r[i].hdr) =
            IF rx.r[i].hdr THEN "none" ELSE IF PktDropEn(i) THEN "dropped" ELSE "kept"
      BY <1>1, <1>2, <2>1, <3>2, <3>4 DEF FateAfter, Settled
    <3>6. FateAfterRegion(i, f) = FateMoved(i, f)
      BY <1>5, <3>1, <3>3, <3>5
    <3>7. LvAfter(i, lv) <=> PktDropEn(i)
      BY <3>1 DEF LvAfter
    <3>8. IncAfter(i, lv, inc) <=> ~PktDropEn(i) /\ ~rx.r[i].eof
      BY <1>1, <1>2, <2>1, <3>2, <3>7 DEF IncAfter
    <3>9. TailAfter(t, rx.r[i]) = IF rx.r[i].eof THEN N ELSE c
      BY <3>1 DEF TailAfter
    <3>10. ~rx.r[i].eof => FateMoved(i, f)[c] = IF PktDropEn(i) THEN "dropped" ELSE "kept"
      BY <1>1, <3>1, <3>3
    <3>11. DropperOK(FateMoved(i, f), TailAfter(t, rx.r[i]),
                     LvAfter(i, lv), IncAfter(i, lv, inc))
      BY <1>1, <1>2, <1>3, <3>7, <3>8, <3>9, <3>10 DEF DropperOK
    <3> QED
      BY <1>4, <3>6, <3>11
  <2> QED
    BY <2>2, <2>3
<1> QED
  BY <1>6, <1>7

\* A channel whose header is in the word has no header behind it: its frame
\* would have no data.
LEMMA HeaderHasData ==
    ASSUME TypeOK, NEW i \in Regions, NEW t \in Chan \cup {N}, NEW f,
           rx.r[i] \in RegionChoices(t, Begun(f)), rx.r[i].hdr
    PROVE  f[rx.r[i].chan] # "none"
<1>1. t \notin Chan /\ rx.r[i].used
  BY RegionShape
<1> QED
  BY <1>1, RegionShape DEF Begun

LEMMA BegunMoved ==
    ASSUME TypeOK, NEW t \in Chan \cup {N}, NEW f \in [Chan -> Settled],
           t \in Chan => f[t] # "none",
           rx.r[0] \in RegionChoices(t, Begun(f))
    PROVE  BegunAfter(Begun(f), rx.r[0]) = Begun(FateMoved(0, f))
<1> DEFINE c == rx.r[0].chan
<1>1. /\ rx.r[0].used \in BOOLEAN /\ rx.r[0].hdr \in BOOLEAN
      /\ rx.r[0].sof \in BOOLEAN /\ c \in Chan
  BY WordFields DEF Regions
<1>2. CASE rx.r[0].sof
  <2>1. rx.r[0].used
    BY <1>2, RegionShape
  <2>2. \A d \in Chan : FateMoved(0, f)[d] # "none" <=>
                          IF d = c THEN ~rx.r[0].hdr ELSE f[d] # "none"
    BY <1>1, <1>2 DEF FateMoved, SofOn, HdrOn
  <2> QED
    BY <1>1, <2>1, <2>2 DEF BegunAfter, Begun
<1>3. CASE ~rx.r[0].sof
  <2>1. FateMoved(0, f) = f
    BY <1>3 DEF FateMoved, SofOn
  <2>2. ~rx.r[0].used \/ (~rx.r[0].hdr /\ c = t /\ t \in Chan)
    BY <1>3, RegionShape
  <2> QED
    BY <1>1, <2>1, <2>2 DEF BegunAfter, Begun
<1> QED
  BY <1>2, <1>3

LEMMA FatesSettled ==
    ASSUME TypeOK, FateInv
    PROVE  fate \in [Chan -> Settled]
<1>1. \A c \in Chan : pktAcc[c] \in PktAccStates
  BY DEF TypeOK, CctTypeOK
<1>2. \A c \in Chan : fate[c] \in Settled
  BY <1>1 DEF FateInv, PktAccStates, Settled
<1> QED
  BY <1>2 DEF TypeOK

\* What the acceptor of a channel decides in a valid word, region by region.
LEMMA Decisions ==
    ASSUME rx.vld, NEW c \in Chan
    PROVE  /\ ChanPktDropEn(c, 0) <=> \/ pktAcc[c] = "IDLE" /\ WordOn(c) /\ ~Running(c)
                                      \/ pktAcc[c] = "DROP"
           /\ ChanPktDropEn(c, 1) <=>
                \/ pktAcc[c] = "IDLE" /\ WordOn(c) /\ ~Running(c)
                \/ pktAcc[c] = "PENDING" /\ HdrOn(c, 0) /\ SofOn(c, 1) /\ ~Running(c)
                \/ pktAcc[c] = "DROP" /\ ~(HdrOn(c, 0) /\ SofOn(c, 1) /\ Running(c))
           /\ WordOn(c) <=> SofOn(c, 0) \/ SofOn(c, 1)
           /\ HdrOn(c, 0) => SofOn(c, 0)
           /\ HdrOn(c, 1) => SofOn(c, 1)
BY DEF ChanPktDropEn, WordOn, Restart, Regions, HdrOn

LEMMA FirstDecision ==
    ASSUME TypeOK, FrameInv, rx.vld
    PROVE  DecisionOK(0, fate)
<1> DEFINE c == rx.r[0].chan
<1> SUFFICES ASSUME rx.r[0].sof
             PROVE  /\ fate[c] = "kept" => ~ChanPktDropEn(c, 0)
                    /\ fate[c] = "dropped" => ChanPktDropEn(c, 0)
  BY DEF DecisionOK, PktDropEn
<1>1. c \in Chan /\ pktAcc[c] \in PktAccStates
  BY WordFields DEF Regions, TypeOK, CctTypeOK
<1> QED
  BY <1>1, Decisions DEF FrameInv, FateInv, PktAccStates

\* What is known of channel c between the two regions of a word.
LEMMA Between ==
    ASSUME TypeOK, FrameInv, rx.vld, NEW c \in Chan,
           HdrOn(c, 0) => fate[c] # "none"
    PROVE  FateMoved(0, fate)[c] =
             IF SofOn(c, 0)
             THEN IF HdrOn(c, 0) THEN "none"
                  ELSE IF pktAcc[c] = "DROP" \/ (pktAcc[c] = "IDLE" /\ ~Running(c))
                       THEN "dropped" ELSE "kept"
             ELSE fate[c]
BY Decisions DEF FateMoved

LEMMA SecondDecision ==
    ASSUME TypeOK, FrameInv, rx.vld,
           \A c \in Chan : HdrOn(c, 0) => fate[c] # "none"
    PROVE  DecisionOK(1, FateMoved(0, fate))
<1> DEFINE c == rx.r[1].chan
           f1 == FateMoved(0, fate)
<1> SUFFICES ASSUME rx.r[1].sof
             PROVE  /\ f1[c] = "kept" => ~ChanPktDropEn(c, 1)
                    /\ f1[c] = "dropped" => ChanPktDropEn(c, 1)
  BY DEF DecisionOK, PktDropEn
<1>1. c \in Chan /\ pktAcc[c] \in PktAccStates /\ SofOn(c, 1)
  BY WordFields DEF Regions, TypeOK, CctTypeOK, SofOn
<1>2. /\ pktAcc[c] = "IDLE" => fate[c] = "none"
      /\ pktAcc[c] = "PENDING" => fate[c] = "kept"
      /\ pktAcc[c] = "DROP" => fate[c] = "dropped"
  BY <1>1 DEF FrameInv, FateInv
<1>3. f1[c] = IF SofOn(c, 0)
              THEN IF HdrOn(c, 0) THEN "none"
                   ELSE IF pktAcc[c] = "DROP" \/ (pktAcc[c] = "IDLE" /\ ~Running(c))
                        THEN "dropped" ELSE "kept"
              ELSE fate[c]
  BY <1>1, Between
<1> HIDE DEF f1, c
<1> QED
  BY <1>1, <1>2, <1>3, Decisions DEF PktAccStates

\* The acceptor ends a word where the fates do.
LEMMA AcceptorFollows ==
    ASSUME TypeOK, FrameInv, rx.vld, NEW c \in Chan,
           HdrOn(c, 0) => fate[c] # "none",
           HdrOn(c, 1) => FateMoved(0, fate)[c] # "none",
           NEW g, g = FateMoved(1, FateMoved(0, fate))[c]
    PROVE  /\ PktAccNext(c) = "IDLE" => g = "none"
           /\ PktAccNext(c) = "PENDING" => g = "kept"
           /\ PktAccNext(c) = "DROP" => g = "dropped"
<1> DEFINE f1 == FateMoved(0, fate)[c]
<1>1. pktAcc[c] \in PktAccStates
  BY DEF TypeOK, CctTypeOK
<1>2. /\ pktAcc[c] = "IDLE" => fate[c] = "none"
      /\ pktAcc[c] = "PENDING" => fate[c] = "kept"
      /\ pktAcc[c] = "DROP" => fate[c] = "dropped"
  BY DEF FrameInv, FateInv
<1>3. f1 = IF SofOn(c, 0)
           THEN IF HdrOn(c, 0) THEN "none"
                ELSE IF pktAcc[c] = "DROP" \/ (pktAcc[c] = "IDLE" /\ ~Running(c))
                     THEN "dropped" ELSE "kept"
           ELSE fate[c]
  BY Between
<1>4. g = IF SofOn(c, 1)
          THEN IF HdrOn(c, 1) THEN "none"
               ELSE IF ChanPktDropEn(c, 1) THEN "dropped" ELSE "kept"
          ELSE f1
  BY DEF FateMoved
<1>5. Restart(c) <=> HdrOn(c, 0) /\ SofOn(c, 1)
  BY DEF Restart
<1>6. HdrOn(c, 1) => f1 # "none"
  OBVIOUS
<1> HIDE DEF f1
<1>7. CASE ~WordOn(c)
  BY <1>1, <1>2, <1>3, <1>4, <1>7, Decisions DEF PktAccNext, PktAccStates
<1>8. CASE WordOn(c) /\ HdrOn(c, 1)
  BY <1>4, <1>8, Decisions DEF PktAccNext
<1>9. CASE WordOn(c) /\ ~HdrOn(c, 1)
  <2>1. CASE pktAcc[c] = "IDLE"
    BY <1>2, <1>3, <1>4, <1>9, <2>1, Decisions DEF PktAccNext, Fresh
  <2>2. CASE pktAcc[c] = "PENDING"
    BY <1>2, <1>3, <1>4, <1>5, <1>9, <2>2, Decisions DEF PktAccNext, Fresh
  <2>3. CASE pktAcc[c] = "DROP"
    BY <1>2, <1>3, <1>4, <1>5, <1>9, <2>3, Decisions DEF PktAccNext, Fresh
  <2> QED
    BY <1>1, <2>1, <2>2, <2>3 DEF PktAccStates
<1> QED
  BY <1>7, <1>8, <1>9

\* The regions of the word on the bus, one after the other.
LEMMA WordRegions ==
    ASSUME TypeOK, FrameInv, rx.vld
    PROVE  LET f1 == FateMoved(0, fate)
               t1 == TailAfter(tail, rx.r[0])
           IN  /\ rx.r[0] \in RegionChoices(tail, Begun(fate))
               /\ rx.r[1] \in RegionChoices(t1, Begun(f1))
               /\ MidFate = f1 /\ f1 \in [Chan -> Settled]
               /\ t1 \in Chan \cup {N}
               /\ DropperOK(f1, t1, MidLv, MidInc)
               /\ \A c \in Chan : HdrOn(c, 0) => fate[c] # "none"
               /\ \A c \in Chan : HdrOn(c, 1) => f1[c] # "none"
<1> DEFINE f1 == FateMoved(0, fate)
           t1 == TailAfter(tail, rx.r[0])
<1>1. fate \in [Chan -> Settled]
  BY FatesSettled DEF FrameInv
<1>2. tail \in Chan \cup {N} /\ Begun(fate) \in SUBSET Chan
      /\ dropLv \in BOOLEAN /\ incPkt \in BOOLEAN
  BY DEF TypeOK, CctTypeOK, Begun
<1>3. /\ rx.r[0] \in RegionChoices(tail, Begun(fate))
      /\ rx.r[1] \in RegionChoices(t1, BegunAfter(Begun(fate), rx.r[0]))
  BY <1>2, WordChoicesOK DEF FrameInv, WordInv
<1>4. RegionKept(0) <=> DropSof(0) \/ incPkt
  BY DEF RegionKept
<1>5. /\ FateAfterRegion(0, fate) = f1 /\ f1 \in [Chan -> Settled]
      /\ DropperOK(f1, t1, LvAfter(0, dropLv), IncAfter(0, dropLv, incPkt))
  <2>1. 0 \in Regions
    BY DEF Regions
  <2>2. DecisionOK(0, fate) /\ DropperOK(fate, tail, dropLv, incPkt)
    BY FirstDecision DEF FrameInv
  <2> QED
    BY <1>1, <1>2, <1>3, <1>4, <2>1, <2>2, RegionStep
<1>6. t1 \in Chan \cup {N}
  <2>1. rx.r[0] \in Region
    BY WordFields DEF Regions
  <2> QED
    BY <1>2, <2>1, AfterRegion
<1>7. BegunAfter(Begun(fate), rx.r[0]) = Begun(f1)
  BY <1>1, <1>2, <1>3, BegunMoved DEF FrameInv, DropperOK
<1>8. \A c \in Chan : HdrOn(c, 0) => fate[c] # "none"
  BY <1>2, <1>3, HeaderHasData DEF HdrOn, SofOn, Regions
<1>9. rx.r[1] \in RegionChoices(t1, Begun(f1))
  BY <1>3, <1>7
<1>10. \A c \in Chan : HdrOn(c, 1) => f1[c] # "none"
  <2> HIDE DEF f1, t1
  <2> QED
    BY <1>6, <1>9, HeaderHasData DEF HdrOn, SofOn, Regions
<1> QED
  BY <1>3, <1>5, <1>6, <1>8, <1>9, <1>10 DEF MidFate, MidLv, MidInc

LEMMA WordClock ==
    ASSUME TypeOK, FrameInv, Next, rx.vld
    PROVE  /\ FateInv'
           /\ DropperOK(fate', tail', dropLv', incPkt')
<1> DEFINE f1 == FateMoved(0, fate)
           f2 == FateMoved(1, f1)
           t1 == TailAfter(tail, rx.r[0])
<1>1. /\ rx.r[1] \in RegionChoices(t1, Begun(f1))
      /\ MidFate = f1 /\ f1 \in [Chan -> Settled]
      /\ t1 \in Chan \cup {N}
      /\ DropperOK(f1, t1, MidLv, MidInc)
      /\ \A c \in Chan : HdrOn(c, 0) => fate[c] # "none"
      /\ \A c \in Chan : HdrOn(c, 1) => f1[c] # "none"
  BY WordRegions
<1>2. dstRdy /\ Taken
  BY DEF FrameInv, Taken
<1>3. /\ pktAcc' = [c \in Chan |-> PktAccNext(c)]
      /\ fate' = FateAfterRegion(1, f1)
      /\ tail' = TailAfter(t1, rx.r[1])
      /\ dropLv' = LvAfter(1, MidLv)
      /\ incPkt' = IncAfter(1, MidLv, MidInc)
  BY <1>1, <1>2, BusRegisters DEF FateNext, TailNext, DropperTick
<1>4. MidLv \in BOOLEAN /\ MidInc \in BOOLEAN
  BY WordFields DEF MidLv, MidInc, LvAfter, IncAfter, PktDropEn, ChanPktDropEn, Regions, TypeOK, CctTypeOK
<1>5. RegionKept(1) <=> DropSof(1) \/ MidInc
  BY DEF RegionKept
<1>6. DecisionOK(1, f1)
  BY <1>1, SecondDecision
<1>7. /\ FateAfterRegion(1, f1) = f2
      /\ DropperOK(f2, TailAfter(t1, rx.r[1]), LvAfter(1, MidLv), IncAfter(1, MidLv, MidInc))
  <2>1. 1 \in Regions
    BY DEF Regions
  <2> HIDE DEF f1, t1
  <2> QED
    BY <1>1, <1>4, <1>5, <1>6, <2>1, RegionStep
<1>8. FateInv'
  <2> SUFFICES ASSUME NEW c \in Chan
               PROVE  /\ pktAcc'[c] = "IDLE" => fate'[c] = "none"
                      /\ pktAcc'[c] = "PENDING" => fate'[c] = "kept"
                      /\ pktAcc'[c] = "DROP" => fate'[c] = "dropped"
    BY DEF FateInv
  <2>1. pktAcc'[c] = PktAccNext(c) /\ fate'[c] = f2[c]
    BY <1>3, <1>7
  <2> QED
    BY <1>1, <2>1, AcceptorFollows
<1> QED
  BY <1>3, <1>7, <1>8

LEMMA IdleClock ==
    ASSUME TypeOK, FrameInv, Next, ~rx.vld
    PROVE  /\ FateInv'
           /\ DropperOK(fate', tail', dropLv', incPkt')
<1>1. ~Taken /\ \A c \in Chan : ~WordOn(c)
  BY DEF Taken, WordOn
<1>2. /\ fate' = fate /\ tail' = tail /\ dropLv' = dropLv /\ incPkt' = incPkt
  BY <1>1, BusRegisters DEF FateNext, TailNext, DropperTick
<1>3. \A c \in Chan : pktAcc'[c] = pktAcc[c]
  BY <1>1, BusRegisters DEF PktAccNext
<1> QED
  BY <1>2, <1>3 DEF FrameInv, FateInv

LEMMA FrameStep ==
    ASSUME ~MayStall, TypeOK, FrameInv, Next
    PROVE  FrameInv'
<1>1. dstRdy'
  BY BusRegisters DEF RdyChoices
<1>2. FateInv' /\ DropperOK(fate', tail', dropLv', incPkt')
  BY WordClock, IdleClock
<1>3. WordInv'
  <2>1. rx' \in {NoWord} \cup WordChoices(tail', Begun(fate'))
    BY BusRegisters DEF RxChoices, FrameInv, Begun
  <2> QED
    BY <2>1, NoWordOK DEF WordInv
<1> QED
  BY <1>1, <1>2, <1>3 DEF FrameInv

\* The frame invariant holds as long as the header FIFO takes every word.
THEOREM FramesTracked ==
    ASSUME ~MayStall
    PROVE  Spec => []FrameInv
<1>1. TypeOK /\ FrameInv /\ [Next]_vars => FrameInv'
  <2>1. ASSUME FrameInv, UNCHANGED vars PROVE FrameInv'
    BY <2>1 DEF vars, cctVars, FrameInv, FateInv, WordInv, DropperOK
  <2> QED
    BY <2>1, FrameStep
<1> QED
  BY <1>1, TypeCorrect, FrameInit, PTL DEF Spec

\* While the header FIFO takes every word, a frame is kept whole or dropped
\* whole, however its transactions share words with those of other frames.
THEOREM FramesWhole ==
    ASSUME ~MayStall
    PROVE  Spec => []FrameWhole
<1>1. TypeOK /\ FrameInv => FrameWhole
  BY FatesSettled DEF FrameInv, FrameWhole, Settled
<1> QED
  BY <1>1, TypeCorrect, FramesTracked, PTL

\* Under the same condition a dropped frame that is longer than a word is
\* counted once, and no kept frame is counted.
THEOREM LongDiscardsCounted ==
    ASSUME ~MayStall
    PROVE  Spec => []LongDiscardCounted
<1>1. ASSUME TypeOK, FrameInv, Taken, NEW i \in Regions, rx.r[i].hdr
      PROVE  /\ DiscInc(i) => FateBefore(i) = "dropped"
             /\ fate[rx.r[i].chan] = "dropped" => DiscInc(i)
  <2> DEFINE c == rx.r[i].chan
  <2>1. c \in Chan /\ pktAcc[c] \in PktAccStates /\ rx.vld /\ dstRdy
    BY <1>1, WordFields DEF TypeOK, CctTypeOK, Taken
  <2>2. DiscInc(i) <=> pktAcc[c] = "DROP"
    BY <1>1, <2>1 DEF DiscInc
  <2>3. pktAcc[c] = "DROP" <=> fate[c] = "dropped"
    BY <1>1, <2>1 DEF FrameInv, FateInv, PktAccStates
  <2>4. ASSUME i = 1, fate[c] = "dropped" PROVE MidFate[c] = "dropped"
    <3>1. /\ MidFate = FateMoved(0, fate)
          /\ \A d \in Chan : HdrOn(d, 0) => fate[d] # "none"
          /\ \A d \in Chan : HdrOn(d, 1) => FateMoved(0, fate)[d] # "none"
      BY <1>1, <2>1, WordRegions
    <3>2. rx.r[1].sof
      BY <1>1, <2>1, <2>4, WordRegions, RegionShape DEF Taken
    <3>3. MidFate[c] # "none"
      BY <1>1, <2>1, <2>4, <3>1, <3>2 DEF HdrOn, SofOn
    <3> QED
      BY <1>1, <2>1, <2>3, <2>4, <3>1, <3>3, Between
  <2> QED
    BY <2>2, <2>3, <2>4 DEF FateBefore, Regions
<1>2. TypeOK /\ FrameInv => LongDiscardCounted
  BY <1>1 DEF LongDiscardCounted
<1> QED
  BY <1>2, TypeCorrect, FramesTracked, PTL
==============================================================================
