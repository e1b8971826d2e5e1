-------------------------- MODULE TxHandshake_proof --------------------------
(***************************************************************************)
(* Proofs about the part of starting and stopping TX DMA channels that     *)
(* does not depend on the width of the bus: the software manager, the      *)
(* machines of the channels and the driver.  Of the acceptors they use     *)
(* only that a frame is accepted on a running channel.                     *)
(***************************************************************************)
EXTENDS TxDriver, TLAPS

LEMMA ChanFacts ==
    /\ 0 \in Chan
    /\ \A c \in Chan : NextChan(c) \in Chan /\ NextChan(c) # c
BY NAssumption, SMT DEF Chan, NextChan

BaseTypeOK ==
    /\ SwmTypeOK
    /\ chanState \in [Chan -> ChanStates]
    /\ pktAcc \in [Chan -> PktAccStates]
    /\ ptrEq \subseteq Chan

BaseInit ==
    /\ SwmInit
    /\ chanState = [c \in Chan |-> "STOPPED"]
    /\ pktAcc = [c \in Chan |-> "IDLE"]
    /\ ptrEq = Chan

baseVars == <<swmVars, chanState, pktAcc, ptrEq>>

\* What a clock does, register by register, on a bus of either width.
BaseTick ==
    /\ control' \in ControlChoices
    /\ ptrEq' \in PtrChoices
    /\ activeChan' = NextChan(activeChan)
    /\ StartTick(StartReqAck(startReqChan))
    /\ StopTick(StopReqAck(StopReqChan), stopChan \in ptrEq)
    /\ StatusTick
    /\ EnabledTick
    /\ chanState' = [c \in Chan |-> ChanStateNext(c)]
    /\ pktAcc' \in [Chan -> PktAccStates]
    /\ \A c \in Chan : pktAcc'[c] = "PENDING" => pktAcc[c] = "PENDING" \/ Running(c)

LEMMA Registers ==
    ASSUME BaseTick
    PROVE  /\ control' \in ControlChoices
           /\ ptrEq' \in PtrChoices
           /\ activeChan' = NextChan(activeChan)
           /\ StartTick(StartReqAck(startReqChan))
           /\ StopTick(StopReqAck(StopReqChan), stopChan \in ptrEq)
           /\ StatusTick
           /\ EnabledTick
           /\ chanState' = [c \in Chan |-> ChanStateNext(c)]
BY DEF BaseTick

LEMMA Acceptors ==
    ASSUME BaseTick, NEW c \in Chan, pktAcc'[c] = "PENDING"
    PROVE  pktAcc[c] = "PENDING" \/ chanState[c] = "RUNNING"
BY DEF BaseTick, Running

LEMMA BaseTypeInit == BaseInit => BaseTypeOK
BY DEF BaseInit, SwmInit, BaseTypeOK, SwmTypeOK, ChanStates, PktAccStates

LEMMA BaseTypeStep ==
    ASSUME BaseTypeOK, BaseTick
    PROVE  BaseTypeOK'
<1>1. SwmTypeOK'
  <2>1. /\ activeChan' \in Chan
        /\ control' \subseteq Chan
        /\ status' \subseteq Chan
        /\ enabled' \subseteq Chan
    BY Registers, ChanFacts, DriverAssumption
       DEF ControlChoices, StatusTick, EnabledTick, BaseTypeOK, SwmTypeOK
  <2>2. /\ startVld' \in BOOLEAN
        /\ startAcked' \in BOOLEAN
        /\ startChan' \in Chan
        /\ startReqVld' \in BOOLEAN
        /\ startReqChan' \in Chan
        /\ enabledSet' \subseteq Chan
    <3>1. StartDetect \in BOOLEAN /\ StartAcked \in BOOLEAN
      BY DEF StartDetect, StartAcked
    <3> QED
      BY <3>1, Registers DEF StartTick, BaseTypeOK, SwmTypeOK
  <2>3. /\ stopFsm' \in {"IDLE", "WAIT_FOR_REQ_ACK", "WAIT_FOR_POINTERS"}
        /\ stopChan' \in Chan
        /\ cmpIn' \in BOOLEAN
        /\ cmpOut' \in BOOLEAN
    BY Registers
       DEF StopTick, StopFsmNext, ComparatorTick, StopReqChan, BaseTypeOK, SwmTypeOK
  <2> QED
    BY <2>1, <2>2, <2>3 DEF SwmTypeOK
<1>2. chanState' \in [Chan -> ChanStates]
  BY Registers DEF ChanStateNext, Running, ChanStates, BaseTypeOK
<1>3. pktAcc' \in [Chan -> PktAccStates]
  BY DEF BaseTick
<1>4. ptrEq' \subseteq Chan
  BY Registers, DriverAssumption DEF PtrChoices, Used
<1> QED
  BY <1>1, <1>2, <1>3, <1>4 DEF BaseTypeOK

------------------------------------------------------------------------------
(* Handshakes.  The three clocks of a pending start and the two waits of a *)
(* stop fix the state of the channel they are about; a channel that is     *)
(* about nothing is stopped when Status says so and runs when it says so.  *)

StartInv ==
    /\ startReqChan = startChan
    /\ startReqVld => startVld /\ ~startAcked
    /\ startVld =>
         /\ startChan \notin status
         /\ startReqVld => chanState[startChan] = "STOPPED"
         /\ ~startReqVld /\ ~startAcked => chanState[startChan] = "START"
         /\ startAcked => chanState[startChan] = "RUNNING"

StopInv ==
    /\ stopFsm # "IDLE" => stopChan \in status
    /\ stopFsm = "WAIT_FOR_REQ_ACK" => chanState[stopChan] = "STOP_PENDING"
    /\ stopFsm = "WAIT_FOR_POINTERS" =>
          chanState[stopChan] = "STOPPED" /\ pktAcc[stopChan] # "PENDING"

ChannelInv ==
    \A c \in Chan :
        /\ c \in status => \/ chanState[c] = "RUNNING"
                           \/ stopFsm # "IDLE" /\ stopChan = c
        /\ c \notin status => \/ chanState[c] = "STOPPED"
                              \/ startVld /\ startChan = c

HandshakeInv ==
    /\ BaseTypeOK
    /\ StartInv
    /\ StopInv
    /\ ChannelInv
    /\ EnabledMatchesStatus

LEMMA HandshakeInit == BaseInit => HandshakeInv
BY BaseTypeInit DEF BaseInit, SwmInit, HandshakeInv, StartInv, StopInv, ChannelInv,
                EnabledMatchesStatus

\* A start and a stop are never reported in the same clock: one is about a
\* channel outside Status, the other about one inside.
LEMMA OneOutcome == HandshakeInv => StatusPortExclusive
BY DEF HandshakeInv, StartInv, StopInv, StatusPortExclusive, StartAcked, StopAcked

LEMMA StartStep ==
    ASSUME HandshakeInv, BaseTick, BaseTypeOK'
    PROVE  StartInv'
<1> USE DEF HandshakeInv, BaseTypeOK, SwmTypeOK
<1>1. startReqChan' = startChan' /\ (startReqVld' => startVld' /\ ~startAcked')
  BY Registers DEF StartTick
<1>2. CASE StartDetect
  <2>1. startVld' /\ startReqVld' /\ ~startAcked' /\ startChan' = activeChan
    BY <1>2, Registers DEF StartTick
  <2>2. chanState[activeChan] = "STOPPED" /\ ~(startReqVld) /\ ~StopReqVld /\ activeChan \notin status
    BY <1>2 DEF StartDetect, StartInv, ChannelInv, StopReqVld
  <2>3. chanState'[activeChan] = "STOPPED"
    BY <2>2, Registers DEF ChanStateNext, Running, StartReqAck, StopReqAck
  <2>4. activeChan \notin status'
    BY <1>2, Registers DEF StatusTick, StartAcked, StartDetect
  <2> QED
    BY <1>1, <2>1, <2>3, <2>4 DEF StartInv
<1>3. CASE startVld /\ ~StartAcked
  <2>1. /\ startVld' /\ ~startReqVld' /\ startChan' = startChan
        /\ (startAcked' <=> startAcked \/ chanState[startChan] = "START")
    <3>1. ~StartDetect
      BY <1>3 DEF StartDetect
    <3> QED
      BY <1>3, <3>1, Registers DEF StartTick, StartReqAck, StartInv
  <2>2. startChan \notin status'
    BY <1>3, Registers DEF StatusTick, StartInv
  <2>3. startReqVld => chanState'[startChan] = "START"
    BY <1>3, Registers DEF ChanStateNext, Running, StartInv
  <2>4. chanState[startChan] = "START" => chanState'[startChan] = "RUNNING"
    BY Registers DEF ChanStateNext, Running, StartReqAck
  <2>5. startAcked => chanState'[startChan] = "RUNNING"
    BY <1>3, Registers DEF ChanStateNext, Running, StartInv, StopInv, StartReqAck, StopReqAck,
                           StopReqVld, StopReqChan
  <2> QED
    BY <1>1, <1>3, <2>1, <2>2, <2>3, <2>4, <2>5 DEF StartInv
<1>4. CASE ~StartDetect /\ (~startVld \/ StartAcked)
  BY <1>1, <1>4, Registers DEF StartTick, StartInv
<1> QED
  BY <1>2, <1>3, <1>4

LEMMA StopStep ==
    ASSUME HandshakeInv, BaseTick, BaseTypeOK'
    PROVE  StopInv'
<1> USE DEF HandshakeInv, BaseTypeOK, SwmTypeOK
<1>1. CASE StopReqVld
  <2>1. stopFsm' = "WAIT_FOR_REQ_ACK" /\ stopChan' = activeChan
    BY <1>1, Registers DEF StopTick, StopFsmNext, StopReqChan
  <2>2. activeChan \in status'
    BY <1>1, Registers DEF StatusTick, StopReqVld, StopAcked
  <2>3. chanState[activeChan] = "RUNNING"
    BY <1>1 DEF StopReqVld, ChannelInv
  <2>4. chanState'[activeChan] = "STOP_PENDING"
    BY <1>1, <2>3, Registers DEF ChanStateNext, Running, StartReqAck, StopReqChan
  <2> QED
    BY <2>1, <2>2, <2>4 DEF StopInv
<1>2. CASE stopFsm = "WAIT_FOR_REQ_ACK"
  <2>1. /\ stopChan' = stopChan /\ stopChan \in status
        /\ chanState[stopChan] = "STOP_PENDING"
        /\ StopReqChan = stopChan /\ ~StopReqVld
    BY <1>2, Registers DEF StopTick, StopReqChan, StopReqVld, StopInv
  <2>2. stopChan \in status'
    BY <1>2, <2>1, Registers DEF StatusTick, StopAcked
  <2>3. CASE pktAcc[stopChan] = "IDLE"
    <3>1. stopFsm' = "WAIT_FOR_POINTERS"
      BY <1>2, <2>1, <2>3, Registers DEF StopTick, StopFsmNext, StopReqAck
    <3>2. chanState'[stopChan] = "STOPPED"
      BY <2>1, <2>3, Registers DEF ChanStateNext, Running, StartReqAck, StopReqAck
    <3>3. pktAcc'[stopChan] # "PENDING"
      BY <2>1, <2>3, Acceptors
    <3> QED
      BY <2>1, <2>2, <3>1, <3>2, <3>3 DEF StopInv
  <2>4. CASE pktAcc[stopChan] # "IDLE"
    <3>1. stopFsm' = "WAIT_FOR_REQ_ACK"
      BY <1>2, <2>1, <2>4, Registers DEF StopTick, StopFsmNext, StopReqAck, StopAcked
    <3>2. chanState'[stopChan] = "STOP_PENDING"
      BY <2>1, <2>4, Registers DEF ChanStateNext, Running, StartReqAck, StopReqAck
    <3> QED
      BY <2>1, <2>2, <3>1, <3>2 DEF StopInv
  <2> QED
    BY <2>3, <2>4
<1>3. CASE stopFsm = "WAIT_FOR_POINTERS" /\ ~StopAcked
  <2>1. /\ stopFsm' = "WAIT_FOR_POINTERS" /\ stopChan' = stopChan
        /\ stopChan \in status' /\ stopChan \in status
        /\ chanState[stopChan] = "STOPPED" /\ pktAcc[stopChan] # "PENDING"
    BY <1>3, Registers DEF StopTick, StopFsmNext, StopReqChan, StopReqVld, StatusTick, StopInv
  <2>2. chanState'[stopChan] = "STOPPED"
    BY <2>1, Registers DEF ChanStateNext, Running, StartReqAck, StopReqAck, StartInv
  <2>3. pktAcc'[stopChan] # "PENDING"
    BY <2>1, Acceptors
  <2> QED
    BY <2>1, <2>2, <2>3 DEF StopInv
<1>4. CASE ~StopReqVld /\ (stopFsm = "IDLE" \/ StopAcked)
  BY <1>4, Registers DEF StopTick, StopFsmNext, StopAcked, StopInv
<1> QED
  BY <1>1, <1>2, <1>3, <1>4

LEMMA ChannelStep ==
    ASSUME HandshakeInv, BaseTick, BaseTypeOK'
    PROVE  ChannelInv'
<1> USE DEF HandshakeInv, BaseTypeOK, SwmTypeOK
<1> SUFFICES ASSUME NEW c \in Chan
             PROVE  /\ c \in status' => \/ chanState'[c] = "RUNNING"
                                        \/ stopFsm' # "IDLE" /\ stopChan' = c
                    /\ c \notin status' => \/ chanState'[c] = "STOPPED"
                                           \/ startVld' /\ startChan' = c
  BY DEF ChannelInv
<1>1. ~(StartAcked /\ StopAcked)
  BY OneOutcome DEF StatusPortExclusive
<1>2. CASE c \in status /\ stopFsm # "IDLE" /\ stopChan = c
  <2>1. stopChan' = c
    BY <1>2, Registers DEF StopTick, StopReqChan, StopReqVld
  <2>2. CASE StopAcked
    <3>1. c \notin status'
      BY <1>1, <1>2, <2>2, Registers DEF StatusTick, StopAcked
    <3>2. chanState'[c] = "STOPPED"
      BY <1>2, <2>2, Registers DEF ChanStateNext, Running, StopAcked, StopInv, StartInv,
                                   StartReqAck, StopReqAck
    <3> QED
      BY <3>1, <3>2
  <2>3. CASE ~StopAcked
    <3>1. c \in status'
      BY <1>2, <2>3, Registers DEF StatusTick
    <3>2. stopFsm' # "IDLE"
      BY <1>2, <2>3, Registers DEF StopTick, StopFsmNext
    <3> QED
      BY <2>1, <3>1, <3>2
  <2> QED
    BY <2>2, <2>3
<1>3. CASE c \in status /\ ~(stopFsm # "IDLE" /\ stopChan = c)
  <2>1. chanState[c] = "RUNNING"
    BY <1>3 DEF ChannelInv
  <2>2. c \in status'
    BY <1>3, Registers DEF StatusTick, StopAcked
  <2>3. CASE StopReqVld /\ activeChan = c
    <3>1. stopFsm' = "WAIT_FOR_REQ_ACK" /\ stopChan' = c
      BY <2>3, Registers DEF StopTick, StopFsmNext, StopReqChan
    <3> QED
      BY <2>2, <3>1
  <2>4. CASE ~(StopReqVld /\ activeChan = c)
    <3>1. ~(StopReqVld /\ StopReqChan = c)
      BY <2>4 DEF StopReqChan
    <3>2. chanState'[c] = "RUNNING"
      BY <2>1, <3>1, Registers DEF ChanStateNext, Running, StartReqAck, StopReqAck
    <3> QED
      BY <2>2, <3>2
  <2> QED
    BY <2>3, <2>4
<1>4. CASE c \notin status /\ startVld /\ startChan = c
  <2>1. CASE StartAcked
    <3>1. c \in status'
      BY <1>4, <2>1, Registers DEF StatusTick, StartAcked
    <3>2. chanState'[c] = "RUNNING"
      BY <1>4, <2>1, Registers DEF ChanStateNext, Running, StartAcked, StartInv, StopReqVld, StopReqChan,
                                   StopInv, StartReqAck, StopReqAck
    <3> QED
      BY <3>1, <3>2
  <2>2. CASE ~StartAcked
    <3>1. c \notin status'
      BY <1>4, <2>2, Registers DEF StatusTick
    <3>2. startVld' /\ startChan' = c
      BY <1>4, <2>2, Registers DEF StartTick, StartDetect
    <3> QED
      BY <3>1, <3>2
  <2> QED
    BY <2>1, <2>2
<1>5. CASE c \notin status /\ ~(startVld /\ startChan = c)
  <2>1. chanState[c] = "STOPPED" /\ ~(startReqVld /\ startReqChan = c)
    BY <1>5 DEF ChannelInv, StartInv
  <2>2. chanState'[c] = "STOPPED"
    BY <2>1, Registers DEF ChanStateNext, Running, StartReqAck, StopReqAck
  <2>3. c \notin status'
    BY <1>5, Registers DEF StatusTick, StartAcked
  <2> QED
    BY <2>2, <2>3
<1> QED
  BY <1>2, <1>3, <1>4, <1>5

LEMMA EnabledStep ==
    ASSUME HandshakeInv, BaseTick, BaseTypeOK'
    PROVE  EnabledMatchesStatus'
<1>1. ~(StartAcked /\ StopAcked)
  BY OneOutcome DEF StatusPortExclusive
<1>2. StopAcked => stopChan = activeChan
  BY DEF StopAcked
<1>3. enabledSet' = IF StartAcked THEN {activeChan} ELSE {}
  BY Registers DEF StartTick
<1> QED
  BY <1>1, <1>2, <1>3, Registers DEF EnabledTick, StatusTick, HandshakeInv, EnabledMatchesStatus

LEMMA HandshakeStep ==
    ASSUME HandshakeInv, BaseTick
    PROVE  HandshakeInv'
<1>1. BaseTypeOK'
  BY BaseTypeStep DEF HandshakeInv
<1> QED
  BY <1>1, StartStep, StopStep, ChannelStep, EnabledStep DEF HandshakeInv

LEMMA HandshakeStutter ==
    ASSUME HandshakeInv, UNCHANGED baseVars
    PROVE  HandshakeInv'
BY DEF baseVars, swmVars, BaseTypeOK, SwmTypeOK, HandshakeInv, StartInv, StopInv,
       ChannelInv, EnabledMatchesStatus

\* A request is raised when its channel listens.
LEMMA Listening == HandshakeInv => NoRequestLost
BY DEF HandshakeInv, StartInv, ChannelInv, NoRequestLost, StopReqVld, StopReqChan,
       BaseTypeOK, SwmTypeOK

------------------------------------------------------------------------------
(* The comparators.  With a polite driver the pointers of a channel that   *)
(* is being stopped can only become equal.  A result computed from another *)
(* channel's pointers, or from before the request, leaves the two register *)
(* stages while the probing register is one and two channels further; with *)
(* three channels or more it is gone when the probing register returns.    *)

DrainInv ==
    /\ stopFsm # "IDLE" => stopChan \notin control
    /\ stopFsm = "WAIT_FOR_REQ_ACK" =>
         (cmpIn => stopChan \in ptrEq) \/ activeChan = NextChan(stopChan)
    /\ stopFsm = "WAIT_FOR_POINTERS" =>
         /\ cmpIn => stopChan \in ptrEq
         /\ (cmpOut => stopChan \in ptrEq) \/ activeChan = NextChan(NextChan(stopChan))

LEMMA DrainInit == BaseInit => DrainInv
BY DEF BaseInit, SwmInit, DrainInv

LEMMA DrainStep ==
    ASSUME Polite, HandshakeInv, DrainInv, BaseTick
    PROVE  DrainInv'
<1> USE DEF HandshakeInv, BaseTypeOK, SwmTypeOK
<1>1. CASE StopReqVld
  <2>1. /\ stopFsm' = "WAIT_FOR_REQ_ACK" /\ stopChan' = activeChan
        /\ activeChan' = NextChan(activeChan)
    BY <1>1, Registers DEF StopTick, StopFsmNext, StopReqChan
  <2>2. activeChan \notin control'
    BY <1>1, Registers DEF StopReqVld, ControlChoices
  <2> QED
    BY <2>1, <2>2 DEF DrainInv
<1>2. CASE stopFsm # "IDLE"
  <2>1. /\ stopChan \in status /\ stopChan \notin control
        /\ stopChan' = stopChan /\ ~StopReqVld
        /\ cmpIn' = (stopChan \in ptrEq) /\ cmpOut' = cmpIn
        /\ activeChan' = NextChan(activeChan)
    BY <1>2, Registers DEF StopInv, DrainInv, StopTick, ComparatorTick, StopReqChan, StopReqVld
  <2>2. stopChan \notin control'
    BY <2>1, Registers DEF ControlChoices
  <2>3. stopChan \in ptrEq => stopChan \in ptrEq'
    BY <2>1, Registers DEF PtrChoices, Used, MayPublish
  <2>4. stopFsm' = "WAIT_FOR_POINTERS" /\ stopFsm = "WAIT_FOR_REQ_ACK" =>
          (cmpOut' => stopChan \in ptrEq') \/ activeChan' = NextChan(NextChan(stopChan))
    BY <2>1, <2>3 DEF DrainInv
  <2>5. stopFsm = "WAIT_FOR_POINTERS" => (cmpOut' => stopChan \in ptrEq')
    BY <2>1, <2>3 DEF DrainInv
  <2>6. stopFsm' = "WAIT_FOR_REQ_ACK" => stopFsm = "WAIT_FOR_REQ_ACK"
    BY <1>2, <2>1, Registers DEF StopTick, StopFsmNext
  <2> QED
    BY <1>2, <2>1, <2>2, <2>3, <2>4, <2>5, <2>6 DEF DrainInv
<1>3. CASE stopFsm = "IDLE" /\ ~StopReqVld
  BY <1>3, Registers DEF StopTick, StopFsmNext, StopAcked, DrainInv
<1> QED
  BY <1>1, <1>2, <1>3

LEMMA TwoFurther ==
    ASSUME N >= 3, NEW c \in Chan
    PROVE  NextChan(NextChan(c)) # c
BY NAssumption DEF Chan, NextChan

LEMMA DrainStutter ==
    ASSUME DrainInv, UNCHANGED baseVars
    PROVE  DrainInv'
BY DEF baseVars, swmVars, DrainInv

LEMMA StopFindsPointersEqual ==
    ASSUME N >= 3, HandshakeInv, DrainInv, StopAcked
    PROVE  stopChan \in ptrEq
BY TwoFurther DEF HandshakeInv, BaseTypeOK, SwmTypeOK, DrainInv, StopAcked

------------------------------------------------------------------------------
(* The life cycle.                                                         *)

\* One clock leaves a channel in its phase or takes it to the next one, at the
\* edges the two handshakes define.
LEMMA PhaseStep ==
    ASSUME HandshakeInv, HandshakeInv', BaseTick, NEW c \in Chan
    PROVE  /\ phase[c] = "stopped" => phase'[c] \in {"stopped", "starting"}
           /\ phase[c] = "starting" => phase'[c] \in {"starting", "running"}
           /\ phase[c] = "running" => phase'[c] \in {"running", "stopping"}
           /\ phase[c] = "stopping" =>
                \/ phase'[c] = "stopping"
                \/ (phase'[c] = "stopped" /\ StopAcked /\ stopChan = c)
           /\ phase'[c] = "starting" => startVld' /\ startChan' = c
           /\ phase'[c] = "stopping" => stopFsm' # "IDLE" /\ stopChan' = c
<1> USE DEF HandshakeInv, BaseTypeOK, SwmTypeOK
<1>1. phase[c] = IF c \in status
                 THEN IF stopFsm # "IDLE" /\ stopChan = c THEN "stopping" ELSE "running"
                 ELSE IF startVld /\ startChan = c THEN "starting" ELSE "stopped"
  BY DEF phase
<1>2. phase'[c] = IF c \in status'
                  THEN IF stopFsm' # "IDLE" /\ stopChan' = c THEN "stopping" ELSE "running"
                  ELSE IF startVld' /\ startChan' = c THEN "starting" ELSE "stopped"
  BY DEF phase
<1>3. ~(StartAcked /\ StopAcked)
  BY OneOutcome DEF StatusPortExclusive
<1>4. CASE c \in status
  <2>1. c \in status' \/ (StopAcked /\ activeChan = c)
    BY <1>4, Registers DEF StatusTick
  <2>2. StopAcked => stopFsm # "IDLE" /\ stopChan = activeChan
    BY DEF StopAcked
  <2>3. CASE stopFsm # "IDLE" /\ stopChan = c
    <3>1. stopChan' = c
      BY <2>3, Registers DEF StopTick, StopReqChan, StopReqVld
    <3>2. StopAcked \/ stopFsm' # "IDLE"
      BY <2>3, Registers DEF StopTick, StopFsmNext
    <3>3. StopAcked => c \notin status' /\ ~(startVld' /\ startChan' = c)
      <4>1. StopAcked => c \notin status'
        BY <1>3, <2>2, <2>3, Registers DEF StatusTick
      <4>2. startVld /\ startChan = c => FALSE
        BY <1>4 DEF StartInv
      <4>3. StartDetect => activeChan # c
        BY <1>4 DEF StartDetect
      <4> QED
        BY <4>1, <4>2, <4>3, Registers DEF StartTick
    <3>4. ~StopAcked => c \in status'
      BY <2>1
    <3> QED
      BY <1>1, <1>2, <1>4, <2>3, <3>1, <3>2, <3>3, <3>4
  <2>4. CASE ~(stopFsm # "IDLE" /\ stopChan = c)
    <3>1. c \in status'
      BY <2>1, <2>2, <2>4
    <3> QED
      BY <1>1, <1>2, <1>4, <2>4, <3>1
  <2> QED
    BY <2>3, <2>4
<1>5. CASE c \notin status
  <2>1. c \in status' => StartAcked /\ startChan = c
    BY <1>5, Registers DEF StatusTick, StartAcked
  <2>2. StartAcked => startVld
    BY DEF StartAcked
  <2>3. c \in status' => ~(stopFsm' # "IDLE" /\ stopChan' = c)
    <3>1. stopFsm # "IDLE" => stopChan # c
      BY <1>5 DEF StopInv
    <3>2. StopReqVld => activeChan # c
      BY <1>5 DEF StopReqVld
    <3>3. stopFsm = "IDLE" /\ ~StopReqVld => stopFsm' = "IDLE"
      BY Registers DEF StopTick, StopFsmNext, StopAcked
    <3> QED
      BY <3>1, <3>2, <3>3, Registers DEF StopTick, StopReqChan
  <2>4. CASE startVld /\ startChan = c
    <3>1. c \notin status' => startVld' /\ startChan' = c
      <4>1. ~StartDetect
        BY <2>4 DEF StartDetect
      <4>2. StartAcked => c \in status'
        BY <2>4, Registers DEF StatusTick, StartAcked
      <4> QED
        BY <2>4, <4>1, <4>2, Registers DEF StartTick
    <3> QED
      BY <1>1, <1>2, <1>5, <2>3, <2>4, <3>1
  <2>5. CASE ~(startVld /\ startChan = c)
    <3>1. c \notin status'
      BY <2>1, <2>2, <2>5
    <3> QED
      BY <1>1, <1>2, <1>5, <2>5, <3>1
  <2> QED
    BY <2>4, <2>5
<1> QED
  BY <1>4, <1>5

\* A frame is accepted only on a channel that is starting or running.
LEMMA AcceptedWhileRunning ==
    ASSUME HandshakeInv, BaseTick, NEW c \in Chan,
           pktAcc[c] # "PENDING", pktAcc'[c] = "PENDING"
    PROVE  phase[c] \in {"starting", "running"}
<1>1. chanState[c] = "RUNNING"
  BY Acceptors
<1>2. CASE c \in status
  <2>1. ~(stopFsm # "IDLE" /\ stopChan = c)
    BY <1>1 DEF HandshakeInv, BaseTypeOK, SwmTypeOK, StopInv
  <2> QED
    BY <1>2, <2>1 DEF phase
<1>3. CASE c \notin status
  BY <1>1, <1>3 DEF HandshakeInv, ChannelInv, phase
<1> QED
  BY <1>2, <1>3

LEMMA LifecycleInit == BaseInit => Lifecycle!Init
BY DEF BaseInit, SwmInit, Lifecycle!Init, phase, Receiving

LEMMA LifecycleStep ==
    ASSUME HandshakeInv, HandshakeInv', BaseTick
    PROVE  Lifecycle!Next
<1> USE DEF Lifecycle!Moving, Lifecycle!Follows, Lifecycle!AtMostOne
<1>1. phase' \in [Chan -> Lifecycle!Phases]
  BY DEF phase, Lifecycle!Phases
<1>2. \A c \in Chan : phase[c] \in Lifecycle!Phases
  BY DEF phase, Lifecycle!Phases
<1>3. \A c \in Chan : Lifecycle!Moving(c) => phase'[c] = Lifecycle!Follows(phase[c])
  BY <1>2, PhaseStep DEF Lifecycle!Phases
<1>4. Lifecycle!AtMostOne({c \in Chan : phase'[c] = "starting"})
  BY PhaseStep
<1>5. Lifecycle!AtMostOne({c \in Chan : phase'[c] = "stopping"})
  BY PhaseStep
<1>6. \A c \in Receiving : phase[c] = "stopping" => ~Lifecycle!Moving(c)
  <2> SUFFICES ASSUME NEW c \in Chan, pktAcc[c] = "PENDING", phase[c] = "stopping"
               PROVE  phase'[c] = "stopping"
    BY DEF Receiving
  <2>1. ~(StopAcked /\ stopChan = c)
    BY DEF StopAcked, HandshakeInv, StopInv
  <2> QED
    BY <2>1, PhaseStep
<1>7. Receiving' \subseteq Chan
  BY DEF Receiving
<1>8. \A c \in Receiving' \ Receiving : phase[c] \in {"starting", "running"}
  BY AcceptedWhileRunning DEF Receiving
<1> QED
  BY <1>1, <1>3, <1>4, <1>5, <1>6, <1>7, <1>8
     DEF Lifecycle!Next, Lifecycle!Move, Lifecycle!Frames

LEMMA LifecycleStutter ==
    ASSUME UNCHANGED baseVars
    PROVE  UNCHANGED Lifecycle!vars
BY DEF baseVars, swmVars, Lifecycle!vars, phase, Receiving
==============================================================================
