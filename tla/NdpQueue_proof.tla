--------------------------- MODULE NdpQueue_proof ----------------------------
(* The device sends the packets of a queue as they were accepted, for every   *)
(* ring of at least three descriptors and any number of packets.  Pointers    *)
(* are kept modulo the size of the ring; the proof counts descriptors without *)
(* bound and shows how far apart the four pointers of a queue can be.         *)
EXTENDS NdpQueue, TLAPS

\* A packet of a transmit burst may be an entry of a receive burst.
Packets   == Nat \cup {None}
RingDescs == {[type |-> "none"], [type |-> "upper"]} \cup [type : {"packet"}, slot : 0..mdp]

Queues    == [state : {0, 1}, sdp : 0..mdp, hw : 0..mdp, free : 0..mdp, npi : 0..mdp,
              shp : Nat, upper : {0, None}]

NdpType ==
    /\ tx \in Queues /\ rx \in Queues
    /\ ring \in [0..mdp -> RingDescs]
    /\ buf \in [0..mdp -> Packets]
    /\ call \in [pc : {"idle", "wait", "flush"}, pkt : Packets, flush : BOOLEAN, todo : Seq(Packets)]
    /\ call.pc = "wait" => tx.state = 1
    /\ temp \in Seq(Packets)
    /\ hw \in [hdp : 0..mdp, seen : 0..mdp, hhp : Nat]
    /\ log = [accepted |-> log.accepted, sent |-> log.sent, lost |-> log.lost,
              arrived |-> log.arrived, received |-> log.received]
    /\ log.accepted \in Seq(Packets) /\ log.sent \in Seq(Packets) /\ log.lost \in Nat

\* S descriptors were written, F of them were published to the controller, H were
\* read by it and G were known to be read when the room was last looked up.
Pointers(S, F, H, G) ==
    /\ G <= H /\ H <= F /\ F <= S /\ S - G <= mdp
    /\ tx.sdp = S % N /\ tx.hw = F % N /\ hw.hdp = H % N /\ hw.seen = G % N
    /\ tx.free + (S - G) <= mdp
    /\ tx.state = 0 => S = 0 /\ tx.free = 0

\* The first descriptor is the upper address, each other one a packet.
Counts(S, H) ==
    /\ tx.upper = None => S = 0 /\ log.accepted = <<>>
    /\ tx.upper # None => S = Len(log.accepted) + 1
    /\ tx.npi = Len(log.accepted) % N
    /\ Len(log.sent) = IF H = 0 THEN 0 ELSE H - 1

\* What is sent is a beginning of what was accepted, and what is not read yet is in
\* the ring and in the buffer.
Contents(S, H) ==
    /\ \A k \in 1..Len(log.sent) : log.sent[k] = log.accepted[k]
    /\ \A k \in H..(S - 1) :
          IF k = 0 THEN ring[0].type = "upper"
          ELSE /\ ring[k % N] = [type |-> "packet", slot |-> (k - 1) % N]
               /\ buf[(k - 1) % N] = log.accepted[k]

Window(S, F, H, G) == Pointers(S, F, H, G) /\ Counts(S, H) /\ Contents(S, H)

NdpInv == NdpType /\ \E S, F, H, G \in Nat : Window(S, F, H, G)

(* ------------------------------------------------------------- arithmetic modulo N -- *)
LEMMA RingFacts == ASSUME RingAssumption PROVE N \in Nat /\ N >= 3 /\ mdp = N - 1 /\ mdp \in Nat
BY DEF RingAssumption, mdp

LEMMA Division ==
    ASSUME RingAssumption, NEW x \in Int
    PROVE  x % N \in 0..mdp /\ x \div N \in Int /\ x = N * (x \div N) + (x % N)
<1>1. N \in Nat /\ N >= 3
  BY RingFacts
<1>2. x % N \in 0..(N - 1) /\ x \div N \in Int /\ x = N * (x \div N) + (x % N)
  BY <1>1, SMT
<1> QED
  BY <1>2, RingFacts

LEMMA Below == ASSUME RingAssumption, NEW x \in Int PROVE x % N \in 0..mdp
BY Division

\* Numbers less than N apart have different remainders.
LEMMA ModApart ==
    ASSUME RingAssumption, NEW x \in Int, NEW y \in Int, x < y, y < x + N
    PROVE  x % N # y % N
<1> SUFFICES ASSUME x % N = y % N PROVE FALSE
  OBVIOUS
<1> DEFINE p == x \div N
           q == y \div N
           r == x % N
<1>1. N * (q - p) = y - x
  <2>1. /\ r \in 0..mdp /\ p \in Int /\ x = N * p + r
        /\ q \in Int /\ y = N * q + r
    BY Division
  <2> HIDE DEF p, q, r
  <2> QED
    BY <2>1, RingFacts, SMT
<1>2. p \in Int /\ q \in Int
  BY Division
<1> HIDE DEF p, q, r
<1>3. CASE q >= p + 1
  <2>1. N * (q - p) >= N
    BY <1>2, <1>3, RingFacts, SMT
  <2> QED
    BY <1>1, <2>1, RingFacts, SMT
<1>4. CASE q <= p
  <2>1. N * (p - q) >= 0
    BY <1>2, <1>4, RingFacts, SMT
  <2>2. N * (q - p) = - (N * (p - q))
    BY <1>2, RingFacts, SMT
  <2> QED
    BY <1>1, <1>2, <2>1, <2>2, RingFacts, SMT
<1> QED
  BY <1>2, <1>3, <1>4, SMT

\* The remainder is the only number of 0..N-1 that differs by a multiple of N.
LEMMA Remainder ==
    ASSUME RingAssumption, NEW x \in Int, NEW q \in Int, NEW r \in 0..mdp, x = N * q + r
    PROVE  x % N = r
<1> DEFINE p == x \div N
           s == x % N
<1>1. s \in 0..mdp /\ p \in Int /\ x = N * p + s
  BY Division
<1> HIDE DEF p, s
<1>2. N * (q - p) = s - r
  BY <1>1, RingFacts, SMT
<1>3. CASE q >= p + 1
  <2>1. N * (q - p) >= N
    BY <1>1, <1>3, RingFacts, SMT
  <2> QED
    BY <1>1, <1>2, <2>1, RingFacts, SMT
<1>4. CASE q <= p - 1
  <2>1. N * (p - q) >= N
    BY <1>1, <1>4, RingFacts, SMT
  <2>2. N * (p - q) = r - s
    BY <1>1, <1>2, RingFacts, SMT
  <2> QED
    BY <1>1, <2>1, <2>2, RingFacts, SMT
<1>5. CASE q = p
  BY <1>1, <1>5, RingFacts, SMT DEF s
<1> QED
  BY <1>1, <1>3, <1>4, <1>5, SMT

LEMMA Small == ASSUME RingAssumption, NEW r \in 0..mdp PROVE r % N = r
<1>1. r \in Int /\ r = N * 0 + r
  BY RingFacts, SMT
<1> QED
  BY <1>1, Remainder

\* A pointer may be masked before it is moved.
LEMMA ModShift ==
    ASSUME RingAssumption, NEW x \in Int, NEW d \in Int
    PROVE  ((x % N) + d) % N = (x + d) % N
<1> DEFINE y == x + d
           p == x \div N
           q == y \div N
           r == x % N
           s == y % N
<1>1. r \in 0..mdp /\ p \in Int /\ x = N * p + r
  BY Division
<1>2. y \in Int /\ s \in 0..mdp /\ q \in Int /\ y = N * q + s
  BY Division
<1>3. r + d = N * (q - p) + s
  <2>1. y = x + d
    OBVIOUS
  <2> HIDE DEF y, p, q, r, s
  <2> QED
    BY <1>1, <1>2, <2>1, RingFacts, SMT
<1>4. r + d \in Int /\ q - p \in Int
  BY <1>1, <1>2, SMT
<1>5. (r + d) % N = s
  BY <1>2, <1>3, <1>4, Remainder
<1> QED
  BY <1>5

\* The room found by a look at the pointer G while S descriptors were written.
LEMMA Room ==
    ASSUME RingAssumption, NEW S \in Nat, NEW G \in Nat, G <= S, S - G <= mdp
    PROVE  ((G % N) - ((S % N) + 1)) % N = mdp - (S - G)
<1> DEFINE p == G \div N
           q == S \div N
           g == G % N
           s == S % N
           r == mdp - (S - G)
<1>1. /\ g \in 0..mdp /\ p \in Int /\ G = N * p + g
      /\ s \in 0..mdp /\ q \in Int /\ S = N * q + s
  BY Division
<1>2. r \in 0..mdp /\ r = (N - 1) - (S - G)
  BY RingFacts, SMT
<1> HIDE DEF p, q, g, s, r
<1>3. g - (s + 1) = N * ((q - p) - 1) + r
  BY <1>1, <1>2, RingFacts, SMT
<1>4. g - (s + 1) \in Int /\ (q - p) - 1 \in Int
  BY <1>1, RingFacts, SMT
<1>5. (g - (s + 1)) % N = r
  BY <1>2, <1>3, <1>4, Remainder
<1> QED
  BY <1>5 DEF g, s, r

(* ------------------------------------------------------------------- initial states -- *)
LEMMA InvInit == ASSUME RingAssumption, Init PROVE NdpInv
<1>1. NdpType
  BY RingFacts DEF Init, NdpType, Queues, Queue0, Packets, RingDescs
<1>2. Window(0, 0, 0, 0)
  <2>1. 0 % N = 0
    BY RingFacts, Small
  <2>2. Pointers(0, 0, 0, 0)
    BY <2>1, RingFacts DEF Init, Queue0, Pointers
  <2>3. Counts(0, 0)
    BY <2>1 DEF Init, Queue0, Counts
  <2>4. Contents(0, 0)
    BY DEF Init, Contents
  <2> QED
    BY <2>2, <2>3, <2>4 DEF Window
<1> QED
  BY <1>1, <1>2 DEF NdpInv

(* ------------------------------------------------- steps that only change the program -- *)
\* What the window speaks of, but for the pointers of the program.
Stored == <<ring, buf, hw.hdp, hw.seen, log.accepted, log.sent>>

LEMMA StartedWindow ==
    ASSUME RingAssumption, NdpType, NEW S \in Nat, NEW F \in Nat, NEW H \in Nat, NEW G \in Nat,
           Window(S, F, H, G), tx' \in {tx, Started(tx)}, UNCHANGED Stored
    PROVE  Window(S, F, H, G)'
<1>1. CASE tx' = tx
  BY <1>1 DEF Window, Pointers, Counts, Contents, Stored
<1>2. CASE tx.state = 1
  <2>1. tx' = tx
    BY <1>2 DEF Started
  <2> QED
    BY <1>1, <2>1
<1>3. CASE tx.state = 0 /\ tx' = Started(tx)
  <2>1. tx' = [tx EXCEPT !.state = 1, !.free = mdp, !.npi = 0]
    BY <1>3 DEF Started
  <2>2. /\ tx'.sdp = tx.sdp /\ tx'.hw = tx.hw /\ tx'.upper = tx.upper
        /\ tx'.state = 1 /\ tx'.free = mdp /\ tx'.npi = 0
    BY <2>1 DEF NdpType, Queues
  <2>3. S = 0 /\ F = 0 /\ G = 0
    BY <1>3 DEF Window, Pointers
  <2>4. log.accepted = <<>>
    BY <2>3 DEF Window, Counts, NdpType
  <2>5. 0 % N = 0
    BY RingFacts, Small
  <2>6. Pointers(S, F, H, G)'
    BY <2>2, <2>3, RingFacts DEF Window, Pointers, Stored
  <2>7. Counts(S, H)'
    BY <2>2, <2>4, <2>5 DEF Window, Counts, Stored
  <2>8. Contents(S, H)'
    BY DEF Window, Contents, Stored
  <2> QED
    BY <2>6, <2>7, <2>8 DEF Window
<1> QED
  BY <1>1, <1>2, <1>3 DEF NdpType, Queues

LEMMA StartedType ==
    ASSUME RingAssumption, NEW q \in Queues
    PROVE  /\ Started(q) \in Queues /\ Started(q).state = 1
           /\ Started(q).sdp = q.sdp /\ Started(q).upper = q.upper
           /\ q.state = 0 => Started(q).free = mdp
           /\ q.state = 1 => Started(q) = q
<1>1. CASE q.state = 1
  BY <1>1 DEF Started
<1>2. CASE q.state = 0
  <2>1. Started(q) = [q EXCEPT !.state = 1, !.free = mdp, !.npi = 0]
    BY <1>2 DEF Started
  <2>2. mdp \in 0..mdp /\ 0 \in 0..mdp
    BY RingFacts
  <2>3. Started(q) \in Queues
    BY <2>1, <2>2 DEF Queues
  <2> QED
    BY <1>2, <2>1, <2>3 DEF Queues
<1> QED
  BY <1>1, <1>2 DEF Queues

LEMMA QuietStep ==
    ASSUME RingAssumption, NdpInv, NdpType', tx' \in {tx, Started(tx)}, UNCHANGED Stored
    PROVE  NdpInv'
<1>1. PICK S \in Nat, F \in Nat, H \in Nat, G \in Nat : Window(S, F, H, G)
  BY DEF NdpInv
<1>2. Window(S, F, H, G)'
  BY <1>1, StartedWindow DEF NdpInv
<1> QED
  BY <1>2 DEF NdpInv

(* -------------------------------------------------------- the steps of the program -- *)
\* A packet that is sent is numbered, one of a burst comes out of its list.
LEMMA SendStep ==
    ASSUME RingAssumption, NdpInv, \E f \in BOOLEAN : Send(f)
    PROVE  NdpInv'
<1>1. PICK f \in BOOLEAN : Send(f)
  OBVIOUS
<1>2. tx' = Started(tx) /\ tx' \in Queues /\ tx'.state = 1
  BY <1>1, StartedType DEF NdpInv, NdpType, Send, sendmsg
<1>3. Len(log.accepted) + Len(temp) + log.lost + 1 \in Packets
  BY DEF NdpInv, NdpType, Packets
<1>4. call' \in [pc : {"idle", "wait", "flush"}, pkt : Packets, flush : BOOLEAN, todo : Seq(Packets)]
  BY <1>1, <1>3 DEF NdpInv, NdpType, Send, sendmsg
<1>5. NdpType'
  BY <1>1, <1>2, <1>4 DEF NdpInv, NdpType, Send
<1> QED
  BY <1>1, <1>2, <1>5, QuietStep DEF Send, Stored

LEMMA NextOfBurstStep ==
    ASSUME RingAssumption, NdpInv, NextOfBurst
    PROVE  NdpInv'
<1>1. tx' = Started(tx) /\ tx' \in Queues /\ tx'.state = 1
  BY StartedType DEF NdpInv, NdpType, NextOfBurst
<1>2. Head(call.todo) \in Packets /\ Tail(call.todo) \in Seq(Packets)
  BY DEF NdpInv, NdpType, NextOfBurst
<1>3. NdpType'
  BY <1>1, <1>2 DEF NdpInv, NdpType, NextOfBurst
<1> QED
  BY <1>1, <1>3, QuietStep DEF NextOfBurst, Stored

LEMMA BurstSteps ==
    ASSUME RingAssumption, NdpInv, TxBurstGet \/ TxBurstPut \/ RxBurstPut \/ ManagerSend
    PROVE  NdpInv'
<1>1. CASE TxBurstGet
  <2>1. NdpType'
    BY <1>1 DEF NdpInv, NdpType, TxBurstGet, Packets
  <2> QED
    BY <1>1, <2>1, QuietStep DEF TxBurstGet, Stored
<1>2. CASE TxBurstPut
  <2>1. NdpType'
    BY <1>2 DEF NdpInv, NdpType, TxBurstPut
  <2> QED
    BY <1>2, <2>1, QuietStep DEF TxBurstPut, Stored
<1>3. CASE RxBurstPut
  <2>1. NdpType' /\ UNCHANGED Stored
    BY <1>3 DEF NdpInv, NdpType, RxBurstPut, Stored
  <2> QED
    BY <1>3, <2>1, QuietStep DEF RxBurstPut
<1>4. CASE ManagerSend
  <2>1. log' = [log EXCEPT !.lost = log.lost + 1]
    BY <1>4 DEF ManagerSend
  <2>2. /\ log'.accepted = log.accepted /\ log'.sent = log.sent /\ log'.lost \in Nat
        /\ log' = [accepted |-> log'.accepted, sent |-> log'.sent, lost |-> log'.lost,
                   arrived |-> log'.arrived, received |-> log'.received]
    <3>1. log = [accepted |-> log.accepted, sent |-> log.sent, lost |-> log.lost,
                 arrived |-> log.arrived, received |-> log.received]
      BY DEF NdpInv, NdpType
    <3>2. log.lost + 1 \in Nat
      BY DEF NdpInv, NdpType
    <3> QED
      BY <2>1, <3>1, <3>2
  <2>3. UNCHANGED <<tx, ring, buf, call, temp, hw, rx, rxdesc>>
    BY <1>4 DEF ManagerSend
  <2>4. NdpType'
    BY <2>2, <2>3 DEF NdpInv, NdpType
  <2> QED
    BY <2>2, <2>3, <2>4, QuietStep DEF Stored
<1> QED
  BY <1>1, <1>2, <1>3, <1>4

LEMMA ReceiveSteps ==
    ASSUME RingAssumption, NdpInv, _push_desc \/ HwReceive \/ \E b \in BOOLEAN : recvmsg(b)
    PROVE  NdpInv'
<1>1. CASE _push_desc
  <2> DEFINE q == Started(rx)
             n == IF q.upper = None THEN 2 ELSE 1
  <2>1. q \in Queues /\ (rx.state = 0 => q.free = mdp) /\ (rx.state = 1 => q = rx)
    BY StartedType DEF NdpInv, NdpType
  <2>2. rx' = [q EXCEPT !.sdp = (@ + n) % N, !.upper = 0, !.free = @ - n]
    BY <1>1 DEF _push_desc
  <2>3. n \in {1, 2} /\ q.sdp \in 0..mdp /\ q.free \in 0..mdp
    BY <2>1 DEF Queues
  <2>4. q.free >= 2
    <3>1. rx.state = 0 \/ (rx.state = 1 /\ rx.free >= 2)
      BY <1>1 DEF _push_desc, NdpInv, NdpType, Queues
    <3>2. mdp >= 2
      BY RingFacts
    <3> QED
      BY <2>1, <3>1, <3>2
  <2> HIDE DEF q, n
  <2>5. (q.sdp + n) % N \in 0..mdp
    <3>1. q.sdp + n \in Int
      BY <2>3, RingFacts
    <3> QED
      BY <3>1, Below
  <2>6. q.free - n \in 0..mdp
    BY <2>3, <2>4, RingFacts
  <2>7. rx' \in Queues
    BY <2>1, <2>2, <2>5, <2>6 DEF Queues
  <2>8. NdpType'
    BY <1>1, <2>7 DEF NdpInv, NdpType, _push_desc
  <2> QED
    BY <1>1, <2>8, QuietStep DEF _push_desc, Stored
<1>2. CASE HwReceive
  <2>1. hw' = [hw EXCEPT !.hhp = hw.hhp + 1]
    BY <1>2 DEF HwReceive
  <2>2. /\ hw' \in [hdp : 0..mdp, seen : 0..mdp, hhp : Nat]
        /\ hw'.hdp = hw.hdp /\ hw'.seen = hw.seen
    BY <2>1 DEF NdpInv, NdpType
  <2>3. PICK v : log' = [log EXCEPT !.arrived = v]
    BY <1>2 DEF HwReceive
  <2>4. NdpType' /\ UNCHANGED Stored
    BY <1>2, <2>2, <2>3 DEF NdpInv, NdpType, HwReceive, Stored
  <2> QED
    BY <1>2, <2>4, QuietStep DEF HwReceive
<1>3. ASSUME NEW b \in BOOLEAN, recvmsg(b) PROVE NdpInv'
  <2>0. rx' = [rx EXCEPT !.shp = rx.shp + 1]
    BY <1>3 DEF recvmsg
  <2>1. rx' \in Queues
    <3>1. rx \in Queues
      BY DEF NdpInv, NdpType
    <3> QED
      BY <2>0, <3>1 DEF Queues
  <2>2. temp' \in Seq(Packets)
    BY <1>3 DEF NdpInv, NdpType, recvmsg, Packets
  <2>3. NdpType' /\ UNCHANGED Stored
    BY <1>3, <2>1, <2>2 DEF NdpInv, NdpType, recvmsg, Stored
  <2> QED
    BY <1>3, <2>3, QuietStep DEF recvmsg
<1> QED
  BY <1>1, <1>2, <1>3

LEMMA UpdateHdpStep ==
    ASSUME RingAssumption, NdpInv, UpdateHdp
    PROVE  NdpInv'
<1>1. PICK S \in Nat, F \in Nat, H \in Nat, G \in Nat : Window(S, F, H, G)
  BY DEF NdpInv
<1>2. G <= S /\ S - G <= mdp /\ tx.sdp = S % N /\ hw.seen = G % N
  BY <1>1 DEF Window, Pointers
<1>3. (hw.seen - (tx.sdp + 1)) % N = mdp - (S - G)
  BY <1>2, Room
<1>4. mdp - (S - G) \in 0..mdp
  BY <1>2, RingFacts
<1>5. tx' = [tx EXCEPT !.free = mdp - (S - G)]
  BY <1>3 DEF UpdateHdp
<1>6. tx' \in Queues
  BY <1>4, <1>5 DEF NdpInv, NdpType, Queues
<1>7. NdpType'
  BY <1>6 DEF NdpInv, NdpType, UpdateHdp
<1>8. /\ tx'.sdp = tx.sdp /\ tx'.hw = tx.hw /\ tx'.upper = tx.upper /\ tx'.npi = tx.npi
      /\ tx'.state = tx.state /\ tx'.free = mdp - (S - G)
  BY <1>5 DEF NdpInv, NdpType, Queues
<1>9. hw' = hw /\ tx.state # 0
  BY DEF UpdateHdp, NdpInv, NdpType
<1>10. Pointers(S, F, H, G)'
  <2>1. (mdp - (S - G)) + (S - G) <= mdp
    BY <1>4, RingFacts
  <2> QED
    BY <1>1, <1>8, <1>9, <2>1 DEF Window, Pointers
<1>11. Counts(S, H)'
  BY <1>1, <1>8 DEF Window, Counts, UpdateHdp
<1>12. Contents(S, H)'
  BY <1>1 DEF Window, Contents, UpdateHdp
<1> QED
  BY <1>7, <1>10, <1>11, <1>12 DEF NdpInv, Window

LEMMA FlushStep ==
    ASSUME RingAssumption, NdpInv, flush
    PROVE  NdpInv'
<1>1. PICK S \in Nat, F \in Nat, H \in Nat, G \in Nat : Window(S, F, H, G)
  BY DEF NdpInv
<1>2. tx' = [tx EXCEPT !.hw = tx.sdp] /\ call' = [call EXCEPT !.pc = "idle"]
  BY DEF flush
<1>3. /\ tx' \in Queues /\ tx'.hw = tx.sdp
      /\ tx'.sdp = tx.sdp /\ tx'.upper = tx.upper /\ tx'.npi = tx.npi
      /\ tx'.state = tx.state /\ tx'.free = tx.free
  BY <1>2 DEF NdpInv, NdpType, Queues
<1>4. NdpType'
  BY <1>2, <1>3 DEF NdpInv, NdpType, flush
<1>5. Pointers(S, S, H, G)'
  BY <1>1, <1>3 DEF Window, Pointers, flush
<1>6. Counts(S, H)'
  BY <1>1, <1>3 DEF Window, Counts, flush
<1>7. Contents(S, H)'
  BY <1>1 DEF Window, Contents, flush
<1> QED
  BY <1>4, <1>5, <1>6, <1>7 DEF NdpInv, Window

\* A packet is written after the last one; no descriptor and no slot that is still
\* to be read has its place, for there are fewer than N of them.
LEMMA PushDescStep ==
    ASSUME RingAssumption, NdpInv, PushDesc
    PROVE  NdpInv'
<1>1. PICK S \in Nat, F \in Nat, H \in Nat, G \in Nat : Window(S, F, H, G)
  BY DEF NdpInv
<1> DEFINE pkt == call.pkt
           acc == log.accepted
<1>2. /\ G <= H /\ H <= F /\ F <= S /\ tx.sdp = S % N /\ tx.hw = F % N
      /\ hw.hdp = H % N /\ hw.seen = G % N /\ tx.free + (S - G) <= mdp
  BY <1>1 DEF Window, Pointers
<1>3. tx \in Queues /\ tx.free \in 0..mdp /\ tx.state # 0
  BY DEF PushDesc, NdpInv, NdpType, Queues
<1>4. tx.free >= 2 /\ S - G <= N - 3
  BY <1>2, <1>3, RingFacts DEF PushDesc
<1>5. /\ ring \in [0..mdp -> RingDescs] /\ buf \in [0..mdp -> Packets]
      /\ pkt \in Packets /\ acc \in Seq(Packets)
  BY DEF NdpInv, NdpType
<1>6. /\ call' \in [pc : {"idle", "wait", "flush"}, pkt : Packets, flush : BOOLEAN, todo : Seq(Packets)]
      /\ call'.pc # "wait"
  BY DEF PushDesc, NdpInv, NdpType
<1>7. /\ log'.accepted = Append(acc, pkt) /\ log'.sent = log.sent /\ log'.lost = log.lost
      /\ log' = [accepted |-> log'.accepted, sent |-> log'.sent, lost |-> log'.lost,
                 arrived |-> log'.arrived, received |-> log'.received]
  BY DEF PushDesc, NdpInv, NdpType
<1>8. buf' = [buf EXCEPT ![tx.npi] = pkt] /\ tx.npi = Len(acc) % N
  BY <1>1 DEF PushDesc, Window, Counts
<1>9. /\ Len(acc) \in Nat /\ Append(acc, pkt) \in Seq(Packets)
      /\ Len(Append(acc, pkt)) = Len(acc) + 1 /\ Append(acc, pkt)[Len(acc) + 1] = pkt
      /\ \A k \in 1..Len(acc) : Append(acc, pkt)[k] = acc[k]
  BY <1>5
<1>10. Len(acc) % N \in 0..mdp /\ buf' \in [0..mdp -> Packets] /\ buf'[Len(acc) % N] = pkt
  <2>1. Len(acc) % N \in 0..mdp
    BY <1>9, Below
  <2> QED
    BY <1>5, <1>8, <2>1
<1>11. hw' = hw /\ rx' = rx /\ temp' = temp
  BY DEF PushDesc
<1>12. tx' \in Queues /\ ring' \in [0..mdp -> RingDescs] => NdpType'
  BY <1>6, <1>7, <1>9, <1>10, <1>11 DEF NdpInv, NdpType
<1>13. CASE tx.upper = None
  <2>1. S = 0 /\ F = 0 /\ H = 0 /\ G = 0 /\ acc = <<>> /\ Len(acc) = 0
    BY <1>1, <1>2, <1>13 DEF Window, Counts
  <2>2. 0 % N = 0 /\ 1 % N = 1 /\ 2 % N = 2 /\ mdp >= 2 /\ 0 + 1 = 1 /\ 1 + 1 = 2
    BY RingFacts, Small
  <2>3. tx.sdp = 0 /\ tx.npi = 0
    BY <1>2, <1>8, <2>1, <2>2
  <2>4. ring' = [[ring EXCEPT ![0] = [type |-> "upper"]] EXCEPT ![1] = [type |-> "packet", slot |-> 0]]
    BY <1>13, <2>2, <2>3 DEF PushDesc
  <2>5. tx' = [tx EXCEPT !.sdp = 2, !.free = tx.free - 2, !.npi = 1, !.upper = 0]
    <3>1. tx' = [tx EXCEPT !.sdp = (1 + 1) % N, !.free = tx.free - 2, !.npi = (0 + 1) % N, !.upper = 0]
      BY <1>13, <2>2, <2>3 DEF PushDesc
    <3> QED
      BY <2>2, <3>1
  <2>6. tx.free - 2 \in 0..mdp /\ 0 \in 0..mdp /\ 1 \in 0..mdp /\ 2 \in 0..mdp
    BY <1>3, <1>4, <2>2, RingFacts
  <2>7. /\ tx' \in Queues /\ tx'.sdp = 2 /\ tx'.free = tx.free - 2 /\ tx'.npi = 1
        /\ tx'.upper = 0 /\ tx'.hw = tx.hw /\ tx'.state = tx.state
    BY <1>3, <2>5, <2>6 DEF Queues
  <2>8. /\ ring' \in [0..mdp -> RingDescs] /\ ring'[0].type = "upper"
        /\ ring'[1] = [type |-> "packet", slot |-> 0]
    BY <1>5, <2>4, <2>6 DEF RingDescs
  <2>9. Pointers(2, 0, 0, 0)'
    BY <1>2, <1>3, <1>4, <1>11, <2>1, <2>2, <2>7, RingFacts DEF Pointers
  <2>10. Counts(2, 0)'
    <3>1. Len(log.sent) = 0
      BY <1>1, <2>1 DEF Window, Counts
    <3> QED
      BY <1>7, <1>9, <2>1, <2>2, <2>7, <3>1 DEF Counts, RingAssumption
  <2>11. Contents(2, 0)'
    <3>1. Len(log'.sent) = 0
      BY <1>1, <1>7, <2>1 DEF Window, Counts
    <3>2. \A k \in 0..(2 - 1) : k = 0 \/ k = 1
      BY SMT
    <3>3. buf'[(1 - 1) % N] = log'.accepted[1] /\ (1 - 1) % N = 0
      BY <1>7, <1>9, <1>10, <2>1, <2>2
    <3> QED
      BY <2>2, <2>8, <3>1, <3>2, <3>3 DEF Contents
  <2>12. Window(2, 0, 0, 0)'
    BY <2>9, <2>10, <2>11 DEF Window
  <2> QED
    BY <1>12, <2>7, <2>8, <2>12 DEF NdpInv
<1>14. CASE tx.upper # None
  <2>1. S = Len(acc) + 1 /\ Len(acc) = S - 1
    BY <1>1, <1>9, <1>14 DEF Window, Counts
  <2>2. ((S % N) + 1) % N = (S + 1) % N /\ (((S - 1) % N) + 1) % N = S % N
    <3>1. (S - 1) + 1 = S /\ S - 1 \in Int
      OBVIOUS
    <3> QED
      BY <3>1, ModShift
  <2>3. tx' = [tx EXCEPT !.sdp = (S + 1) % N, !.free = tx.free - 1, !.npi = S % N, !.upper = 0]
    BY <1>2, <1>8, <1>14, <2>1, <2>2 DEF PushDesc
  <2>4. tx.free - 1 \in 0..mdp /\ (S + 1) % N \in 0..mdp /\ S % N \in 0..mdp
    <3>1. tx.free - 1 \in 0..mdp
      BY <1>3, <1>4, RingFacts
    <3> QED
      BY <3>1, Below
  <2>5. /\ tx' \in Queues /\ tx'.sdp = (S + 1) % N /\ tx'.free = tx.free - 1 /\ tx'.npi = S % N
        /\ tx'.upper = 0 /\ tx'.hw = tx.hw /\ tx'.state = tx.state
    BY <1>3, <2>3, <2>4 DEF Queues
  <2>6. ring' = [ring EXCEPT ![S % N] = [type |-> "packet", slot |-> (S - 1) % N]]
    BY <1>2, <1>8, <1>14, <2>1 DEF PushDesc
  <2>7. /\ ring' \in [0..mdp -> RingDescs]
        /\ ring'[S % N] = [type |-> "packet", slot |-> (S - 1) % N]
    BY <1>5, <1>10, <2>1, <2>4, <2>6 DEF RingDescs
  <2>8. Pointers(S + 1, F, H, G)'
    <3>1. (tx.free - 1) + ((S + 1) - G) <= mdp /\ (S + 1) - G <= mdp /\ F <= S + 1
      BY <1>2, <1>3, <1>4, RingFacts
    <3> QED
      BY <1>2, <1>3, <1>11, <2>5, <3>1 DEF Pointers
  <2>9. Counts(S + 1, H)'
    <3>1. Len(log.sent) = IF H = 0 THEN 0 ELSE H - 1
      BY <1>1 DEF Window, Counts
    <3> QED
      BY <1>7, <1>9, <2>1, <2>5, <3>1 DEF Counts, RingAssumption
  <2>10. \A k \in H..(S - 1) : ring'[k % N] = ring[k % N] /\ (k > 0 => buf'[(k - 1) % N] = buf[(k - 1) % N])
    <3> SUFFICES ASSUME NEW k \in H..(S - 1)
                 PROVE  ring'[k % N] = ring[k % N] /\ buf'[(k - 1) % N] = buf[(k - 1) % N]
      OBVIOUS
    <3>1. k \in Int /\ k < S /\ S < k + N /\ k - 1 \in Int /\ S - 1 \in Int
          /\ k - 1 < S - 1 /\ S - 1 < (k - 1) + N
      BY <1>2, <1>4, RingFacts
    <3>2. k % N # S % N /\ (k - 1) % N # (S - 1) % N
      BY <3>1, ModApart
    <3>3. k % N \in 0..mdp /\ (k - 1) % N \in 0..mdp
      BY <3>1, Division
    <3> QED
      BY <1>5, <1>8, <2>1, <2>6, <3>2, <3>3
  <2>11. Contents(S + 1, H)'
    <3>1. ASSUME NEW k \in 1..Len(log'.sent) PROVE log'.sent[k] = log'.accepted[k]
      <4>1. log.sent[k] = acc[k] /\ k \in 1..Len(acc)
        <5>1. Len(log.sent) <= Len(acc)
          BY <1>1, <1>2, <2>1 DEF Window, Counts
        <5>2. log.sent \in Seq(Packets)
          BY DEF NdpInv, NdpType
        <5> QED
          BY <1>1, <1>7, <1>9, <3>1, <5>1, <5>2 DEF Window, Contents
      <4> QED
        BY <1>7, <1>9, <4>1
    <3>2. ASSUME NEW k \in H..((S + 1) - 1)
          PROVE  IF k = 0 THEN ring'[0].type = "upper"
                 ELSE /\ ring'[k % N] = [type |-> "packet", slot |-> (k - 1) % N]
                      /\ buf'[(k - 1) % N] = log'.accepted[k]
      <4>1. CASE k = S
        BY <1>7, <1>9, <1>10, <2>1, <2>7, <4>1
      <4>2. CASE k \in H..(S - 1) /\ k = 0
        <5>1. 0 % N = 0
          BY RingFacts, Small
        <5>2. ring[0].type = "upper"
          BY <1>1, <4>2 DEF Window, Contents
        <5> QED
          BY <2>10, <4>2, <5>1, <5>2
      <4>3. CASE k \in H..(S - 1) /\ k # 0
        <5>1. /\ ring[k % N] = [type |-> "packet", slot |-> (k - 1) % N]
              /\ buf[(k - 1) % N] = acc[k]
          BY <1>1, <4>3 DEF Window, Contents
        <5>2. k \in 1..Len(acc) /\ k > 0
          BY <2>1, <4>3
        <5> QED
          BY <1>7, <1>9, <2>10, <4>3, <5>1, <5>2
      <4> QED
        BY <4>1, <4>2, <4>3, <3>2
    <3> QED
      BY <3>1, <3>2 DEF Contents
  <2>12. Window(S + 1, F, H, G)' /\ S + 1 \in Nat
    BY <2>8, <2>9, <2>11 DEF Window
  <2> QED
    BY <1>12, <2>5, <2>7, <2>12 DEF NdpInv
<1> QED
  BY <1>13, <1>14

(* ----------------------------------------------------- the steps of the controller -- *)
LEMMA HwSendStep ==
    ASSUME RingAssumption, NdpInv, HwSend
    PROVE  NdpInv'
<1>1. PICK S \in Nat, F \in Nat, H \in Nat, G \in Nat : Window(S, F, H, G)
  BY DEF NdpInv
<1>2. /\ G <= H /\ H <= F /\ F <= S /\ S - G <= mdp
      /\ tx.hw = F % N /\ hw.hdp = H % N /\ hw.seen = G % N
  BY <1>1 DEF Window, Pointers
<1>3. H < F
  BY <1>2 DEF HwSend
<1>4. hw' = [hw EXCEPT !.hdp = (H + 1) % N] /\ (H + 1) % N \in 0..mdp
  <2>1. ((H % N) + 1) % N = (H + 1) % N
    BY ModShift
  <2> QED
    BY <1>2, <2>1, Division DEF HwSend
<1>5. /\ hw' \in [hdp : 0..mdp, seen : 0..mdp, hhp : Nat]
      /\ hw'.hdp = (H + 1) % N /\ hw'.seen = hw.seen
  BY <1>4 DEF NdpInv, NdpType
<1>6. tx' = tx /\ ring' = ring /\ buf' = buf /\ call' = call /\ temp' = temp /\ rx' = rx
  BY DEF HwSend
<1>7. Pointers(S, F, H + 1, G)'
  BY <1>1, <1>2, <1>3, <1>5, <1>6 DEF Window, Pointers
<1>8. CASE H = 0
  <2>1. ring[hw.hdp].type = "upper"
    <3>1. H % N = 0
      BY <1>8, RingFacts, Small
    <3>2. 0 \in H..(S - 1)
      BY <1>2, <1>3, <1>8
    <3> QED
      BY <1>1, <1>2, <3>1, <3>2 DEF Window, Contents
  <2>2. log' = log
    BY <2>1 DEF HwSend
  <2>3. NdpType'
    BY <1>5, <1>6, <2>2 DEF NdpInv, NdpType
  <2>4. Counts(S, H + 1)'
    BY <1>1, <1>6, <1>8, <2>2 DEF Window, Counts
  <2>5. Contents(S, H + 1)'
    BY <1>1, <1>6, <1>8, <2>2 DEF Window, Contents
  <2> QED
    BY <1>7, <2>3, <2>4, <2>5 DEF NdpInv, Window
<1>9. CASE H # 0
  <2> DEFINE p == log.accepted[H]
  <2>1. /\ ring[hw.hdp] = [type |-> "packet", slot |-> (H - 1) % N]
        /\ buf[(H - 1) % N] = p
    <3>1. H \in H..(S - 1)
      BY <1>2, <1>3
    <3> QED
      BY <1>1, <1>2, <1>9, <3>1 DEF Window, Contents
  <2>2. p \in Packets
    <3>1. (H - 1) % N \in 0..mdp
      BY Division
    <3> QED
      BY <2>1, <3>1 DEF NdpInv, NdpType
  <2>3. log' = [log EXCEPT !.sent = Append(log.sent, p)]
    BY <2>1 DEF HwSend
  <2>4. log.sent \in Seq(Packets) /\ Len(log.sent) = H - 1
    BY <1>1, <1>9 DEF NdpInv, NdpType, Window, Counts
  <2> HIDE DEF p
  <2>5. /\ Append(log.sent, p) \in Seq(Packets)
        /\ Len(Append(log.sent, p)) = H /\ Append(log.sent, p)[H] = p
        /\ \A k \in 1..(H - 1) : Append(log.sent, p)[k] = log.sent[k]
    BY <2>2, <2>4
  <2>6. /\ log'.accepted = log.accepted /\ log'.sent = Append(log.sent, p) /\ log'.lost = log.lost
        /\ log' = [accepted |-> log'.accepted, sent |-> log'.sent, lost |-> log'.lost,
                   arrived |-> log'.arrived, received |-> log'.received]
    BY <2>3 DEF NdpInv, NdpType
  <2>7. NdpType'
    BY <1>5, <1>6, <2>5, <2>6 DEF NdpInv, NdpType
  <2>8. Counts(S, H + 1)'
    BY <1>1, <1>6, <2>5, <2>6 DEF Window, Counts
  <2>9. Contents(S, H + 1)'
    <3>1. ASSUME NEW k \in 1..Len(log'.sent) PROVE log'.sent[k] = log'.accepted[k]
      <4>1. k \in 1..(H - 1) \/ k = H
        BY <2>5, <2>6, <3>1
      <4>2. CASE k = H
        BY <2>5, <2>6, <4>2 DEF p
      <4>3. CASE k \in 1..(H - 1)
        BY <1>1, <2>4, <2>5, <2>6, <4>3 DEF Window, Contents
      <4> QED
        BY <4>1, <4>2, <4>3
    <3>2. \A k \in (H + 1)..(S - 1) : k \in H..(S - 1)
      OBVIOUS
    <3> QED
      BY <1>1, <1>6, <2>6, <3>1, <3>2 DEF Window, Contents
  <2> QED
    BY <1>7, <2>7, <2>8, <2>9 DEF NdpInv, Window
<1> QED
  BY <1>8, <1>9

LEMMA HwPublishStep ==
    ASSUME RingAssumption, NdpInv, HwPublish
    PROVE  NdpInv'
<1>1. PICK S \in Nat, F \in Nat, H \in Nat, G \in Nat : Window(S, F, H, G)
  BY DEF NdpInv
<1>2. hw' = [hw EXCEPT !.seen = hw.hdp]
  BY DEF HwPublish
<1>3. /\ hw' \in [hdp : 0..mdp, seen : 0..mdp, hhp : Nat]
      /\ hw'.hdp = hw.hdp /\ hw'.seen = hw.hdp
  BY <1>2 DEF NdpInv, NdpType
<1>4. NdpType'
  BY <1>3 DEF NdpInv, NdpType, HwPublish
<1>5. Pointers(S, F, H, H)'
  <2>1. tx' = tx
    BY DEF HwPublish
  <2>2. tx.free \in Nat
    BY RingFacts DEF NdpInv, NdpType, Queues
  <2>3. mdp \in Nat
    BY RingFacts
  <2> QED
    BY <1>1, <1>3, <2>1, <2>2, <2>3 DEF Window, Pointers
<1>6. Counts(S, H)'
  BY <1>1 DEF Window, Counts, HwPublish
<1>7. Contents(S, H)'
  BY <1>1 DEF Window, Contents, HwPublish
<1> QED
  BY <1>4, <1>5, <1>6, <1>7 DEF NdpInv, Window

LEMMA InvStep == ASSUME RingAssumption, NdpInv, [Next]_vars PROVE NdpInv'
<1>1. CASE \E f \in BOOLEAN : Send(f)
  BY <1>1, SendStep
<1>2. CASE _push_desc \/ HwReceive \/ \E b \in BOOLEAN : recvmsg(b)
  BY <1>2, ReceiveSteps
<1>3. CASE UpdateHdp
  BY <1>3, UpdateHdpStep
<1>4. CASE PushDesc
  BY <1>4, PushDescStep
<1>5. CASE flush
  BY <1>5, FlushStep
<1>6. CASE TxBurstGet \/ TxBurstPut \/ RxBurstPut \/ ManagerSend
  BY <1>6, BurstSteps
<1>7. CASE NextOfBurst
  BY <1>7, NextOfBurstStep
<1>8. CASE HwSend
  BY <1>8, HwSendStep
<1>9. CASE HwPublish
  BY <1>9, HwPublishStep
<1>10. CASE UNCHANGED vars
  <2>1. PICK S \in Nat, F \in Nat, H \in Nat, G \in Nat : Window(S, F, H, G)
    BY DEF NdpInv
  <2>2. Window(S, F, H, G)'
    BY <1>10, <2>1 DEF vars, Window, Pointers, Counts, Contents
  <2>3. NdpType'
    BY <1>10 DEF vars, NdpInv, NdpType
  <2> QED
    BY <2>2, <2>3 DEF NdpInv
<1> QED
  BY <1>1, <1>2, <1>3, <1>4, <1>5, <1>6, <1>7, <1>8, <1>9, <1>10 DEF Next

(* ----------------------------------------------------------------------- theorems -- *)
\* At every step, each descriptor and slot that the controller has still to read
\* holds what sendmsg of queue.py wrote there, and it knows of room for fewer than N.
THEOREM WindowKept == ASSUME RingAssumption PROVE Spec => []NdpInv
<1>1. Init => NdpInv
  BY InvInit
<1>2. NdpInv /\ [Next]_vars => NdpInv'
  BY InvStep
<1> QED
  BY <1>1, <1>2, PTL DEF Spec

\* The pointers of queue.py, its room and the index of the next packet stay below N.
THEOREM TypesKept == ASSUME RingAssumption PROVE Spec => []TypeOK
<1>1. NdpInv => TypeOK
  BY DEF NdpInv, NdpType, Queues, TypeOK
<1> QED
  BY <1>1, WindowKept, PTL

\* Whatever the sizes, the pace of the controller and the number of packets, the
\* packets that queue.py accepted leave in order and with their own bytes, although
\* it reuses descriptors and slots by a pointer of the controller that may be old.
THEOREM AcceptedAreSent == ASSUME RingAssumption PROVE Spec => []SentAsAccepted
<1>1. NdpInv => SentAsAccepted
  <2> SUFFICES ASSUME NdpInv PROVE SentAsAccepted
    OBVIOUS
  <2>1. PICK S \in Nat, F \in Nat, H \in Nat, G \in Nat : Window(S, F, H, G)
    BY DEF NdpInv
  <2> DEFINE s == log.sent
             a == log.accepted
  <2>2. s \in Seq(Packets) /\ a \in Seq(Packets) /\ tx.upper \in {0, None}
    BY DEF NdpInv, NdpType, Queues
  <2>3. Len(s) <= Len(a) /\ \A k \in 1..Len(s) : s[k] = a[k]
    BY <2>1, <2>2 DEF Window, Pointers, Counts, Contents
  <2> HIDE DEF s, a
  <2>4. SubSeq(s, 1, Len(s)) = SubSeq(a, 1, Len(s))
    BY <2>2, <2>3
  <2> QED
    BY <2>3, <2>4 DEF SentAsAccepted, IsPrefix, s, a
<1> QED
  BY <1>1, WindowKept, PTL
=============================================================================
