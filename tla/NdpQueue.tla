------------------------------- MODULE NdpQueue -------------------------------
(* The NDP queues of the cocotb benches: cocotbext/nfb/queue.py and the queue *)
(* classes of cocotbext/nfb/ext/python/servicer.py, with one DMA controller.  *)
(* The transmit side writes packets into slots of the host memory and their   *)
(* descriptors into a ring; the controller reads both at its own pace.        *)
EXTENDS Integers, Sequences, FiniteSets, SequencesExt

CONSTANTS N,        \* descriptors of a ring, slots of a buffer: 256 in the code
          MaxPkts,  \* bound: packets in either direction
          None

\* A start may need two descriptors beside the free one; None is no address.
RingAssumption == N \in Nat \ {0, 1, 2} /\ None # 0

VARIABLES tx,    \* QueueNdpTx: state, sdp, hw (flushed sdp), free, npi, upper
          ring,  \* [0..N-1 -> descriptor of the transmit ring]
          buf,   \* [0..N-1 -> packet in the slot of the host memory]
          call,  \* sendmsg: pc, the packet, its flush flag; what burst_put has to send
          temp,  \* _burst_temp, one list for all queues
          hw,    \* the controller: hdp, the hdp it has published, rx header pointer
          rx,    \* QueueNdpRx: state, sdp, free, shp, upper
          rxdesc,\* slots whose descriptors the controller has, in order
          log    \* accepted, sent, lost (by QueueManager.send), arrived, received
vars == <<tx, ring, buf, call, temp, hw, rx, rxdesc, log>>

mdp == N - 1                                     \* a mask: N is a power of two
Count == Len(log.accepted) + Len(temp) + Len(call.todo) + log.lost
      + (IF call.pc = "idle" THEN 0 ELSE 1)

(* ------------------------------------------------------------------ sendmsg -- *)
\* start(), at the first packet.
Started(q) == IF q.state = 1 THEN q ELSE [q EXCEPT !.state = 1, !.free = mdp, !.npi = 0]

sendmsg(pkt, flush) ==
    /\ tx' = Started(tx)
    /\ call' = [call EXCEPT !.pc = "wait", !.pkt = pkt, !.flush = flush]

Send(flush) ==
    /\ call.pc = "idle" /\ call.todo = <<>> /\ Count < MaxPkts
    /\ sendmsg(Len(log.accepted) + Len(temp) + log.lost + 1, flush)
    /\ UNCHANGED <<ring, buf, temp, hw, rx, rxdesc, log>>

\* Mutant: the difference of the pointers is not masked.
UpdateHdpUnmasked ==
    /\ call.pc = "wait" /\ tx.free < 2
    /\ tx' = [tx EXCEPT !.free = hw.seen - (tx.sdp + 1)]
    /\ UNCHANGED <<ring, buf, call, temp, hw, rx, rxdesc, log>>

\* A poll of the pointer the controller has published.
UpdateHdp ==
    /\ call.pc = "wait" /\ tx.free < 2
    /\ tx' = [tx EXCEPT !.free = (hw.seen - (tx.sdp + 1)) % N]
    /\ UNCHANGED <<ring, buf, call, temp, hw, rx, rxdesc, log>>

\* The descriptor of the upper address, when it changes, and that of the packet.
PushDesc ==
    /\ call.pc = "wait" /\ tx.free >= 2
    /\ LET upper == tx.upper = None
           at    == IF upper THEN (tx.sdp + 1) % N ELSE tx.sdp
           desc  == [type |-> "packet", slot |-> tx.npi]
       IN  /\ ring' = IF upper THEN [ring EXCEPT ![tx.sdp] = [type |-> "upper"], ![at] = desc]
                      ELSE [ring EXCEPT ![at] = desc]
           /\ tx' = [tx EXCEPT !.sdp = (at + 1) % N, !.free = @ - (IF upper THEN 2 ELSE 1),
                               !.npi = (@ + 1) % N, !.upper = 0]
    /\ buf' = [buf EXCEPT ![tx.npi] = call.pkt]
    /\ log' = [log EXCEPT !.accepted = Append(@, call.pkt)]
    /\ call' = [call EXCEPT !.pc = IF call.flush THEN "flush" ELSE "idle"]
    /\ UNCHANGED <<temp, hw, rx, rxdesc>>

flush ==
    /\ call.pc = "flush" \/ (call.pc = "idle" /\ tx.state = 1 /\ tx.hw # tx.sdp)
    /\ tx' = [tx EXCEPT !.hw = tx.sdp]
    /\ call' = [call EXCEPT !.pc = "idle"]
    /\ UNCHANGED <<ring, buf, temp, hw, rx, rxdesc, log>>

\* QueueManager.send awaits send, which returns the coroutine of sendmsg unawaited.
ManagerSend ==
    /\ call.pc = "idle" /\ call.todo = <<>> /\ Count < MaxPkts
    /\ log' = [log EXCEPT !.lost = @ + 1]
    /\ UNCHANGED <<tx, ring, buf, call, temp, hw, rx, rxdesc>>

(* ------------------------------------------------------- bursts of the servicer -- *)
TxBurstGet ==
    /\ call.pc = "idle" /\ call.todo = <<>> /\ Count < MaxPkts
    /\ temp' = Append(temp, Len(log.accepted) + Len(temp) + log.lost + 1)
    /\ UNCHANGED <<tx, ring, buf, call, hw, rx, rxdesc, log>>

TxBurstPut ==
    /\ call.pc = "idle" /\ call.todo = <<>> /\ temp # <<>>
    /\ call' = [call EXCEPT !.todo = temp]
    /\ temp' = <<>>
    /\ UNCHANGED <<tx, ring, buf, hw, rx, rxdesc, log>>

NextOfBurst ==
    /\ call.pc = "idle" /\ call.todo # <<>>
    /\ tx' = Started(tx)
    /\ call' = [pc |-> "wait", pkt |-> Head(call.todo), flush |-> TRUE, todo |-> Tail(call.todo)]
    /\ UNCHANGED <<ring, buf, temp, hw, rx, rxdesc, log>>

(* ----------------------------------------------------------------- receive side -- *)
\* The number of free descriptors is never refreshed: the ring is filled once.
_push_desc ==
    /\ rx.state = 0 \/ rx.free >= 2
    /\ LET q     == Started(rx)
           upper == q.upper = None
       IN  /\ rx' = [q EXCEPT !.sdp = (@ + (IF upper THEN 2 ELSE 1)) % N, !.upper = 0,
                              !.free = @ - (IF upper THEN 2 ELSE 1)]
           /\ rxdesc' = Append(rxdesc, q.sdp)
    /\ UNCHANGED <<tx, ring, buf, call, temp, hw, log>>

\* The packet is looked for in the slot of its header.  Inside a burst it also
\* joins the list that the transmit queues send.
recvmsg(burst) ==
    /\ rx.state = 1 /\ rx.shp # hw.hhp
    /\ log' = [log EXCEPT !.received = Append(@, [slot |-> rx.shp % N])]
    /\ rx' = [rx EXCEPT !.shp = @ + 1]
    /\ temp' = IF burst THEN Append(temp, None) ELSE temp
    /\ call.pc = "idle" /\ call.todo = <<>> /\ (burst => Count < MaxPkts)
    /\ UNCHANGED <<tx, ring, buf, call, hw, rxdesc>>

RxBurstPut ==
    /\ temp # <<>> /\ call.pc = "idle" /\ call.todo = <<>>
    /\ temp' = <<>>
    /\ log' = [log EXCEPT !.lost = @ + Len(temp)]
    /\ UNCHANGED <<tx, ring, buf, call, hw, rx, rxdesc>>

(* ---------------------------------------------------- the controller (external) -- *)
HwSend ==
    /\ hw.hdp # tx.hw
    /\ LET d == ring[hw.hdp]
       IN  log' = IF d.type = "packet" THEN [log EXCEPT !.sent = Append(@, buf[d.slot])] ELSE log
    /\ hw' = [hw EXCEPT !.hdp = (@ + 1) % N]
    /\ UNCHANGED <<tx, ring, buf, call, temp, rx, rxdesc>>

HwPublish ==
    /\ hw.seen # hw.hdp
    /\ hw' = [hw EXCEPT !.seen = hw.hdp]
    /\ UNCHANGED <<tx, ring, buf, call, temp, rx, rxdesc, log>>

HwReceive ==
    /\ hw.hhp < Len(rxdesc)
    /\ log' = [log EXCEPT !.arrived = Append(@, [slot |-> rxdesc[hw.hhp + 1]])]
    /\ hw' = [hw EXCEPT !.hhp = @ + 1]
    /\ UNCHANGED <<tx, ring, buf, call, temp, rx, rxdesc>>

(* -------------------------------------------------------------- specification -- *)
Queue0 == [state |-> 0, sdp |-> 0, hw |-> 0, free |-> 0, npi |-> 0, shp |-> 0, upper |-> None]

Init ==
    /\ tx = Queue0
    /\ \E upper \in {0, None} : rx = [Queue0 EXCEPT !.upper = upper]
    /\ ring = [k \in 0..(N - 1) |-> [type |-> "none"]] /\ buf = [k \in 0..(N - 1) |-> 0]
    /\ call = [pc |-> "idle", pkt |-> 0, flush |-> TRUE, todo |-> <<>>] /\ temp = <<>>
    /\ hw = [hdp |-> 0, seen |-> 0, hhp |-> 0] /\ rxdesc = <<>>
    /\ log = [accepted |-> <<>>, sent |-> <<>>, lost |-> 0, arrived |-> <<>>, received |-> <<>>]

Next ==
    \/ \E f \in BOOLEAN : Send(f) \/ recvmsg(f)
    \/ UpdateHdp \/ PushDesc \/ flush \/ ManagerSend
    \/ TxBurstGet \/ TxBurstPut \/ NextOfBurst \/ RxBurstPut \/ _push_desc
    \/ HwSend \/ HwPublish \/ HwReceive

Spec == Init /\ [][Next]_vars

(* ---------------------------------------------------------------- properties -- *)
TypeOK ==
    /\ tx.sdp \in 0..mdp /\ tx.hw \in 0..mdp /\ tx.free \in 0..mdp /\ tx.npi \in 0..mdp
    /\ rx.sdp \in 0..mdp /\ rx.free \in 0..mdp
    /\ hw.hdp \in 0..mdp /\ hw.seen \in 0..mdp
    /\ call.pc \in {"idle", "wait", "flush"}

\* The controller sends the packets that were accepted, in their order and with
\* their own bytes, although descriptors and slots are used again while it is
\* still behind, and the program knows an old pointer of it.
SentAsAccepted == IsPrefix(log.sent, log.accepted)
=============================================================================
