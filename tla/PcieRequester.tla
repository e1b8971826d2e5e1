----------------------------- MODULE PcieRequester -----------------------------
(* The host of a simulation as the target of the device's DMA requests:        *)
(* cocotbext/ofm/pcie/{Axi4SRequester,AvstRequester}.py with the agents of     *)
(* their buses, avst_pcie/{drivers,monitors}.py and axi4stream/drivers.py.     *)
(* A frame is the sequence of its dwords, a dword is <<request, index>>.       *)
EXTENDS Integers, Sequences, SequencesExt

CONSTANTS Beat,        \* dwords of a bus word (16)
          Quarter,     \* dwords between two places where a frame may start (4)
          Header,      \* dwords of a request header on AXI (4)
          Completion,  \* dwords of a completion header on AXI (3)
          LengthMod,   \* AVST: the length field has 10 bits (1024)
          Latency,     \* AVST: _ready_latency (27)
          Addresses, Lengths,
          MaxRequests, \* bound: requests of the device
          None

VARIABLES bus,      \* "axi" or "avst": which of the two pairs of classes
          issued,   \* requests of the device: [write, addr, dwords]
          sent,     \* [pkt, idx]: next dword the device puts on the bus
          inframe,  \* _rq_inframe; the _transaction of the AVST monitor
          ram, q,   \* the host's memory; _q: reads with their data
          resp,     \* handle_response on AXI: the completion being sent
          driver,   \* AVST driver: rc, cq queues, queue_select, in_frame, ready latency
          rx, got   \* device: the frame being received, the frames received
vars == <<bus, issued, sent, inframe, ram, q, resp, driver, rx, got>>

Junk == <<0, 0>>
Lower(a, b) == IF a < b THEN a ELSE b
Top == CHOOSE a \in Addresses : \A b \in Addresses : b <= a
MaxLength == CHOOSE a \in Lengths : \A b \in Lengths : b <= a
Memory == 0 .. Top + MaxLength + Beat

(* ------------------------------------------------------- the device, requests -- *)
\* On AVST the header has wires of its own and a frame fills its last segment.
Size(p) == LET n == IF issued[p].write THEN issued[p].dwords ELSE 0
           IN  IF bus = "axi" THEN Header + n ELSE IF n = 0 THEN 1 ELSE n
Dword(p, i) == IF bus = "avst" /\ ~issued[p].write THEN Junk ELSE <<p, i>>

Request(write, a, n) ==
    /\ Len(issued) < MaxRequests
    /\ issued' = Append(issued, [write |-> write, addr |-> a, dwords |-> n])
    /\ UNCHANGED <<bus, sent, inframe, ram, q, resp, driver, rx, got>>

\* A word: the rest of a frame and perhaps the start of the next one, at `start`.
Word(start) ==
    LET p == sent.pkt  rest == Size(p) - sent.idx  n == Lower(rest, Beat)
        m == IF start = None THEN 0 ELSE Lower(Size(p + 1), Beat - start)
        sop1 == IF sent.idx = 0 THEN <<0>> ELSE <<>>
        eop1 == IF rest <= Beat THEN <<n - 1>> ELSE <<>>
    IN  [slots |-> [k \in 1 .. Beat |->
                      IF k <= n THEN Dword(p, sent.idx + k - 1)
                      ELSE IF start # None /\ k > start /\ k <= start + m THEN Dword(p + 1, k - start - 1)
                      ELSE Junk],
         pkts |-> IF start = None THEN <<p>> ELSE <<p, p + 1>>,
         sop |-> sop1 \o (IF start = None THEN <<>> ELSE <<start \div Quarter>>),
         eop |-> eop1 \o (IF m > 0 /\ m = Size(p + 1) THEN <<start + m - 1>> ELSE <<>>),
         next |-> IF m > 0 THEN (IF m = Size(p + 1) THEN [pkt |-> p + 2, idx |-> 0] ELSE [pkt |-> p + 1, idx |-> m])
                  ELSE IF rest <= Beat THEN [pkt |-> p + 1, idx |-> 0]
                  ELSE [pkt |-> p, idx |-> sent.idx + Beat]]

Starts == {s \in 0 .. Beat - 1 : /\ s % Quarter = 0 /\ s >= Size(sent.pkt) - sent.idx
                                 /\ sent.pkt < Len(issued)} \cup {None}

(* -------------------------------------------------------------- handle_request -- *)
\* Byte enables are not looked at; a write stores its payload, a read is served now.
\* AVST: the payload is all that the segments carried, the length has 10 bits.
handle_request(host, p, payload) ==
    LET r == issued[p]
        n == IF bus = "axi" THEN r.dwords ELSE r.dwords % LengthMod
    IN  IF r.write
        THEN [host EXCEPT !.ram = [a \in Memory |-> LET k == a - r.addr + 1
                                                    IN  IF k \in DOMAIN payload THEN payload[k] ELSE host.ram[a]]]
        ELSE [host EXCEPT !.q = Append(@, [tag |-> p, data |-> [k \in 1 .. n |-> host.ram[r.addr + k - 1]]])]

\* A frame of AXI begins with its header, which also gives the length of the payload.
AxiRequest(host, f) ==
    handle_request(host, f[1][1], SubSeq(f, Header + 1, Header + issued[f[1][1]].dwords))

\* The end of the frame of earlier words, then one frame for each start.
AxiFrames(w) ==
    LET closes == inframe # None /\ w.eop # <<>>
        eops == IF closes THEN Tail(w.eop) ELSE w.eop
        Piece(i) == SubSeq(w.slots, w.sop[i] * Quarter + 1, IF i <= Len(eops) THEN eops[i] + 1 ELSE Beat)
    IN  [done |-> (IF closes THEN <<inframe \o SubSeq(w.slots, 1, Head(w.eop) + 1)>> ELSE <<>>)
                  \o [i \in 1 .. Lower(Len(w.sop), Len(eops)) |-> Piece(i)],
         open |-> IF Len(w.sop) > Len(eops) THEN Piece(Len(w.sop))
                  ELSE IF inframe # None /\ ~closes THEN inframe \o w.slots ELSE None]

\* handle_rq_transaction of Axi4SRequester
AxiWord(start) ==
    /\ bus = "axi" /\ sent.pkt <= Len(issued)
    /\ LET w == Word(start)  f == AxiFrames(w)
           host == FoldLeft(AxiRequest, [ram |-> ram, q |-> q], f.done)
       IN  /\ inframe' = f.open
           /\ ram' = host.ram /\ q' = host.q
           /\ sent' = w.next
    /\ UNCHANGED <<bus, issued, resp, driver, rx, got>>

\* The monitor of AVST adds whole segments, EMPTY is not among its signals.
Segment(host, s) ==
    LET t == (IF host.t = None THEN <<>> ELSE host.t) \o s.data
    IN  IF s.eop THEN [handle_request(host, s.pkt, t) EXCEPT !.t = None] ELSE [host EXCEPT !.t = t]

AvstWord(start) ==
    /\ bus = "avst" /\ sent.pkt <= Len(issued)
    /\ LET w == Word(start)
           \* a segment holds one frame: the first frame's last segment ends before `start`
           n == Lower(Size(sent.pkt) - sent.idx, Beat)
           segs == [k \in 0 .. (Beat \div Quarter) - 1 |->
                      [data |-> SubSeq(w.slots, k * Quarter + 1, (k + 1) * Quarter),
                       pkt |-> IF start # None /\ k * Quarter >= start THEN sent.pkt + 1 ELSE sent.pkt,
                       valid |-> k * Quarter < n \/ w.slots[k * Quarter + 1] # Junk
                                 \/ (start # None /\ k * Quarter = start),
                       eop |-> \E e \in Range(w.eop) : e \div Quarter = k]]
           host == FoldLeft(Segment, [ram |-> ram, q |-> q, t |-> inframe],
                            SelectSeq([k \in 1 .. Beat \div Quarter |-> segs[k - 1]], LAMBDA s : s.valid))
       IN  /\ inframe' = host.t /\ ram' = host.ram /\ q' = host.q
           /\ sent' = w.next
    /\ UNCHANGED <<bus, issued, resp, driver, rx, got>>

(* ------------------------------------------------------------- handle_response -- *)
\* The device collects words until the end of the frame.
Receive(w) ==
    IF w.eop THEN /\ got' = Append(got, [tag |-> w.tag, data |-> rx \o w.data])
                  /\ rx' = <<>>
    ELSE rx' = rx \o w.data /\ UNCHANGED got

AxiResponse ==
    /\ bus = "axi" /\ resp = None /\ q # <<>>
    /\ resp' = [tag |-> Head(q).tag, data |-> [k \in 1 .. Completion |-> Junk] \o Head(q).data]
    /\ q' = Tail(q)
    /\ UNCHANGED <<bus, issued, sent, inframe, ram, driver, rx, got>>

\* A word of the completion; the last one is marked only if it is not full.
AxiWrite ==
    /\ resp # None
    /\ LET left == Len(resp.data)
       IN  /\ Receive([tag |-> resp.tag, eop |-> left < Beat, data |-> SubSeq(resp.data, 1, Lower(left, Beat))])
           /\ resp' = IF left > Beat THEN [resp EXCEPT !.data = SubSeq(@, Beat + 1, left)] ELSE None
    /\ UNCHANGED <<bus, issued, sent, inframe, ram, q, driver>>

\* _send_frame: the words of a frame, each of at most the bus's segments.
_send_frame(tag, data) ==
    LET words == IF data = <<>> THEN 1 ELSE (Len(data) + Beat - 1) \div Beat
    IN  [k \in 1 .. words |-> [tag |-> tag, sop |-> k = 1, eop |-> k = words,
                               data |-> SubSeq(data, (k - 1) * Beat + 1, Lower(k * Beat, Len(data)))]]

\* write_rc never waits: all the words of a frame are queued at once.
AvstResponse ==
    /\ bus = "avst" /\ q # <<>>
    /\ driver' = [driver EXCEPT !.rc = @ \o _send_frame(Head(q).tag, Head(q).data)]
    /\ q' = Tail(q)
    /\ UNCHANGED <<bus, issued, sent, inframe, ram, resp, rx, got>>

\* The completer queues a request of the host of two words.
Cq ==
    /\ bus = "avst" /\ driver.cq = <<>> /\ driver.select # "cq"
    /\ \A k \in DOMAIN got : got[k].tag # 0          \* bound: one such request
    /\ driver' = [driver EXCEPT !.cq = _send_frame(0, [k \in 1 .. Beat + 1 |-> Junk])]
    /\ UNCHANGED <<bus, issued, sent, inframe, ram, q, resp, rx, got>>

\* send_transaction: a queue is selected for a frame; RC wins whatever the draw.
Selected(priority) ==
    IF driver.select # None THEN driver.select
    ELSE IF driver.rc # <<>> THEN "rc"
    ELSE IF driver.cq # <<>> /\ (priority = 0 \/ driver.rc = <<>>) THEN "cq" ELSE None

\* _write_rl: with READY low a word is still sent while the latency lasts; the
\* latency counts words, and starts again with a word sent while READY is high.
Ready(high) == IF driver.latency = 0 THEN (IF high THEN Latency ELSE 0)
               ELSE IF high THEN Latency ELSE driver.latency - 1

send_transaction(priority, high) ==
    LET s == Selected(priority)
        w == IF s = "rc" THEN Head(driver.rc) ELSE Head(driver.cq)
        open == IF w.eop THEN FALSE ELSE IF w.sop THEN TRUE ELSE driver.in_frame
    IN  /\ bus = "avst" /\ s # None
        /\ IF s = "rc" THEN driver.rc # <<>> ELSE driver.cq # <<>>
        /\ Receive(w)
        /\ driver' = [rc |-> IF s = "rc" THEN Tail(driver.rc) ELSE driver.rc,
                      cq |-> IF s = "cq" THEN Tail(driver.cq) ELSE driver.cq,
                      in_frame |-> open, select |-> IF open THEN s ELSE None,
                      latency |-> Ready(high)]
        /\ UNCHANGED <<bus, issued, sent, inframe, ram, q, resp>>

(* -------------------------------------------------------------- specification -- *)
Init ==
    /\ bus \in {"axi", "avst"}
    /\ issued = <<>> /\ sent = [pkt |-> 1, idx |-> 0] /\ inframe = None
    /\ ram = [a \in Memory |-> Junk] /\ q = <<>> /\ resp = None
    /\ driver = [rc |-> <<>>, cq |-> <<>>, select |-> None, in_frame |-> FALSE, latency |-> 0]
    /\ rx = <<>> /\ got = <<>>

Next ==
    \/ \E write \in BOOLEAN, a \in Addresses, n \in Lengths : Request(write, a, n)
    \/ sent.pkt <= Len(issued) /\ \E s \in Starts : AxiWord(s) \/ AvstWord(s)
    \/ AxiResponse \/ AxiWrite
    \/ AvstResponse \/ Cq
    \/ \E priority \in {0, 1}, high \in BOOLEAN : send_transaction(priority, high)

Spec == Init /\ [][Next]_vars

(* ----------------------------------------------------------------- properties -- *)
TypeOK ==
    /\ bus \in {"axi", "avst"}
    /\ sent.pkt \in 1 .. Len(issued) + 1 /\ sent.idx \in Nat
    /\ \A a \in Memory : ram[a][1] \in 0 .. Len(issued)
    /\ driver.select \in {None, "rc", "cq"} /\ driver.latency \in 0 .. Latency
    /\ bus = "avst" => resp = None

\* What the memory holds when a request arrives: the writes issued before it.
Due(p) ==
    [k \in 1 .. issued[p].dwords |->
        LET a == issued[p].addr + k - 1
            W == {w \in 1 .. p - 1 : issued[w].write /\ a \in issued[w].addr .. issued[w].addr + issued[w].dwords - 1}
            last == CHOOSE w \in W : \A v \in W : v <= w
        IN  IF W = {} THEN Junk
            ELSE <<last, a - issued[last].addr + (IF bus = "axi" THEN Header ELSE 0)>>]

\* The cases in which the code is known to answer otherwise: a completion that
\* fills its last word (AXI), a length that overflows its field, a last segment
\* that is not full (AVST).
Plain(p) == IF bus = "axi" THEN issued[p].write \/ (issued[p].dwords + Completion) % Beat # 0
            ELSE issued[p].dwords < LengthMod /\ (issued[p].write => issued[p].dwords % Quarter = 0)

\* However frames share the words of the bus, every read of the device is
\* answered by one whole completion, in the order of the reads, with the data of
\* all the writes issued before it and of none issued later (handle_rq_transaction,
\* handle_request, handle_response), and the frames of the host's own requests
\* never mix with a completion (send_transaction, "doesn't allow for words of
\* different transactions to mix").
CompletionsInOrder ==
    LET reads == SelectSeq([p \in 1 .. Len(issued) |-> p], LAMBDA p : ~issued[p].write)
        answers == SelectSeq(got, LAMBDA f : f.tag # 0)
        Head3(f) == IF bus = "axi" THEN SubSeq(f.data, Completion + 1, Len(f.data)) ELSE f.data
    IN  (\A p \in 1 .. Len(issued) : Plain(p)) =>
        /\ Len(answers) <= Len(reads)
        /\ \A k \in DOMAIN answers : answers[k].tag = reads[k] /\ Head3(answers[k]) = Due(reads[k])
        /\ \A k \in DOMAIN got : got[k].tag = 0 => got[k].data = [i \in 1 .. Beat + 1 |-> Junk]
=============================================================================
