------------------------------- MODULE EthAgents -------------------------------
(* The agents of the Ethernet side of a simulation (cocotbext/ofm/{lbus,lii,   *)
(* avst_eth}/ and EthernetRateLimiter of base/generators.py): three drivers    *)
(* without back-pressure and their monitors. A byte is <<frame, index>>.       *)
EXTENDS Integers, Sequences, FiniteSets, SequencesExt

CONSTANTS Segments, Bytes,   \* LBUS: segments, bytes of a segment
          WordBytes,         \* LII and AVST: bytes of a word
          Overhead,          \* EthernetRateLimiter: _packet_overhead (24 items)
          Rate, Full,        \* target rate: Rate items of Full on the bus
          Lengths, MaxFrames, MaxClocks, \* frames; bounds: their number, the clocks
          None

VARIABLES bus,      \* "lbus", "avst" or "lii"
          frames,   \* lengths of the frames that the test appended
          sender,   \* _send_thread: state, frame, its bytes not yet sent
          word,     \* the word in progress, a sequence of segments or bytes
          limiter,  \* _current_rate, times Full
          monitor,  \* packet in progress, packets received, an assertion failed
          line,     \* clocks; bytes, gaps included, that should have taken the line
          crc       \* LII: CRC status waiting on the bus; frames whose status was seen
vars == <<bus, frames, sender, word, limiter, monitor, line, crc>>

Byte(f, from, n) == [k \in 1 .. n |-> <<f, from + k - 1>>]
Least(a, b) == IF a < b THEN a ELSE b

(* --------------------------------------------------------- EthernetRateLimiter -- *)
\* get: idle items due before the next frame, here in whole words or segments.
Idle(unit) == IF limiter <= Rate THEN 0 ELSE (((limiter - Rate) \div Rate) \div unit)
\* put: what was sent, minus what the target rate allows in that time.
Put(rate, items, data, end) ==
    LET ir == rate + (IF data THEN Full * items ELSE 0) + (IF end THEN Full * Overhead ELSE 0) - Rate * items
    IN  IF ir < 0 THEN 0 ELSE ir

(* -------------------------------------------------------- monitors, the clock -- *)
\* LBusMonitor, AvstEthMonitor: parts of a word with their flags.
Part(m, p) ==
    IF p = None THEN m
    ELSE LET packet == IF p.sop THEN <<>> ELSE m.packet
         IN  [packet |-> IF p.eop THEN None ELSE (IF packet = None THEN <<>> ELSE packet) \o p.data,
              got |-> IF p.eop THEN Append(m.got, (IF packet = None THEN <<>> ELSE packet) \o p.data) ELSE m.got,
              failed |-> m.failed \/ (p.sop /\ m.packet # None) \/ (~p.sop /\ packet = None)]

Elapsed(items, sent, ends) ==
    line' = [clocks |-> line.clocks + 1, items |-> line.items + items,
             due |-> LET d == line.due + Full * (sent + Overhead * ends) - Rate * items
                     IN  IF d < 0 THEN 0 ELSE d]

(* ------------------------------------------------------- LBusDriver, AvstEthDriver -- *)
Unit == IF bus = "lbus" THEN Bytes ELSE WordBytes
Slots == IF bus = "lbus" THEN Segments ELSE 1

\* _send_thread: a frame, or an idle transaction when there is none.
NextFrame ==
    /\ bus # "lii" /\ sender.at = "next"
    /\ sender' = [at |-> "get", frame |-> IF sender.frame < Len(frames) THEN sender.frame + 1 ELSE sender.frame,
                  idle |-> sender.frame = Len(frames),
                  left |-> IF sender.frame < Len(frames) THEN frames[sender.frame + 1] ELSE 0]
    /\ UNCHANGED <<bus, frames, word, limiter, monitor, line, crc>>

\* _driver_send: one segment (LBUS) or word (AVST), idle or with data.
Segment(idle) ==
    LET f == sender.frame  n == Least(sender.left, Unit)
        eop == sender.left <= Unit
        part == IF idle THEN None
                ELSE [sop |-> sender.left = frames[f], eop |-> eop, data |-> Byte(f, frames[f] - sender.left, n)]
        w == Append(word, part)
        data == IF idle THEN Put(limiter, Unit, FALSE, FALSE)
                ELSE Put(Put(limiter, n, TRUE, eop), Unit - n, FALSE, FALSE)
    IN  /\ limiter' = data
        /\ IF Len(w) < Slots
           THEN /\ word' = w /\ UNCHANGED <<monitor, line>>
           ELSE /\ line.clocks < MaxClocks
                /\ word' = <<>>
                /\ monitor' = FoldLeft(Part, monitor, w)
                /\ LET parts == SelectSeq(w, LAMBDA p : p # None)
                   IN  Elapsed(Slots * Unit, FoldLeft(LAMBDA a, p : a + Len(p.data), 0, parts),
                               Len(SelectSeq(parts, LAMBDA p : p.eop)))

\* get is asked again after the idles it wanted, until it wants none.
Send ==
    /\ bus # "lii" /\ sender.at \in {"get", "data"}
    /\ IF sender.at = "get" /\ Idle(Unit) > 0
       THEN Segment(TRUE) /\ UNCHANGED sender
       ELSE /\ Segment(sender.idle)
            /\ sender' = IF sender.idle \/ sender.left <= Unit THEN [sender EXCEPT !.at = "next"]
                         ELSE [sender EXCEPT !.at = "data", !.left = @ - Unit]
    /\ UNCHANGED <<bus, frames, crc>>

(* ------------------------------------------------------------------- LIIDriver -- *)
\* The word: its bytes in place, db, sof and eof flags, rdy.
LiiWord == [data |-> [k \in 1 .. WordBytes |-> <<0, 0>>], db |-> 0, sof |-> FALSE, eof |-> FALSE, rdy |-> FALSE]

\* LIIMonitor: the end of a frame is looked at before a start.
LiiMonitor(w) ==
    LET ended == IF ~w.eof THEN monitor
                 ELSE IF monitor.packet = None THEN [monitor EXCEPT !.failed = TRUE]
                 ELSE [monitor EXCEPT !.packet = None,
                                      !.got = Append(@, monitor.packet \o SubSeq(w.data, 1, w.db))]
    IN  IF ~w.rdy THEN monitor
        ELSE IF w.sof THEN [ended EXCEPT !.failed = @ \/ ended.packet # None, !.packet = w.data]
        ELSE IF ended.packet = None THEN ended ELSE [ended EXCEPT !.packet = @ \o w.data]

\* _write_word, then its idle cycles: the flags are cleared at the first edge.
WriteWord(w) ==
    /\ line.clocks < MaxClocks
    /\ monitor' = LiiMonitor(w)
    /\ crc' = [vld |-> FALSE, seen |-> IF crc.vld THEN Append(crc.seen, Len(monitor'.got)) ELSE crc.seen]
    /\ Elapsed(WordBytes, 0, 0)

\* The bytes of a frame up to the end of a word; EOF may move to the next word.
LiiFrame ==
    /\ bus = "lii" /\ sender.at = "next" /\ sender.frame < Len(frames)
    /\ sender' = [sender EXCEPT !.at = "data", !.frame = @ + 1, !.left = frames[sender.frame + 1]]
    /\ UNCHANGED <<bus, frames, word, limiter, monitor, line, crc>>

LiiData(late) ==
    /\ bus = "lii" /\ sender.at = "data"
    /\ LET f == sender.frame  n == Least(sender.left, WordBytes)  first == frames[f] - sender.left
           last == sender.left = n
           w == [data |-> [k \in 1 .. WordBytes |-> IF k <= n THEN <<f, first + k - 1>> ELSE <<0, 0>>],
                 db |-> n, sof |-> first = 0, eof |-> last /\ ~late, rdy |-> TRUE]
       IN  /\ late => last /\ n = WordBytes
           /\ WriteWord(w)
           /\ sender' = IF ~last THEN [sender EXCEPT !.left = @ - n]
                        ELSE [sender EXCEPT !.left = 0, !.at = IF late THEN "eof" ELSE "crc"]
    /\ UNCHANGED <<bus, frames, word, limiter>>

LiiEof ==
    /\ sender.at = "eof"
    /\ WriteWord([LiiWord EXCEPT !.rdy = TRUE, !.eof = TRUE])
    /\ sender' = [sender EXCEPT !.at = "crc"]
    /\ UNCHANGED <<bus, frames, word, limiter>>

\* _send_crc_status: after idle bytes, and never while a status is on the bus.
LiiCrc(idle) ==
    /\ sender.at = "crc"
    /\ IF idle \/ crc.vld
       THEN WriteWord(LiiWord) /\ UNCHANGED sender
       ELSE /\ crc' = [crc EXCEPT !.vld = TRUE]
            /\ sender' = [sender EXCEPT !.at = "next"]
            /\ UNCHANGED <<monitor, line>>
    /\ UNCHANGED <<bus, frames, word, limiter>>

\* Nothing more to send: the words that show the last status.
LiiIdle ==
    /\ bus = "lii" /\ sender.at = "next" /\ sender.frame = Len(frames)
    /\ WriteWord(LiiWord)
    /\ UNCHANGED <<bus, frames, sender, word, limiter>>

(* -------------------------------------------------------------- specification -- *)
AppendFrame(n) ==
    /\ Len(frames) < MaxFrames
    /\ frames' = Append(frames, n)
    /\ UNCHANGED <<bus, sender, word, limiter, monitor, line, crc>>

Init ==
    /\ bus \in {"lbus", "avst", "lii"}
    /\ frames = <<>>
    /\ sender = [at |-> "next", frame |-> 0, idle |-> FALSE, left |-> 0]
    /\ word = <<>> /\ limiter = 0
    /\ monitor = [packet |-> None, got |-> <<>>, failed |-> FALSE]
    /\ line = [clocks |-> 0, items |-> 0, due |-> 0]
    /\ crc = [vld |-> FALSE, seen |-> <<>>]

Next ==
    \/ \E n \in Lengths : AppendFrame(n)
    \/ NextFrame \/ Send
    \/ LiiFrame \/ LiiEof \/ LiiIdle
    \/ \E b \in BOOLEAN : LiiData(b) \/ LiiCrc(b)

Spec == Init /\ [][Next]_vars

(* ----------------------------------------------------------------- properties -- *)
TypeOK ==
    /\ sender.at \in {"next", "get", "data", "eof", "crc"}
    /\ sender.frame \in 0 .. Len(frames)
    /\ Len(word) < Slots
    /\ limiter \in Nat /\ line.clocks \in 0 .. MaxClocks

\* The monitors receive the frames whole and in order; on LII every frame's CRC
\* status comes after its end and before the status of the next frame. (The LII
\* monitor takes the end of a frame of one word for a duplicate end.)
PacketsArrive ==
    LET sent == [f \in 1 .. Len(frames) |-> Byte(f, 0, frames[f])]
        short == bus = "lii" /\ \E f \in DOMAIN frames : frames[f] <= WordBytes
    IN  ~short => /\ ~monitor.failed
                  /\ IsPrefix(monitor.got, sent)
                  /\ \A k \in DOMAIN crc.seen : crc.seen[k] >= k /\ (k > 1 => crc.seen[k] > crc.seen[k - 1])

\* The line is never ahead of the target rate by more than the longest frame with
\* its preamble, CRC and gap, and the idle bytes that do not fill a word.
LineRateKept ==
    bus # "lii" => line.due <= Full * ((CHOOSE n \in Lengths : \A m \in Lengths : m <= n) + Overhead)
                               + Rate * (1 + Unit * Slots)
=============================================================================
