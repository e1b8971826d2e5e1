----------------------------- MODULE StreamAgents -----------------------------
(* The MFB and MVB agents of the cocotb tests (cocotbext/ofm/{mfb,mvb,base}/): *)
(* a driver that packs frames or items into words, a bus with back-pressure    *)
(* and the monitor that takes the words apart. An item is <<frame, index>>.    *)
EXTENDS Integers, Sequences, FiniteSets, SequencesExt

CONSTANTS Regions, RegionSize, BlockSize,  \* MFB
          Items,                           \* MVB items of a word
          Rates,                           \* rate_percentage of the idle generator, 0 = random
          MaxIdles, MaxTotal,              \* max_idles; bound on the items counted
          Lengths, MaxFrames,              \* frames of the test; bound on their number
          None

VARIABLES bus,     \* "mfb" or "mvb"
          rate,    \* ItemRateLimiter: rate_percentage; idle and all items so far
          frames,  \* lengths of the frames that the test appended
          sender,  \* _send_thread: where it is, current frame, items left, stale region
          word,    \* the word in progress; item_cnt or _item_offset
          signals, \* the word on the bus, None while src_rdy is 0
          monitor  \* frame in progress, in_frame, frames received, protocol error
vars == <<bus, rate, frames, sender, word, signals, monitor>>

RegionItems == RegionSize * BlockSize
WordItems == IF bus = "mfb" THEN Regions * RegionItems ELSE Items
NoItem == <<0, 0>>
\* _clear_control_signals
EmptyWord ==
    [data |-> [i \in 0 .. WordItems - 1 |-> NoItem],
     sof |-> [r \in 0 .. Regions - 1 |-> None], eof |-> [r \in 0 .. Regions - 1 |-> None],
     vld |-> {}, rdy |-> FALSE]

(* ------------------------------------------------------------------ MFB driver -- *)
Region(offset) == offset \div RegionItems
\* _moveBlock: at the end of the word the driver waits for its acceptance.
MoveBlock(then) ==
    IF word.offset + BlockSize >= WordItems
    THEN sender' = [then EXCEPT !.at = "wait", !.after = then.at]
    ELSE sender' = then

Put(w, rdy) ==
    /\ word' = [w EXCEPT !.offset = @ + BlockSize, !.w.rdy = rdy]
    /\ signals' = IF word.offset + BlockSize < WordItems THEN signals
                  ELSE IF rdy THEN word'.w ELSE None

\* A frame begins: no second SOF in its region, no second EOF where it would end;
\* both regions are computed once and blocks are skipped until the word is sent.
StartFrame ==
    /\ sender.at \in {"sof", "eof"}
    /\ LET r == IF sender.region = None THEN Region(word.offset) ELSE sender.region
           er == IF sender.region = None THEN Region(word.offset + sender.left - 1) ELSE sender.region
           busy == IF sender.at = "sof" THEN word.w.sof[r] # None
                   ELSE er < Regions /\ word.w.eof[er] # None
       IN  IF busy
           THEN /\ Put(word, word.w.rdy)
                /\ MoveBlock([sender EXCEPT !.region = IF sender.at = "sof" THEN r ELSE er])
           ELSE /\ UNCHANGED signals
                /\ IF sender.at = "sof" THEN sender' = [sender EXCEPT !.at = "eof", !.region = None] /\ UNCHANGED word
                   ELSE /\ word' = [word EXCEPT !.w.sof[Region(word.offset)] = (word.offset % RegionItems) \div BlockSize]
                        /\ sender' = [sender EXCEPT !.at = "data", !.region = None]
    /\ UNCHANGED <<bus, rate, frames, monitor>>

\* A block of the frame; the last one marks EOF.
DataBlock ==
    /\ sender.at = "data"
    /\ LET f == sender.frame  n == sender.left  first == frames[f] - n
           m == IF n > BlockSize THEN BlockSize ELSE n
           data == [i \in 0 .. WordItems - 1 |->
                       IF i >= word.offset /\ i < word.offset + m THEN <<f, first + i - word.offset>> ELSE word.w.data[i]]
           w == [word EXCEPT !.w.data = data,
                             !.w.eof = IF n > BlockSize THEN @
                                       ELSE [@ EXCEPT ![Region(word.offset)] = (word.offset % RegionItems) + n - 1]]
       IN  /\ Put(w, TRUE)
           /\ MoveBlock([sender EXCEPT !.left = n - m, !.at = IF n > BlockSize THEN "data" ELSE "next"])
    /\ UNCHANGED <<bus, rate, frames, monitor>>

(* ------------------------------------------------------------------ MVB driver -- *)
\* ItemRateLimiter.get: the items still missing to the share of idle ones.
Idles ==
    IF rate.percent = 0 THEN 0 .. (IF MaxIdles = 0 THEN 0 ELSE MaxIdles - 1)
    ELSE LET x == ((100 - rate.percent) * rate.total - 100 * rate.idle) \div 100
         IN  IF x < 0 THEN {0} ELSE 0 .. x + 1
\* ItemRateLimiter.put
Counted(idle, n) == [rate EXCEPT !.idle = IF idle THEN @ + n ELSE @, !.total = @ + n]

GetIdles ==
    /\ sender.at = "get"
    /\ \E n \in Idles : sender' = [sender EXCEPT !.at = "item", !.left = n]
    /\ UNCHANGED <<bus, rate, frames, word, signals, monitor>>

\* _driver_send: stack an item; a full word is moved.
StackItem ==
    /\ sender.at = "item"
    /\ LET idle == sender.left > 0
           w == IF idle THEN word.w
                ELSE [word.w EXCEPT !.data[word.offset] = <<sender.frame, 0>>, !.vld = @ \cup {word.offset}]
           full == word.offset + 1 = Items
           then == IF idle THEN [sender EXCEPT !.left = @ - 1] ELSE [sender EXCEPT !.at = "next"]
       IN  /\ word' = [word EXCEPT !.w = w, !.offset = @ + 1]
           /\ rate' = Counted(idle, 1)
           /\ sender' = IF full THEN [then EXCEPT !.at = "wait", !.after = then.at] ELSE then
           /\ signals' = IF ~full THEN signals ELSE IF w.vld = {} THEN None ELSE w
    /\ UNCHANGED <<bus, frames, monitor>>

(* ------------------------------------------------------ _send_thread, the clock -- *)
\* The next transaction, or two words more: what is left, then an empty one.
NextFrame ==
    /\ sender.at \in {"idle", "next"}
    /\ IF sender.frame < Len(frames)
       THEN /\ sender' = [at |-> IF bus = "mfb" THEN "sof" ELSE "get", frame |-> sender.frame + 1,
                          left |-> frames[sender.frame + 1], region |-> None, after |-> None]
       ELSE sender.at = "next" /\ sender' = [sender EXCEPT !.at = "flush1"]
    /\ UNCHANGED <<bus, rate, frames, word, signals, monitor>>

\* _moveWord, _move_word
Flush ==
    /\ sender.at \in {"flush1", "flush2"}
    /\ LET empty == IF bus = "mfb" THEN ~word.w.rdy ELSE word.w.vld = {}
       IN  signals' = IF empty THEN None ELSE word.w
    /\ sender' = [sender EXCEPT !.at = "wait", !.after = IF @ = "flush1" THEN "flush2" ELSE "idle"]
    /\ sender'.after # None
    /\ UNCHANGED <<bus, rate, frames, word, monitor>>

\* MFBMonitor: the regions of a word in their order.
MfbRegion(m, r) ==
    LET from == r * RegionItems
        Part(a, b) == [k \in 1 .. b - a + 1 |-> signals.data[a + k - 1]]
        eof == signals.eof[r]  sof == signals.sof[r]
        ends == eof # None /\ m.in_frame
        a == IF ends THEN [m EXCEPT !.in_frame = FALSE, !.got = Append(@, m.frame \o Part(from, from + eof))]
             ELSE [m EXCEPT !.error = @ \/ (eof # None /\ sof # None /\ eof < sof)]
        b == IF a.in_frame THEN [a EXCEPT !.frame = @ \o Part(from, from + RegionItems - 1)] ELSE a
        ss == from + sof * BlockSize
    IN  IF sof = None THEN b
        ELSE IF b.in_frame THEN [b EXCEPT !.error = TRUE]
        ELSE IF eof # None /\ ~ends THEN [b EXCEPT !.got = Append(@, Part(ss, from + eof))]
        ELSE [b EXCEPT !.in_frame = TRUE, !.frame = Part(ss, from + RegionItems - 1)]

\* MVBMonitor: the valid items, lowest index first.
MvbItem(m, i) == IF i \in signals.vld THEN [m EXCEPT !.got = Append(@, <<signals.data[i]>>)] ELSE m

Indices(n) == [k \in 1 .. n |-> k - 1]
Clock(dst_rdy) ==
    /\ sender.at = "wait"
    /\ monitor' = IF signals = None \/ ~dst_rdy THEN monitor
                  ELSE IF bus = "mfb" THEN FoldLeft(MfbRegion, monitor, Indices(Regions))
                  ELSE FoldLeft(MvbItem, monitor, Indices(Items))
    /\ IF dst_rdy
       THEN \* the MVB driver's count of items goes on after a word that was flushed
            /\ word' = [w |-> EmptyWord,
                        offset |-> IF bus = "mvb" /\ word.offset < Items THEN word.offset ELSE 0]
            /\ sender' = [sender EXCEPT !.at = sender.after, !.after = None]
            /\ UNCHANGED <<signals, rate>>
       ELSE /\ rate.total < MaxTotal
            /\ rate' = IF bus = "mvb" THEN Counted(TRUE, Items) ELSE rate
            /\ UNCHANGED <<word, sender, signals>>
    /\ UNCHANGED <<bus, frames>>

AppendFrame(n) ==
    /\ Len(frames) < MaxFrames
    /\ frames' = Append(frames, n)
    /\ UNCHANGED <<bus, rate, sender, word, signals, monitor>>

(* -------------------------------------------------------------- specification -- *)
Init ==
    /\ bus \in {"mfb", "mvb"}
    /\ \E p \in Rates : rate = [percent |-> IF bus = "mfb" THEN 0 ELSE p, idle |-> 0, total |-> 0]
    /\ frames = <<>>
    /\ sender = [at |-> "idle", frame |-> 0, left |-> 0, region |-> None, after |-> None]
    /\ word = [w |-> EmptyWord, offset |-> 0]
    /\ signals = None
    /\ monitor = [frame |-> <<>>, in_frame |-> FALSE, got |-> <<>>, error |-> FALSE]

Next ==
    \/ \E n \in IF bus = "mfb" THEN Lengths ELSE {1} : AppendFrame(n)
    \/ NextFrame \/ StartFrame \/ DataBlock
    \/ GetIdles \/ StackItem
    \/ Flush
    \/ \E dst_rdy \in BOOLEAN : Clock(dst_rdy)

Spec == Init /\ [][Next]_vars

(* ----------------------------------------------------------------- properties -- *)
TypeOK ==
    /\ sender.at \in {"idle", "sof", "eof", "data", "get", "item", "next", "flush1", "flush2", "wait"}
    /\ sender.frame \in 0 .. Len(frames)
    /\ word.offset \in 0 .. WordItems
    /\ rate.idle <= rate.total

\* The monitor hands out the frames of the test, whole and in their order, however
\* they share words and regions, whatever the back-pressure and the idle items;
\* when the driver sleeps none is missing.
FramesArrive ==
    LET sent == [f \in 1 .. Len(frames) |-> [k \in 1 .. frames[f] |-> <<f, IF bus = "mfb" THEN k - 1 ELSE 0>>]]
    IN  /\ ~monitor.error
        /\ IsPrefix(monitor.got, sent)
        /\ sender.at = "idle" => Len(monitor.got) = sender.frame
=============================================================================
