------------------------------ MODULE FrameTools ------------------------------
(* PlayerConfigurator (frame_player/sw/player.py) and RecorderReader          *)
(* (frame_recorder/sw/recorder.py) of comp/mfb_tools/debug, joined by their   *)
(* components: the player cuts the packets of a PCAP into MFB words and       *)
(* stores them in its FIFO, the words travel to the FIFO of the recorder,     *)
(* which the recorder program reads and puts together again.                  *)
EXTENDS Integers, Sequences, FiniteSets, SequencesExt, Bitwise

CONSTANTS Regions, RegionSize, BlockSize,  \* MFB, an item is one byte
          SofWidth, EofWidth,              \* sof_elem_width, eof_elem_width
          FifoDepth,                       \* words of either FIFO
          PacketLists,                     \* lengths of the packets of a PCAP
          MaxSessions                      \* bound: calls of read()

VARIABLES player,   \* configure: pc, packets, mfb, reg, fifo_ptr, count
          fifo,     \* the player's FIFO: words and a flag, has a word been lost?
          rec,      \* read: pc, words (mfb_words), capture, sigterm, pkt_num, python
          recfifo,  \* the recorder's FIFO: words, enabled
          played,   \* packets the player has accepted
          packets,  \* packets the recorder has put together
          sessions  \* bound counter
vars == <<player, fifo, rec, recfifo, played, packets, sessions>>

RegionIds == 0..(Regions - 1)
WordItems == Regions * RegionSize * BlockSize
Zero      == <<0, 0>>
Packet(number, length) == [k \in 1..length |-> <<number, k>>]

(* ---------------------------------------------------------------- MFB structures -- *)
\* _reset_mfb_struct: multiplying [[]] makes the regions share one block list.
EmptyMfb == [blocks |-> <<>>,
             sof |-> {}, sof_pos |-> [r \in RegionIds |-> 0],
             eof |-> {}, eof_pos |-> [r \in RegionIds |-> 0]]

_fill_zeros(block) == block \o [k \in 1..(BlockSize - Len(block)) |-> Zero]
_fill_mfb_word(mfb) ==
    [mfb EXCEPT !.blocks = @ \o [k \in 1..(RegionSize - Len(@)) |-> _fill_zeros(<<>>)]]

\* The positions are shifted together without a mask.
SharedPos(pos, width) ==
    FoldLeft(LAMBDA acc, r : (acc * 2^width) | pos[r], 0, [k \in 1..Regions |-> Regions - k])

\* _send_mfb_word: every region serialises the shared list; what is beyond the
\* word is not sent, and what is missing reads as zeros.
_send_mfb_word(mfb) ==
    LET bus == FlattenSeq([r \in 1..Regions |-> FlattenSeq(mfb.blocks)])
    IN  [data |-> [k \in 1..WordItems |-> IF k <= Len(bus) THEN bus[k] ELSE Zero],
         sof |-> mfb.sof, sof_pos |-> SharedPos(mfb.sof_pos, SofWidth),
         eof |-> mfb.eof, eof_pos |-> SharedPos(mfb.eof_pos, EofWidth)]

_split(content) ==
    LET count == (Len(content) + BlockSize - 1) \div BlockSize
    IN  [b \in 1..count |-> SubSeq(content, (b - 1) * BlockSize + 1,
                                   IF b = count THEN Len(content) ELSE b * BlockSize)]

\* One block of a packet; st has the words sent so far, mfb, reg and fifo_ptr.
AddBlock(st, block, first, last) ==
    LET Full(s) == Len(s.mfb.blocks) = RegionSize \/ (first /\ s.reg \in s.mfb.sof)
        sent == IF st.reg + 1 = Regions /\ Full(st)
                THEN [words |-> Append(st.words, _send_mfb_word(_fill_mfb_word(st.mfb))),
                      mfb |-> EmptyMfb, reg |-> 0, fifo_ptr |-> st.fifo_ptr + 1]
                ELSE st
        reg  == IF Full(sent) THEN sent.reg + 1 ELSE sent.reg
        mfb  == sent.mfb
        at   == Len(mfb.blocks)
    IN  [sent EXCEPT !.reg = reg, !.mfb =
            [blocks  |-> Append(mfb.blocks, _fill_zeros(block)),
             sof     |-> IF first THEN mfb.sof \cup {reg} ELSE mfb.sof,
             sof_pos |-> IF first THEN [mfb.sof_pos EXCEPT ![reg] = at] ELSE mfb.sof_pos,
             eof     |-> IF last THEN mfb.eof \cup {reg} ELSE mfb.eof,
             eof_pos |-> IF last THEN [mfb.eof_pos EXCEPT ![reg] = at * BlockSize + Len(block) - 1]
                         ELSE mfb.eof_pos]]

AddPacket(content) ==
    LET blocks == _split(content)
        Step(st, b) == AddBlock(st, blocks[b], b = 1, b = Len(blocks))
    IN  FoldLeft(Step, [words |-> <<>>, mfb |-> player.mfb, reg |-> player.reg,
                        fifo_ptr |-> player.fifo_ptr], [b \in DOMAIN blocks |-> b])

\* External: a word that meets a full FIFO is lost.
Push(f, words) == [words |-> SubSeq(f.words \o words, 1, IF Len(f.words \o words) > FifoDepth
                                                          THEN FifoDepth ELSE Len(f.words \o words)),
                   lost  |-> f.lost \/ Len(f.words \o words) > FifoDepth]

(* ------------------------------------------------------------------- the player -- *)
\* CMD_STORE_EN; the PCAP is read once.
configure ==
    /\ player.pc = "open"
    /\ player' = [player EXCEPT !.pc = "generate"]
    /\ UNCHANGED <<fifo, rec, recfifo, played, packets, sessions>>

\* One packet of _generate, from the end of the list: the pending word goes out
\* last, and also when the FIFO has no room for the packet.
_generate ==
    /\ player.pc = "generate"
    /\ LET content == Packet(player.count + 1, Last(player.packets))
           needed  == (Len(_split(content)) + RegionSize - 1) \div RegionSize
           st      == AddPacket(content)
       IN  IF player.packets = <<>> \/ player.fifo_ptr + needed > FifoDepth
           THEN /\ fifo' = Push(fifo, <<_send_mfb_word(player.mfb)>>)
                /\ player' = [player EXCEPT !.pc = "play"]
                /\ UNCHANGED played
           ELSE /\ fifo' = Push(fifo, st.words)
                /\ player' = [player EXCEPT !.packets = Front(@), !.count = @ + 1, !.mfb = st.mfb,
                                            !.reg = st.reg, !.fifo_ptr = st.fifo_ptr]
                /\ played' = Append(played, content)
    /\ UNCHANGED <<rec, recfifo, packets, sessions>>

\* External: once the player plays, its words move on while the recorder takes them.
Transfer ==
    /\ player.pc = "play" /\ fifo.words # <<>>
    /\ recfifo.on /\ Len(recfifo.words) < FifoDepth
    /\ recfifo' = [recfifo EXCEPT !.words = Append(@, Head(fifo.words))]
    /\ fifo' = [fifo EXCEPT !.words = Tail(@)]
    /\ UNCHANGED <<player, rec, played, packets, sessions>>

(* ------------------------------------------------------- decoding of MFB words -- *)
Lowest(bits) == CHOOSE r \in bits : \A q \in bits : r <= q
Position(shared, r, width) == (shared \div 2^(r * width)) % 2^width
_det_start(word) ==
    IF word.sof = {} THEN [det |-> FALSE, reg |-> 0, pos |-> 0]
    ELSE [det |-> TRUE, reg |-> Lowest(word.sof),
          pos |-> Position(word.sof_pos, Lowest(word.sof), SofWidth)]
_det_end(word) ==
    IF word.eof = {} THEN [det |-> FALSE, reg |-> 0, pos |-> 0]
    ELSE [det |-> TRUE, reg |-> Lowest(word.eof),
          pos |-> Position(word.eof_pos, Lowest(word.eof), EofWidth)]
SofItem(s) == (s.reg * RegionSize + s.pos) * BlockSize
EofItem(e) == e.reg * RegionSize * BlockSize + e.pos

\* Mutant: the start of the packet just written stays in the word.
_remove_sopNot(word, s) == word

_remove_sop(word, s) == [word EXCEPT !.sof = @ \ {s.reg}]
_remove_eop(word, e) == [word EXCEPT !.eof = @ \ {e.reg}]

\* _initialize_mfb: what is kept of the last word after a packet.
_initialize_mfb(words) ==
    LET w == Last(words)
        s == _det_start(w)
        e == _det_end(w)
        both == _remove_eop(_remove_sop(w, s), e)
    IN  IF s.det /\ e.det /\ SofItem(s) < EofItem(e)
        THEN IF both.sof = {} THEN <<>> ELSE <<both>>
        ELSE IF s.det THEN <<_remove_eop(w, e)>> ELSE <<>>

\* Where each word starts and ends; an end before the start is an error, and so is
\* an item of width / 8 bytes, a float, where range() wants an integer (Python 3).
Bounds(words, i) ==
    LET start == SofItem(_det_start(words[1]))
        end   == EofItem(_det_end(Last(words)))
        one   == words[1] = Last(words)
    IN  CASE i = 1 /\ one -> <<start, end>>
          [] i = 1 /\ ~one -> <<start, WordItems - 1>>
          [] i # 1 /\ i = Len(words) -> <<0, end>>
          [] OTHER -> <<0, WordItems - 1>>
Undecodable(words) ==
    \/ ~_det_start(words[1]).det
    \/ \E i \in DOMAIN words : Bounds(words, i)[1] > Bounds(words, i)[2]
    \/ rec.python = 3
_serialize_data(words) ==
    FlattenSeq([i \in DOMAIN words |-> SubSeq(words[i].data, Bounds(words, i)[1] + 1,
                                              Bounds(words, i)[2] + 1)])

(* ----------------------------------------------------------------- the recorder -- *)
_continue_capture == /\ rec.pkt_num > 0 => rec.capture
                     /\ IF rec.sigterm THEN rec.capture ELSE recfifo.words # <<>>

Read(sigterm, pkt_num) ==
    /\ rec.pc = "idle" /\ sessions < MaxSessions
    /\ rec' = [rec EXCEPT !.pc = "continue", !.words = <<>>, !.capture = TRUE, !.count = 0,
                          !.sigterm = sigterm, !.pkt_num = pkt_num]
    /\ recfifo' = [recfifo EXCEPT !.on = TRUE]
    /\ sessions' = sessions + 1
    /\ UNCHANGED <<player, fifo, played, packets>>

\* The signal handler.
_stop_capture ==
    /\ rec.pc # "idle" /\ rec.sigterm /\ rec.capture
    /\ rec' = [rec EXCEPT !.capture = FALSE]
    /\ UNCHANGED <<player, fifo, recfifo, played, packets, sessions>>

\* One turn of the loop: wait for a word and read it; reading VLD takes it out.
ReadWord ==
    /\ rec.pc = "continue" /\ _continue_capture /\ recfifo.words # <<>>
    /\ rec' = [rec EXCEPT !.words = Append(@, Head(recfifo.words)), !.pc = "decode"]
    /\ recfifo' = [recfifo EXCEPT !.words = Tail(@)]
    /\ UNCHANGED <<player, fifo, played, packets, sessions>>

_decode_packet ==
    /\ rec.pc = "decode"
    /\ IF rec.words = <<>> \/ ~_det_end(Last(rec.words)).det
       THEN rec' = [rec EXCEPT !.pc = "continue"] /\ UNCHANGED packets
       ELSE IF Undecodable(rec.words)                   \* the FIFO stays enabled
       THEN rec' = [rec EXCEPT !.pc = "idle"] /\ UNCHANGED packets
       ELSE /\ packets' = Append(packets, _serialize_data(rec.words))
            /\ rec' = [rec EXCEPT !.words = _initialize_mfb(@), !.count = @ + 1,
                                  !.capture = @ /\ rec.count + 1 # rec.pkt_num]
    /\ UNCHANGED <<player, fifo, recfifo, played, sessions>>

Disable ==
    /\ rec.pc = "continue" /\ ~_continue_capture
    /\ rec' = [rec EXCEPT !.pc = "idle"]
    /\ recfifo' = [recfifo EXCEPT !.on = FALSE]
    /\ UNCHANGED <<player, fifo, played, packets, sessions>>

(* -------------------------------------------------------------- specification -- *)
Init ==
    /\ \E list \in PacketLists :
          player = [pc |-> "open", packets |-> list, mfb |-> EmptyMfb, reg |-> 0,
                    fifo_ptr |-> 0, count |-> 0]
    /\ \E python \in {2, 3} :
          rec = [pc |-> "idle", words |-> <<>>, capture |-> TRUE, sigterm |-> FALSE,
                 pkt_num |-> 0, count |-> 0, python |-> python]
    /\ fifo = [words |-> <<>>, lost |-> FALSE] /\ recfifo = [words |-> <<>>, on |-> FALSE]
    /\ played = <<>> /\ packets = <<>> /\ sessions = 0

Next ==
    \/ configure \/ _generate \/ Transfer
    \/ \E sigterm \in BOOLEAN, pkt_num \in 0..1 : Read(sigterm, pkt_num)
    \/ _stop_capture \/ ReadWord \/ _decode_packet \/ Disable

Spec == Init /\ [][Next]_vars

(* ---------------------------------------------------------------- properties -- *)
TypeOK ==
    /\ player.pc \in {"open", "generate", "play"} /\ player.reg \in RegionIds
    /\ player.mfb.sof \subseteq RegionIds /\ player.mfb.eof \subseteq RegionIds
    /\ Len(fifo.words) <= FifoDepth /\ Len(recfifo.words) <= FifoDepth
    /\ rec.pc \in {"idle", "continue", "decode"}

\* The recorder puts together packets that were played, whole, each once and in
\* the order they were played, whatever the lengths and however they share words;
\* a recording that took every word has every packet.  One region, no lost word.
RecordedAsPlayed ==
    Regions = 1 /\ ~fifo.lost =>
        /\ \E kept \in SUBSET DOMAIN played :
              packets = FlattenSeq([k \in DOMAIN played |-> IF k \in kept THEN <<played[k]>> ELSE <<>>])
        /\ /\ sessions = 1 /\ rec.python = 2 /\ rec.pc = "idle"
           /\ player.pc = "play" /\ fifo.words = <<>> /\ recfifo.words = <<>>
           => packets = played
=============================================================================
