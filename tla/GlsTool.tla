------------------------------- MODULE GlsTool -------------------------------
(* gls_mod.py of comp/mfb_tools/debug/gen_loop_switch/sw: throughput          *)
(* measurements with the generators, multiplexers and speed meters of the     *)
(* GEN_LOOP_SWITCH of each DMA stream, and the ndp tools as traffic sources.  *)
(* The card keeps its registers between runs, and a run may be killed.        *)
EXTENDS Integers, Sequences, FiniteSets, SequencesExt

CONSTANTS EthPorts,   \* number of Ethernet ports
          Lengths,    \* frame lengths of one run, in order
          Intervals,  \* measurements of a stream
          SmMax,      \* ticks of a finished speed meter interval
          MaxRuns     \* bound: runs of the program

VARIABLES gls,   \* [stream -> [register -> value]]
          meter, \* [stream -> ticks of the speed meters]
          ndp,   \* the ndp processes: read, and the length ndp-generate sends (0: none)
          prog,  \* mode, dma_streams, single, frame (i), stream (k), interval (j)
          pend,  \* register writes the program is about to do
          pc,
          runs   \* bound counter
vars == <<gls, meter, ndp, prog, pend, pc, runs>>

Modes   == {"eth_gen", "rx", "tx", "rxtx", "dma_rx", "dmx_tx", "dma_rxtx", "dma_loop"}
Muxes   == <<"dma_loop", "eth_loop", "rx_hole", "tx_gen">>         \* 0x00 0x04 0x08 0x0C
Ranges  == <<"eth_range", "dma_range">>                             \* 0: all channels
Regs    == ToSet(Muxes \o Ranges) \cup {"eth_on", "eth_len", "dma_on", "dma_len"}
Streams == DOMAIN gls

(* ------------------------------------------------------------ register writes -- *)
Write(p, reg, value) == [p |-> p, reg |-> reg, value |-> value]
WriteAll(streams, regs, value) ==
    FlattenSeq([k \in DOMAIN streams |->
                  [r \in DOMAIN regs |-> Write(streams[k], regs[r], value)]])

DefaultMuxes(streams) == WriteAll(streams, Muxes, 0)
Defaults(streams)     == WriteAll(streams, Muxes \o Ranges, 0)

\* The loopback paths of a mode.
HoleModes  == {"eth_gen", "dma_rx", "dma_rxtx"}
TxGenModes == {"rx", "eth_gen", "dma_tx", "dma_rxtx", "dma_loop"}
Paths(mode, streams) ==
    (IF mode \in HoleModes    THEN WriteAll(streams, <<"rx_hole">>, 1)  ELSE <<>>) \o
    (IF mode \in TxGenModes   THEN WriteAll(streams, <<"tx_gen">>, 1)   ELSE <<>>) \o
    (IF mode \in {"dma_loop"} THEN WriteAll(streams, <<"dma_loop">>, 1) ELSE <<>>)

\* Frame generators: the ndp program, the generator to Ethernet, the one to the DMA.
NdpModes == {"tx", "rxtx", "dma_tx", "dma_rxtx", "dma_loop"}
EthModes == {"rx", "eth_gen"}
DmaModes == {"dma_rx", "dma_rxtx"}
StartGen(length, single, p, len, range, on) ==
    <<Write(p, len, length)>> \o (IF single THEN <<Write(p, range, 1)>> ELSE <<>>)
    \o <<Write(p, on, 1)>>
Generators(mode, streams, single, length) ==
    FlattenSeq([k \in DOMAIN streams |->
        IF mode \in EthModes
        THEN StartGen(length, single, streams[k], "eth_len", "eth_range", "eth_on")
        ELSE IF mode \in DmaModes
        THEN StartGen(length, single, streams[k], "dma_len", "dma_range", "dma_on")
        ELSE <<>>])

\* The loop variable still holds the last stream: only its generator is stopped.
StopGen(mode, p) ==
    (IF mode \in EthModes THEN <<Write(p, "eth_on", 0)>> ELSE <<>>) \o
    (IF mode \in DmaModes THEN <<Write(p, "dma_on", 0)>> ELSE <<>>)

(* ---------------------------------------------------------------- the program -- *)
\* main: the firmware has one GEN_LOOP_SWITCH for each port, or a single one.
Main(mode, ports) ==
    /\ pc = "idle" /\ runs < MaxRuns
    /\ Cardinality(Streams) = EthPorts \/ Cardinality(Streams) = 1
    /\ LET single  == Cardinality(Streams) < EthPorts
           streams == IF single THEN <<0>> ELSE ports
       IN  /\ prog' = [mode |-> mode, streams |-> streams, single |-> single,
                       i |-> 1, k |-> 1, j |-> 1]
           /\ pend' = Defaults(streams) \o Paths(mode, streams)
    /\ ndp' = [read |-> FALSE, gen |-> 0]              \* killall
    /\ pc' = "setup" /\ runs' = runs + 1
    /\ UNCHANGED <<gls, meter>>

nfb_bus ==
    /\ pend # <<>>
    /\ LET w == Head(pend) IN gls' = [gls EXCEPT ![w.p][w.reg] = w.value]
    /\ pend' = Tail(pend)
    /\ UNCHANGED <<meter, ndp, prog, pc, runs>>

Go(from, to) == pc = from /\ pend = <<>> /\ pc' = to

\* ndp-read is only ever started for the DMA loopback.
StartRead ==
    /\ Go("setup", "generate")
    /\ ndp' = [ndp EXCEPT !.read = prog.mode = "dma_loop"]
    /\ UNCHANGED <<gls, meter, prog, pend, runs>>

StartFrames ==
    /\ Go("generate", "reset")
    /\ LET length == Lengths[prog.i]
       IN  /\ ndp' = [ndp EXCEPT !.gen = IF prog.mode \in NdpModes THEN length ELSE 0]
           /\ pend' = Generators(prog.mode, prog.streams, prog.single, length)
    /\ prog' = [prog EXCEPT !.k = 1, !.j = 1]
    /\ UNCHANGED <<gls, meter, runs>>

Now == prog.streams[prog.k]

sm_reset ==
    /\ Go("reset", "speed")
    /\ meter' = [meter EXCEPT ![Now] = 0]
    /\ UNCHANGED <<gls, ndp, prog, pend, runs>>

\* The meter is asked up to ten times whether it is done, then read as it is.
sm_get_speed ==
    /\ pc = "speed"
    /\ IF prog.j < Intervals
       THEN prog' = [prog EXCEPT !.j = @ + 1] /\ pc' = "reset"
       ELSE IF prog.k < Len(prog.streams)
       THEN prog' = [prog EXCEPT !.j = 1, !.k = @ + 1] /\ pc' = "reset"
       ELSE UNCHANGED prog /\ pc' = "stop"
    /\ UNCHANGED <<gls, meter, ndp, pend, runs>>

StopFrames ==
    /\ pc = "stop"
    /\ ndp' = [ndp EXCEPT !.gen = 0]
    /\ pend' = StopGen(prog.mode, Now)
    /\ prog' = [prog EXCEPT !.i = @ + 1]
    /\ pc' = IF prog.i < Len(Lengths) THEN "generate" ELSE "close"
    /\ UNCHANGED <<gls, meter, runs>>

\* Stopping an ndp-read that was never started is an exception: the program ends
\* and the multiplexers stay as they are.
Close ==
    /\ Go("close", IF prog.mode \in {"rx", "rxtx", "dma_rx", "dma_rxtx"}
                   THEN "idle" ELSE "restore")
    /\ ndp' = [ndp EXCEPT !.read = FALSE]
    /\ pend' = IF pc' = "idle" THEN <<>> ELSE DefaultMuxes(prog.streams)
    /\ UNCHANGED <<gls, meter, prog, runs>>

Finish ==
    /\ Go("restore", "idle")
    /\ UNCHANGED <<gls, meter, ndp, prog, pend, runs>>

\* The second SIGINT, or any other signal.
Kill ==
    /\ pc # "idle"
    /\ pc' = "idle" /\ pend' = <<>>
    /\ UNCHANGED <<gls, meter, ndp, prog, runs>>

\* External: a meter counts the ticks of its interval and stays done.
MeterTick(p) ==
    /\ pc = "speed" /\ p = Now /\ meter[p] < SmMax
    /\ meter' = [meter EXCEPT ![p] = @ + 1]
    /\ UNCHANGED <<gls, ndp, prog, pend, pc, runs>>

(* -------------------------------------------------------------- specification -- *)
PortLists == {<<0>>} \cup {<<p>> : p \in 1..(EthPorts - 1)} \cup {[p \in 1..EthPorts |-> p - 1]}

Init ==
    /\ \E count \in {1, EthPorts} : /\ gls = [p \in 0..(count - 1) |-> [r \in Regs |-> 0]]
                                    /\ meter = [p \in 0..(count - 1) |-> 0]
    /\ ndp = [read |-> FALSE, gen |-> 0]
    /\ prog = [mode |-> "rx", streams |-> <<0>>, single |-> FALSE, i |-> 1, k |-> 1, j |-> 1]
    /\ pend = <<>> /\ pc = "idle" /\ runs = 0

Next ==
    \/ \E mode \in Modes, ports \in PortLists : Main(mode, ports)
    \/ nfb_bus \/ StartRead \/ StartFrames \/ sm_reset \/ sm_get_speed \/ StopFrames
    \/ Close \/ Finish \/ Kill
    \/ \E p \in Streams : MeterTick(p)

Spec == Init /\ [][Next]_vars

(* ---------------------------------------------------------------- properties -- *)
TypeOK ==
    /\ \A p \in Streams : gls[p] \in [Regs -> Nat] /\ meter[p] \in 0..SmMax
    /\ ToSet(prog.streams) \subseteq Streams
    /\ pc \in {"idle", "setup", "generate", "reset", "speed", "stop", "close", "restore"}

\* A speed is measured on the paths of the mode: whatever an earlier run that
\* was killed or ended by an exception left in the card, every stream of the
\* measurement has exactly the multiplexers of the mode, its generator runs with
\* the length that is reported, and on the channels the user asked for.
MeasuredAsAsked ==
    pc = "speed" =>
        LET m == prog.mode
            On(p) == {r \in ToSet(Muxes) : gls[p][r] = 1}
            Running(p, on, len, range) == /\ gls[p][on] = 1 /\ gls[p][len] = Lengths[prog.i]
                                          /\ gls[p][range] = IF prog.single THEN 1 ELSE 0
        IN  /\ \A p \in ToSet(prog.streams) :
                  /\ On(p) = (IF m \in HoleModes THEN {"rx_hole"} ELSE {}) \cup
                             (IF m \in TxGenModes THEN {"tx_gen"} ELSE {}) \cup
                             (IF m = "dma_loop" THEN {"dma_loop"} ELSE {})
                  /\ m \in EthModes => Running(p, "eth_on", "eth_len", "eth_range")
                  /\ m \in DmaModes => Running(p, "dma_on", "dma_len", "dma_range")
            /\ m \in NdpModes => ndp.gen = Lengths[prog.i]
=============================================================================
