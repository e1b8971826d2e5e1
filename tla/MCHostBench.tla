----------------------------- MODULE MCHostBench -----------------------------
(* The parts of the simulated host and of the test benches, the frame player  *)
(* and recorder, the tools that measure, and the scripts that generate and    *)
(* run simulations and syntheses: one instance of each.  A run takes one part *)
(* (`part`) and explores all it can do; s1, s2, ... hold the variables of     *)
(* that part, and nothing when it has fewer.                                  *)
EXTENDS Integers, Sequences

CONSTANTS None, Beyond, Text, NoFile, NoSetting, default, Simulator, ByName, DATA_WIDTH, small, large

VARIABLES part, s1, s2, s3, s4, s5, s6, s7, s8, s9, s10, s11, s12

vars == <<part, s1, s2, s3, s4, s5, s6, s7, s8, s9, s10, s11, s12>>

(* ---- frame player and recorder: one region of two blocks of two bytes ------ *)
Frames == INSTANCE FrameTools WITH
    Regions <- 1, RegionSize <- 2, BlockSize <- 2, SofWidth <- 1, EofWidth <- 2, FifoDepth <- 3,
    PacketLists <- {<<>>} \union UNION { [1 .. n -> 3 .. 8] : n \in 1 .. 2 }
                     \union [1 .. 3 -> {3, 4, 5, 7}],
    MaxSessions <- 2,
    player <- s1, fifo <- s2, rec <- s3, recfifo <- s4, played <- s5, packets <- s6,
    sessions <- s7

(* ---- PCIe: two tags; bus words of two and of four dwords -------------------- *)
Completer == INSTANCE PcieCompleter WITH
    Junk <- Beyond, Tags <- {0, 1}, Dword <- 2, Beat <- 4, Header <- 2, Addresses <- {0, 1}, Counts <- {2, 5},
    MaxCalls <- 3,
    kind <- s1, queue <- s2, loop <- s3, free <- s4, reads <- s5, wire <- s6, device <- s7,
    cc <- s8, result <- s9, expect <- s10, odd <- s11, failed <- s12

Requester == INSTANCE PcieRequester WITH
    Beat <- 4, Quarter <- 2, Header <- 1, Completion <- 1, LengthMod <- 8, Latency <- 1,
    Addresses <- {0, 1}, Lengths <- {2, 3, 6}, MaxRequests <- 3,
    bus <- s1, issued <- s2, sent <- s3, inframe <- s4, ram <- s5, q <- s6, resp <- s7,
    driver <- s8, rx <- s9, got <- s10

(* ---- the host software: rings of four descriptors, two clients --------------- *)
Ndp == INSTANCE NdpQueue WITH
    N <- 4, MaxPkts <- 5,
    tx <- s1, ring <- s2, buf <- s3, call <- s4, temp <- s5, hw <- s6, rx <- s7, rxdesc <- s8,
    log <- s9
ASSUME RingSize == Ndp!RingAssumption

Grpc == INSTANCE GrpcBench WITH
    Contexts <- {1, 2}, QueueSize <- 2, MaxOps <- 2,
    dma <- s1, queues <- s2, stream <- s3, client <- s4, sim <- s5, ops <- s6, mi <- s7,
    calls <- s8, server <- s9

(* ---- the agents of the component test benches --------------------------------- *)
Mi == INSTANCE MiAgents WITH
    Width <- 2, Addresses <- {0, 1}, Lengths <- {1, 3}, MaxRequests <- 3,
    gated <- s1, requests <- s2, driver <- s3, signals <- s4, responder <- s5, monitor <- s6,
    returned <- s7

Streams == INSTANCE StreamAgents WITH
    Regions <- 2, RegionSize <- 2, BlockSize <- 2, Items <- 2, Rates <- {0, 50}, MaxIdles <- 3,
    MaxTotal <- 6, Lengths <- {1, 2, 3, 6}, MaxFrames <- 4,
    bus <- s1, rate <- s2, frames <- s3, sender <- s4, word <- s5, signals <- s6, monitor <- s7

Ethernet == INSTANCE EthAgents WITH
    Segments <- 2, Bytes <- 2, WordBytes <- 4, Overhead <- 2, Rate <- 1, Full <- 2,
    Lengths <- {3, 5, 8}, MaxFrames <- 3, MaxClocks <- 16,
    bus <- s1, frames <- s2, sender <- s3, word <- s4, limiter <- s5, monitor <- s6, line <- s7,
    crc <- s8

(* ---- probes and the simulated card --------------------------------------------- *)
Probe == INSTANCE ThroughputProbe WITH
    Items <- 1, Probes <- 2, Periods <- {0, 2}, MaxTime <- 4, MaxOps <- 2,
    now <- s1, turn <- s2, intervals <- s3, period <- s4, item_cnt <- s5, probe <- s6, logs <- s7,
    failed <- s8, ops <- s9

Device == INSTANCE NfbBench WITH
    Endpoints <- 2, Words <- 3, MaxReads <- 3,
    design <- s1, stage <- s2, clocks <- s3, mi <- s4, req <- s5, rst <- s6, pins <- s7, hw <- s8,
    reader <- s9, dtbs <- s10

(* ---- the data logger: two counters, two boxes ------------------------------ *)
Log == INSTANCE LoggerTool WITH
    CnterCnt <- 2, MiWidth <- 1, CnterWidth <- 2, ValueWidth <- 1, SumExtra <- 1, BoxCnt <- 2,
    BoxWidth <- 2, MaxEvents <- 2,
    hw <- s1, me <- s2, alone <- s3, events <- s4, seen <- s5

Stat(n, k) == [name |-> n, kind |-> k]
Saved(n) == [name |-> n, data |-> [nest |-> 0, list |-> <<7>>]]
History == INSTANCE LoggerHistory WITH
    Tree <- << Stat("flow", "flow"), Stat("const", "constant"), Stat("lat", "value"),
               Stat("cmd", "cmd"), Stat("off", "disabled"), Stat("cnt", "counter"),
               Stat("t", "time") >>,
    Derived <- "total", LogTime <- "Log time",
    HandFiles <- { << Saved("flow"), Saved("lat"), Saved("cmd"), Saved("cnt"), Saved("off"),
                      Saved("t"), Saved("const") >>,
                   << Saved("const"), Saved("flow") >> },
    MaxOps <- 4,
    stats <- s1, time <- s2, file <- s3, ops <- s4, hist <- s5, fhist <- s6, sane <- s7

(* ---- the testers: two interfaces, two ports, two calls ---------------------- *)
Mem == INSTANCE MemTesterTool WITH
    Interfaces <- {0, 1}, BurstSeq <- <<1, 2>>, CliBursts <- {2, 3}, MaxBurst <- 2, MaxRuns <- 2,
    hw <- s1, todo <- s2, pc <- s3, last <- s4, report <- s5, runs <- s6

Amm == INSTANCE AmmGenTool WITH
    Slices <- 2, SliceValues <- 4, MaxBurst <- 4, FirstBurst <- 2, MemWords <- 4,
    Data <- {6, 25}, MaxCalls <- 4,
    addr <- s1, burst <- s2, buff <- s3, mem <- s4, cut <- s5, wanted <- s6, got <- s7, calls <- s8

Gls == INSTANCE GlsTool WITH
    EthPorts <- 2, Lengths <- <<1, 2>>, Intervals <- 2, SmMax <- 1, MaxRuns <- 2,
    gls <- s1, meter <- s2, ndp <- s3, prog <- s4, pend <- s5, pc <- s6, runs <- s7

Hbm == INSTANCE HbmTesterTool WITH
    Ports <- 2, MeasureLength <- 2, FirstLength <- 3, SecondLength <- 2, TimeWrap <- 4,
    Polls <- 2, MaxSessions <- 2,
    tool <- s1, regs <- s2, mon <- s3, sessions <- s4

Speed == INSTANCE SpeedScripts WITH
    Lengths <- <<60, 64>>, MaxTicks <- 2, MaxChecks <- 2, MaxRuns <- 2, Other <- Text,
    meter <- s1, gen <- s2, mux <- s3, prog <- s4, rows <- s5, speeds <- s6, runs <- s7

(* ---- the scripts that run simulations and syntheses ------------------------- *)
Combinations == INSTANCE CombinationTools WITH
    Default <- default, Params <- {DATA_WIDTH}, Values <- {0, 1}, Names <- {large}, Keys <- {small, large},
    CombinationOf <- [k \in {small, large} |->
                        IF k = small THEN <<small>> ELSE <<small, large>>],
    Selected <- ByName, Synthesis <- {small}, MaxCalls <- 2,
    settings <- s1, pkg <- s2, transcripts <- s3, reports <- s4, saved <- s5, jobs <- s6,
    FAIL <- s7, exit <- s8, opened <- s9, runs <- s10, calls <- s11

Pick(s, slice) == [setting |-> s, slice |-> slice]
Common(pick) == [list |-> FALSE, of |-> <<pick>>]
OneOf(picks) == [list |-> TRUE, of |-> picks]
Harp == INSTANCE NdkXBuildTool WITH
    Defaults <- [W |-> 1, R |-> 1],
    Settings <- [ wide  |-> [list |-> FALSE, columns |-> << <<"W", <<1, 2, 3>>>> >>],
                  many  |-> [list |-> FALSE, columns |-> << <<"R", <<2>>>> >>],
                  both  |-> [list |-> FALSE, columns |-> << <<"W", <<1, 3>>>>, <<"R", <<1, 3>>>> >>],
                  pairs |-> [list |-> TRUE, columns |-> << <<"W", <<2, 3>>>>, <<"R", <<3, 1>>>> >>] ],
    Groups <- [ a |-> << Common(Pick("wide", <<0, 2>>)), OneOf(<<NoSetting, Pick("many", None)>>) >>,
                b |-> << Common(NoSetting), OneOf(<<NoSetting, Pick("both", <<1, 9>>)>>),
                         OneOf(<<Pick("many", None), NoSetting>>) >>,
                c |-> << Common(NoSetting), OneOf(<<Pick("many", None), Pick("pairs", <<1, 2>>)>>) >> ],
    Filtered <- { [W |-> 2, R |-> 2] }, MaxCalls <- 2,
    run <- s1, generics <- s2, ran <- s3, csv <- s4, calls <- s5

Transcript == INSTANCE TranscriptTool WITH
    Addresses <- {0, 1, 5, 15, 16, 17, 28, 31, 32, 37, 60},
    Lengths <- {0, 1, 2, 7, 15, 16, 17, 24, 31, 32, 33, 40}, Numbers <- {0, 3},
    Regions <- {1, 2}, RegSizes <- {4, 8},
    DOWN_REGIONS <- s1, DOWN_REG_SIZE <- s2, DOWN_W_D <- s3, RCB <- s4, RCBS <- s5,
    all_ok <- s6, end <- s7

(* ---- the generators of packets and of flows --------------------------------- *)
Weight(on, off) == [on |-> on, off |-> off]
OnlyUdp == Weight({"UDP"}, {"Payload", "Empty", "ICMPv4", "TCP"})
NoPayload == Weight({"Empty"}, {"Payload"})
Packets == INSTANCE PacketGenerator WITH
    Configs <- { [ vlan |-> 2, mpls |-> 2,
                   weight |-> [ ETH |-> Weight({"VLAN"}, {"IPv4", "IPv6", "MPLS", "Empty", "PPP"}),
                                VLAN |-> Weight({"VLAN", "MPLS"}, {"IPv4", "IPv6", "Empty", "PPP"}),
                                PPP |-> Weight({"IPv4"}, {"IPv6", "MPLS", "Empty"}),
                                MPLS |-> Weight({"MPLS"}, {"IPv4", "IPv6", "Empty"}),
                                IPv4 |-> OnlyUdp, UDP |-> NoPayload ] ],
                 [ vlan |-> 0, mpls |-> 1,
                   weight |-> [ ETH |-> Weight({"VLAN", "IPv6"}, {"IPv4", "MPLS", "Empty", "PPP"}),
                                VLAN |-> Weight({"VLAN"}, {"IPv4", "IPv6", "Empty", "PPP", "MPLS"}),
                                IPv6 |-> Weight({"IPv6Ext"}, {"Payload", "Empty", "ICMPv4", "UDP", "TCP"}),
                                IPv6Ext |-> Weight({"IPv6Ext", "UDP"}, {"Payload", "Empty", "ICMPv4", "TCP"}),
                                UDP |-> NoPayload ] ] },
    Trill <- 1, IPv6Ext <- 3, MaxPackets <- 2,
    conf <- s1, stack <- s2, written <- s3, walk <- s4, drawn <- s5, failed <- s6

Flows == INSTANCE FlowGenerators WITH
    Defaults <- [ layers |-> 3, elements |-> 2, addresses |-> 1, mandatory |-> <<>>,
                  packet_min |-> 2, packet_max |-> 9, step_min |-> 1, step_max |-> 3,
                  start_min |-> 0, start_max |-> 2, end_min |-> 1, end_max |-> 2,
                  packets_min |-> 0, packets_max |-> 2, rev_min |-> 0, rev_max |-> 1 ],
    Overrides <- { <<>>,
                   [mandatory |-> <<"file">>, packet_min |-> 4, packet_max |-> 12, step_min |-> 2],
                   [step_max |-> 0, packet_max |-> 6, elements |-> 1],
                   [start_max |-> 4, rev_max |-> 0, elements |-> 1] },
    Arguments <- {<<>>, <<"argument">>}, Share <- 3,
    param <- s1, at <- s2, types <- s3, layers <- s4, elements <- s5, total <- s6, ranges <- s7,
    actual <- s8, sizes <- s9, record <- s10, failed <- s11

(* ---- one part at a time ---------------------------------------------------------- *)
Free(first) ==
    /\ IF first <= 5 THEN s5 = None ELSE TRUE
    /\ IF first <= 6 THEN s6 = None ELSE TRUE
    /\ IF first <= 7 THEN s7 = None ELSE TRUE
    /\ IF first <= 8 THEN s8 = None ELSE TRUE
    /\ IF first <= 9 THEN s9 = None ELSE TRUE
    /\ IF first <= 10 THEN s10 = None ELSE TRUE
    /\ IF first <= 11 THEN s11 = None ELSE TRUE
    /\ IF first <= 12 THEN s12 = None ELSE TRUE
Keep(first) ==
    /\ IF first <= 5 THEN UNCHANGED s5 ELSE TRUE
    /\ IF first <= 6 THEN UNCHANGED s6 ELSE TRUE
    /\ IF first <= 7 THEN UNCHANGED s7 ELSE TRUE
    /\ IF first <= 8 THEN UNCHANGED s8 ELSE TRUE
    /\ IF first <= 9 THEN UNCHANGED s9 ELSE TRUE
    /\ IF first <= 10 THEN UNCHANGED s10 ELSE TRUE
    /\ IF first <= 11 THEN UNCHANGED s11 ELSE TRUE
    /\ IF first <= 12 THEN UNCHANGED s12 ELSE TRUE

Init ==
    \/ part = "frame tools" /\ Frames!Init /\ Free(8)
    \/ part = "completer" /\ Completer!Init
    \/ part = "requester" /\ Requester!Init /\ Free(11)
    \/ part = "ndp" /\ Ndp!Init /\ Free(10)
    \/ part = "grpc" /\ Grpc!Init /\ Free(10)
    \/ part = "mi" /\ Mi!Init /\ Free(8)
    \/ part = "streams" /\ Streams!Init /\ Free(8)
    \/ part = "ethernet" /\ Ethernet!Init /\ Free(9)
    \/ part = "probe" /\ Probe!Init /\ Free(10)
    \/ part = "device" /\ Device!Init /\ Free(11)
    \/ part = "logger" /\ Log!Init /\ Free(6)
    \/ part = "history" /\ History!Init /\ Free(8)
    \/ part = "mem tester" /\ Mem!Init /\ Free(7)
    \/ part = "gls" /\ Gls!Init /\ Free(8)
    \/ part = "hbm tester" /\ Hbm!Init /\ Free(5)
    \/ part = "multi_ver" /\ Combinations!Init /\ Free(12)
    \/ part = "harp" /\ Harp!Init /\ Free(6)
    \/ part = "pkt_gen" /\ Packets!Init /\ Free(7)
    \/ part = "flowtest" /\ Flows!Init /\ Free(12)
    \/ part = "amm_gen" /\ Amm!Init /\ Free(9)
    \/ part = "speed scripts" /\ Speed!Init /\ Free(8)
    \/ part = "transcript" /\ Transcript!Init /\ Free(8)

Next ==
    \/ part = "frame tools" /\ UNCHANGED part /\ Frames!Next /\ Keep(8)
    \/ part = "completer" /\ UNCHANGED part /\ Completer!Next
    \/ part = "requester" /\ UNCHANGED part /\ Requester!Next /\ Keep(11)
    \/ part = "ndp" /\ UNCHANGED part /\ Ndp!Next /\ Keep(10)
    \/ part = "grpc" /\ UNCHANGED part /\ Grpc!Next /\ Keep(10)
    \/ part = "mi" /\ UNCHANGED part /\ Mi!Next /\ Keep(8)
    \/ part = "streams" /\ UNCHANGED part /\ Streams!Next /\ Keep(8)
    \/ part = "ethernet" /\ UNCHANGED part /\ Ethernet!Next /\ Keep(9)
    \/ part = "probe" /\ UNCHANGED part /\ Probe!Next /\ Keep(10)
    \/ part = "device" /\ UNCHANGED part /\ Device!Next /\ Keep(11)
    \/ part = "logger" /\ UNCHANGED part /\ Log!Next /\ Keep(6)
    \/ part = "history" /\ UNCHANGED part /\ History!Next /\ Keep(8)
    \/ part = "mem tester" /\ UNCHANGED part /\ Mem!Next /\ Keep(7)
    \/ part = "gls" /\ UNCHANGED part /\ Gls!Next /\ Keep(8)
    \/ part = "hbm tester" /\ UNCHANGED part /\ Hbm!Next /\ Keep(5)
    \/ part = "multi_ver" /\ UNCHANGED part /\ Combinations!Next /\ Keep(12)
    \/ part = "harp" /\ UNCHANGED part /\ Harp!Next /\ Keep(6)
    \/ part = "pkt_gen" /\ UNCHANGED part /\ Packets!Next /\ Keep(7)
    \/ part = "flowtest" /\ UNCHANGED part /\ Flows!Next /\ Keep(12)
    \/ part = "amm_gen" /\ UNCHANGED part /\ Amm!Next /\ Keep(9)
    \/ part = "speed scripts" /\ UNCHANGED part /\ Speed!Next /\ Keep(8)
    \/ part = "transcript" /\ UNCHANGED part /\ Transcript!Next /\ Keep(8)

Spec == Init /\ [][Next]_vars

(* ---- properties: each part's own, stated in its module --------------------------- *)
\* The types of the state of the part that runs.
TypeOK ==
    /\ part = "frame tools" => Frames!TypeOK
    /\ part = "completer" => Completer!TypeOK
    /\ part = "requester" => Requester!TypeOK
    /\ part = "ndp" => Ndp!TypeOK
    /\ part = "grpc" => Grpc!TypeOK
    /\ part = "mi" => Mi!TypeOK
    /\ part = "streams" => Streams!TypeOK
    /\ part = "ethernet" => Ethernet!TypeOK
    /\ part = "probe" => Probe!TypeOK
    /\ part = "device" => Device!TypeOK
    /\ part = "logger" => Log!TypeOK
    /\ part = "history" => History!TypeOK
    /\ part = "mem tester" => Mem!TypeOK
    /\ part = "gls" => Gls!TypeOK
    /\ part = "hbm tester" => Hbm!TypeOK
    /\ part = "multi_ver" => Combinations!TypeOK
    /\ part = "harp" => Harp!TypeOK
    /\ part = "pkt_gen" => Packets!TypeOK
    /\ part = "flowtest" => Flows!TypeOK
    /\ part = "amm_gen" => Amm!TypeOK
    /\ part = "speed scripts" => Speed!TypeOK
    /\ part = "transcript" => Transcript!TypeOK

\* Every MI read gets the bytes of its own completions, and the completions of the
\* device's reads carry the requested memory in order (Axi4SCompleter.py,
\* AvstCompleter.py, Axi4SRequester.py, AvstRequester.py).
PcieServed ==
    /\ part = "completer" => Completer!ReadsAnswered
    /\ part = "requester" => Requester!CompletionsInOrder

\* The device gets the packets of a queue as they were accepted, every client's
\* request is answered with its own answer, and every word but the first of a
\* device tree is the one asked for (queue.py, servicer.py, ext/grpc, nfbdevice.py).
HostServed ==
    /\ part = "ndp" => Ndp!SentAsAccepted
    /\ part = "grpc" => Grpc!AnswersInOrder
    /\ part = "device" => Device!DtbWordsRead

\* What is played is recorded, what a driver is given its monitor reports, in
\* order and within the line rate, and a probe logs every item once (player.py,
\* recorder.py, mfb, mvb, lbus, lii, avst_eth, mi, probe.py).
FramesKept ==
    /\ part = "frame tools" => Frames!RecordedAsPlayed
    /\ part = "mi" => Mi!WordsOnBus
    /\ part = "streams" => Streams!FramesArrive
    /\ part = "ethernet" => Ethernet!PacketsArrive /\ Ethernet!LineRateKept
    /\ part = "probe" => Probe!ItemsLoggedOnce

\* A load of the data logger no other program disturbs records each counter as it
\* was at some time of the load, up to one bus word (data_logger.py, load_value).
ReadsBounded == [][part = "logger" => Log!ReadsBounded]_vars

\* The histories of the statistics hold the loads that were made, in their order,
\* through saving and loading them (logger_stats.py).
HistoriesKept == part = "history" => History!HistoriesKept

\* What the memory tester, the loop switch tool, the HBM tester and the scripts of
\* the speed meter print was measured under the settings it is printed for, and
\* the manual access of the memory tester prints the words that were written
\* (mem_tester.py, report_gen.py, gls_mod.py, hbm_tester.py, speed_meter/scripts).
MeasuredAsAsked ==
    /\ part = "mem tester" => Mem!MeasuredAsLabelled
    /\ part = "gls" => Gls!MeasuredAsAsked
    /\ part = "hbm tester" => Hbm!MeasuredAsAsked
    /\ part = "amm_gen" => Amm!WordsAsSet
    /\ part = "speed scripts" => Speed!SpeedsAsAsked

\* Simulations and syntheses run with the parameters of the combination they are
\* reported for, success means all of them passed, the packets and flows that are
\* generated for a simulation keep to their configuration, and the words printed
\* for a simulated read request are those of its completions (multi_ver.py,
\* multi_synth.py, ndk_xbuild, packet_generators, max_words_num_transcript_check.py).
RunsAsSet ==
    /\ part = "multi_ver" => Combinations!RunsAsSet
    /\ part = "harp" => Harp!RunsAsSet
    /\ part = "pkt_gen" => Packets!PacketsGenerated
    /\ part = "flowtest" => Flows!FlowsAsConfigured
    /\ part = "transcript" => Transcript!WordsCounted
=============================================================================
