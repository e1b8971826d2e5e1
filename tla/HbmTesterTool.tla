--------------------------- MODULE HbmTesterTool ---------------------------
(* hbm_tester.py, the command line tester of the HBM ports, with the per-port *)
(* monitors (hbm_tester_mon.vhd) it resets, configures, starts and reads. The *)
(* words of a monitor are kept as the set of configurations they were counted *)
(* under: what is measured is told apart, how fast it was is not.             *)
EXTENDS Naturals

CONSTANTS
    Ports,           \* number of HBM ports of the component (32 in the code)
    MeasureLength,   \* test length of speed and latency (0xFFFFF)
    FirstLength,     \* length of the first phase of a data test (0xFFFF)
    SecondLength,    \* length of its second phase (0xEFFF)
    TimeWrap,        \* 2 ^ CNT_WIDTH of the monitor's time counter
    Polls,           \* polls of the done register before the tool gives up (11)
    MaxSessions,     \* bound: calls of the tool
    None

VARIABLES
    tool,       \* the running process: arguments, place in hbm_test, outcome
    regs,       \* the registers RUN, CONFIG, TIME and RESET
    mon,        \* per port: run register, busy, time counter, counted words
    sessions    \* calls of the tool so far

vars == <<tool, regs, mon, sessions>>

Tests == {"speed", "latency", "integrity", "coherency"}
PortIds == 0 .. Ports - 1
DataTest(test) == test \in {"integrity", "coherency"}
LastPhase(test) == IF DataTest(test) THEN 1 ELSE 0

\* What CONFIG selects: addresses, the direction of the generator, the dead
\* writes, the switching of directions and what the two counters count.
Config(test, phase, rand) ==
    [ rand     |-> rand /\ ~DataTest(test),
      dead     |-> test = "coherency" /\ phase = 0,
      switch   |-> test = "coherency" /\ phase = 1,
      gen      |-> IF ~DataTest(test) \/ (test = "coherency" /\ phase = 1) THEN "wr_rd"
                   ELSE IF phase = 0 THEN "wr" ELSE "rd",
      counters |-> IF DataTest(test) THEN "data" ELSE test ]

PhaseLength(test, phase) ==
    IF ~DataTest(test) THEN MeasureLength
    ELSE IF phase = 0 THEN FirstLength ELSE SecondLength

\* Nothing is printed yet; no port is in RUN.
Idle == [ pc |-> "idle", test |-> "speed", rand |-> FALSE, ports |-> 1, phase |-> 0,
          polls |-> 0, done |-> FALSE, quiet |-> TRUE, printed |-> None ]
Fresh == [ run |-> FALSE, busy |-> FALSE, time |-> 0, words |-> {} ]

Init ==
    /\ tool = Idle
    /\ regs = [ run |-> {}, conf |-> Config("speed", 0, FALSE), length |-> 0, reset |-> {} ]
    /\ mon = [ p \in PortIds |-> Fresh ]
    /\ sessions = 0

MonDone(p) == mon[p].time = regs.length

\* One clock of a port's monitor; a word passes only where the generator runs.
MonTick(p) ==
    /\ \E word \in BOOLEAN :
         LET m       == mon[p]
             start   == word /\ ~m.busy
             running == m.run \/ start
             inReset == p \in regs.reset
             counts  == running /\ ~MonDone(p)
         IN /\ word => p \in regs.run
            /\ mon' = [ mon EXCEPT ![p] =
                 [ run   |-> ~MonDone(p) /\ running,
                   busy  |-> ~inReset /\ (m.busy \/ word),
                   time  |-> IF inReset THEN 0
                             ELSE IF counts THEN (m.time + 1) % TimeWrap ELSE m.time,
                   words |-> IF inReset THEN {}
                             ELSE IF word /\ counts THEN m.words \union {regs.conf}
                             ELSE m.words ] ]
    /\ UNCHANGED <<tool, regs, sessions>>

Step(from, to) == tool.pc = from /\ tool' = [tool EXCEPT !.pc = to]

\* main and the head of hbm_test: the arguments of one call.
Start ==
    /\ tool.pc = "idle"
    /\ sessions < MaxSessions
    /\ \E test \in Tests, rand \in BOOLEAN, ports \in 1 .. Ports :
         tool' = [ Idle EXCEPT !.pc = "reset", !.test = test, !.rand = rand, !.ports = ports,
                     !.quiet = regs.run = {} /\ \A p \in PortIds : ~mon[p].run ]
    /\ sessions' = sessions + 1
    /\ UNCHANGED <<regs, mon>>

\* reset_all_counters: the reset is held for a sleep, long enough for every port.
AssertReset ==
    /\ Step("reset", "release")
    /\ regs' = [regs EXCEPT !.reset = PortIds]
    /\ UNCHANGED <<mon, sessions>>

ReleaseReset ==
    /\ Step("release", "length")
    /\ \A p \in PortIds : mon[p].time = 0 /\ ~mon[p].busy /\ mon[p].words = {}
    /\ regs' = [regs EXCEPT !.reset = {}]
    /\ UNCHANGED <<mon, sessions>>

set_test_length ==
    /\ Step("length", "config")
    /\ regs' = [regs EXCEPT !.length = PhaseLength(tool.test, tool.phase)]
    /\ UNCHANGED <<mon, sessions>>

set_config_reg ==
    /\ Step("config", "run")
    /\ regs' = [regs EXCEPT !.conf = Config(tool.test, tool.phase, tool.rand)]
    /\ UNCHANGED <<mon, sessions>>

UsedPorts == 0 .. tool.ports - 1

\* run_test: RUN is written, done is polled, RUN is cleared whatever was seen.
RunTest ==
    /\ tool.pc = "run"
    /\ tool' = [tool EXCEPT !.pc = "poll", !.polls = 0, !.done = FALSE]
    /\ regs' = [regs EXCEPT !.run = UsedPorts]
    /\ UNCHANGED <<mon, sessions>>

PollDone ==
    LET seen == { p \in PortIds : MonDone(p) } = UsedPorts
    IN /\ tool.pc = "poll"
       /\ tool' = [ tool EXCEPT !.polls = @ + 1, !.done = seen,
                      !.pc = IF seen \/ tool.polls + 1 = Polls THEN "stop" ELSE "poll" ]
       /\ UNCHANGED <<regs, mon, sessions>>

\* Mutant: RUN keeps its ports when the poll loop ends.
StopTestLeavesRun ==
    /\ tool.pc = "stop"
    /\ tool' = IF tool.phase < LastPhase(tool.test)
               THEN [tool EXCEPT !.pc = "reset", !.phase = 1]
               ELSE [tool EXCEPT !.pc = "print"]
    /\ UNCHANGED <<regs, mon, sessions>>

\* The end of run_test; a data test goes on to its second phase without printing.
StopTest ==
    /\ tool.pc = "stop"
    /\ tool' = IF tool.phase < LastPhase(tool.test)
               THEN [tool EXCEPT !.pc = "reset", !.phase = 1]
               ELSE [tool EXCEPT !.pc = "print"]
    /\ regs' = [regs EXCEPT !.run = {}]
    /\ UNCHANGED <<mon, sessions>>

\* print_speed_result, print_latency_result, print_data_result: both counters of
\* every used port, of a finished test and of one given up alike.
PrintResult ==
    /\ tool.pc = "print"
    /\ tool' = [ tool EXCEPT !.pc = "idle",
                   !.printed = [ p \in UsedPorts |->
                                   [ words |-> mon[p].words, time |-> mon[p].time ] ] ]
    /\ UNCHANGED <<regs, mon, sessions>>

\* Ctrl-C: nothing is restored.
Interrupt ==
    /\ tool.pc # "idle"
    /\ tool' = Idle
    /\ UNCHANGED <<regs, mon, sessions>>

Next ==
    \/ Start \/ AssertReset \/ ReleaseReset \/ set_test_length \/ set_config_reg
    \/ RunTest \/ PollDone \/ StopTest \/ PrintResult \/ Interrupt
    \/ \E p \in PortIds : MonTick(p)

Spec == Init /\ [][Next]_vars

TypeOK ==
    /\ tool.pc \in {"idle", "reset", "release", "length", "config", "run", "poll", "stop", "print"}
    /\ tool.ports \in 1 .. Ports /\ tool.polls \in 0 .. Polls /\ tool.phase \in 0 .. 1
    /\ regs.run \subseteq PortIds /\ regs.reset \in {{}, PortIds}
    /\ \A p \in PortIds : mon[p].time \in 0 .. TimeWrap - 1
    /\ sessions \in 0 .. MaxSessions

\* What a call that found the hardware at rest prints was counted under the
\* configuration that was asked for (its last phase, for a data test), and when
\* the ports reported done, over the whole length that was asked for.
MeasuredAsAsked ==
    tool.printed # None /\ tool.quiet =>
        \A p \in UsedPorts :
            /\ tool.printed[p].words \subseteq {Config(tool.test, LastPhase(tool.test), tool.rand)}
            /\ tool.done => tool.printed[p].time = PhaseLength(tool.test, LastPhase(tool.test))
=============================================================================
