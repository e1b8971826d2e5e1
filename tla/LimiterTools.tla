----------------------------- MODULE LimiterTools -----------------------------
(* The Python classes of the flow components: RateLimiter (rate_limiter.py),  *)
(* TimestampLimiter (timestamp_limiter.py) and SpeedMeter (speed_meter.py),   *)
(* each with the registers of its component.  A method is one step but for    *)
(* SpeedMeter.get_speed, which polls a meter that is counting meanwhile.      *)
EXTENDS Integers, Sequences, FiniteSets

CONSTANTS TicksPerSec,  \* clock frequency
          MinSpeed,     \* smallest speed register that can shape traffic
          IntervalCount,\* speed registers in the design
          Sections,     \* section lengths asked for, in ticks
          SpeedLists,   \* output_speed lists asked for, units per second
          DefaultRegs,  \* registers of an idle limiter
          Queues,       \* queues of the time stamp limiter
          MaxTicks,     \* length of a speed meter interval
          MaxOps,       \* bound: method calls
          None, Partial \* no configuration; one that was left half way

VARIABLES rl,     \* rate limiter: state, sec_len, int_len, speeds, pkts
          asked,  \* configuration of the registers: a cfg, None (defaults), Partial
          tsl,    \* time stamp limiter: select, top, was_reset
          sm,     \* speed meter: ticks, bytes, done
          get,    \* get_speed: the step it is at and what it read
          ops     \* bound counter
vars == <<rl, asked, tsl, sm, get, ops>>

Call == ops < MaxOps /\ ops' = ops + 1 /\ get.pc = "idle"

(* ---------------------------------------------------------------- rate limiter -- *)
CeilDiv(a, b) == (a + b - 1) \div b

_fix_sec_len(speed, sec) ==
    LET least == (MinSpeed * TicksPerSec) \div speed
    IN  IF sec * speed < MinSpeed * TicksPerSec THEN least ELSE sec

\* Units per section; the section length register is written on the way.
_conv_Gbs2Bscn(speed, sec) == CeilDiv(speed * _fix_sec_len(speed, sec), TicksPerSec)

\* Units per second a speed register stands for, rounded (half up, say).
_conv_Bscn2Gbs(speed, sec) == (2 * speed * TicksPerSec + sec) \div (2 * sec)

\* What print_cfg shows: every valid speed register.
print_cfg == [i \in DOMAIN rl.speeds |-> _conv_Bscn2Gbs(rl.speeds[i], rl.sec_len)]

\* configure: CONF, section, interval, speeds, then the auxiliary write, which
\* only sets the shaping type.  "fail" is the key of cfg whose value is unusable.
Kept(cfg) == IF Len(cfg.speed) > IntervalCount THEN SubSeq(cfg.speed, 1, IntervalCount)
             ELSE cfg.speed
Configured(cfg, fail) ==
    LET speeds  == Kept(cfg)
        written == CASE fail = "output_speed" \/ speeds = <<>> -> 0
                     [] fail = "last_speed" /\ speeds # <<>>  -> Len(speeds) - 1
                     [] OTHER -> Len(speeds)
    IN  [state   |-> "CONF",
         sec_len |-> IF fail = "interval_length" \/ written = 0 THEN cfg.sec
                     ELSE _fix_sec_len(speeds[written], cfg.sec),
         int_len |-> IF fail = "interval_length" THEN rl.int_len ELSE cfg.int,
         speeds  |-> IF fail = "interval_length" \/ written = 0 THEN DefaultRegs.speeds
                     ELSE [i \in 1..written |-> _conv_Gbs2Bscn(speeds[i], cfg.sec)],
         pkts    |-> cfg.pkts]

configure(cfg, fail) ==
    /\ Call
    /\ IF fail = "section_length" \/ cfg.sec >= TicksPerSec
       THEN rl' = [rl EXCEPT !.pkts = cfg.pkts] /\ UNCHANGED asked
       ELSE /\ rl' = Configured(cfg, fail)
            /\ asked' = IF fail = "none" THEN cfg ELSE Partial
    /\ UNCHANGED <<tsl, sm, get>>

\* The auxiliary write before the start only resets the speed pointer.
start_shaping ==
    /\ Call
    /\ rl' = [rl EXCEPT !.state = "RUN"]
    /\ UNCHANGED <<asked, tsl, sm, get>>

\* An idle limiter resets its configuration.
stop_shaping ==
    /\ Call
    /\ rl' = [DefaultRegs EXCEPT !.pkts = rl.pkts]
    /\ asked' = None
    /\ UNCHANGED <<tsl, sm, get>>

(* -------------------------------------------------------- time stamp limiter -- *)
\* "fail" as above: the queues are selected first, and all of them after an error.
configure_ts(select, top, fail) ==
    /\ Call
    /\ tsl' = [tsl EXCEPT !.select = IF fail = "none" THEN select ELSE Queues,
                          !.top = IF fail = "none" THEN top ELSE @]
    /\ UNCHANGED <<rl, asked, sm, get>>

reset ==
    /\ Call
    /\ tsl' = [tsl EXCEPT !.was_reset = tsl.select]
    /\ UNCHANGED <<rl, asked, sm, get>>

(* ---------------------------------------------------------------- speed meter -- *)
\* External: counts from the first frame to the end of the interval, then holds.
MeterCount ==
    /\ sm.ticks < MaxTicks
    /\ \E b \in 0..1 :
          /\ sm.ticks = 0 => b = 1
          /\ sm' = [ticks |-> sm.ticks + 1, bytes |-> sm.bytes + b,
                    done |-> sm.ticks + 1 = MaxTicks]
    /\ UNCHANGED <<rl, asked, tsl, get, ops>>

clear_data ==
    /\ Call
    /\ sm' = [ticks |-> 0, bytes |-> 0, done |-> FALSE]
    /\ UNCHANGED <<rl, asked, tsl, get>>

get_speed ==
    /\ Call
    /\ get' = [get EXCEPT !.pc = IF sm.ticks # 0 THEN "wait" ELSE "idle",
                          !.ticks = 0, !.bytes = 0]
    /\ UNCHANGED <<rl, asked, tsl, sm>>

WaitDone ==
    /\ get.pc = "wait" /\ sm.done
    /\ get' = [get EXCEPT !.pc = "ticks"]
    /\ UNCHANGED <<rl, asked, tsl, sm, ops>>

\* Ticks, bytes and frames are read one after another.
ReadTicks ==
    /\ get.pc = "ticks"
    /\ get' = [get EXCEPT !.pc = "bytes", !.ticks = sm.ticks]
    /\ UNCHANGED <<rl, asked, tsl, sm, ops>>

ReadBytes ==
    /\ get.pc = "bytes"
    /\ get' = [get EXCEPT !.pc = "idle", !.bytes = sm.bytes]
    /\ UNCHANGED <<rl, asked, tsl, sm, ops>>

(* -------------------------------------------------------------- specification -- *)
Cfgs  == {[sec |-> s, int |-> i, speed |-> l, pkts |-> p] :
            s \in Sections, i \in 1..2, l \in SpeedLists, p \in BOOLEAN}
Fails == {"none", "section_length", "interval_length", "output_speed", "last_speed"}

Init ==
    /\ rl = DefaultRegs /\ asked = None
    /\ tsl = [select |-> Queues, top |-> FALSE, was_reset |-> {}]
    /\ sm = [ticks |-> 0, bytes |-> 0, done |-> FALSE]
    /\ get = [pc |-> "idle", ticks |-> 0, bytes |-> 0]
    /\ ops = 0

Next ==
    \/ \E cfg \in Cfgs, fail \in Fails : configure(cfg, fail)
    \/ start_shaping \/ stop_shaping
    \/ \E q \in SUBSET Queues, top \in BOOLEAN, fail \in {"none", "bad"} : configure_ts(q, top, fail)
    \/ reset
    \/ MeterCount \/ clear_data \/ get_speed \/ WaitDone \/ ReadTicks \/ ReadBytes

Spec == Init /\ [][Next]_vars

(* ---------------------------------------------------------------- properties -- *)
TypeOK ==
    /\ rl.state \in {"IDLE", "CONF", "RUN"} /\ rl.sec_len \in Nat /\ Len(rl.speeds) \in 1..IntervalCount
    /\ tsl.select \subseteq Queues /\ tsl.was_reset \subseteq Queues
    /\ sm.ticks \in 0..MaxTicks /\ sm.done = (sm.ticks = MaxTicks)
    /\ get.pc \in {"idle", "wait", "ticks", "bytes"}

\* A limiter that shapes traffic after a complete configuration lets through at
\* least what was asked for in every interval, and less than one unit per
\* section more, when no speed made the tool lengthen the section; the last
\* speed gets its share even then; print_cfg never shows less than was asked.
\* Nothing an earlier configuration wrote is left in the registers.
RateAsAsked ==
    rl.state = "RUN" /\ asked \notin {None, Partial} =>
        LET speeds   == Kept(asked)
            Exact(i) == rl.speeds[i] * TicksPerSec - speeds[i] * rl.sec_len \in 0..(TicksPerSec - 1)
            fixed    == \E i \in DOMAIN speeds : _fix_sec_len(speeds[i], asked.sec) # asked.sec
        IN  speeds # <<>> =>
                /\ Len(rl.speeds) = Len(speeds)
                /\ Exact(Len(speeds))
                /\ ~fixed => /\ \A i \in DOMAIN speeds : Exact(i) /\ print_cfg[i] >= speeds[i]
                             /\ rl.sec_len = asked.sec

(* ---------------------------------------------------- the inductive invariant -- *)
LimiterAssumption ==
    /\ {TicksPerSec, IntervalCount, MaxTicks} \subseteq Nat \ {0} /\ MinSpeed \in Nat
    /\ Sections \subseteq Nat \ {0} /\ SpeedLists \subseteq Seq(Nat \ {0})
    /\ DefaultRegs \in [state : {"IDLE"}, sec_len : Nat, int_len : Nat, speeds : Seq(Nat), pkts : BOOLEAN]
    /\ Len(DefaultRegs.speeds) \in 1..IntervalCount
    /\ {None, Partial} \cap Cfgs = {}

Regs == [state : {"IDLE", "CONF", "RUN"}, sec_len : Nat, int_len : Nat, speeds : Seq(Nat), pkts : BOOLEAN]
LimiterTyped ==
    /\ rl \in Regs
    /\ tsl \in [select : SUBSET Queues, top : BOOLEAN, was_reset : SUBSET Queues]
    /\ sm \in [ticks : 0..MaxTicks, bytes : Nat, done : BOOLEAN]
    /\ get \in [pc : {"idle", "wait", "ticks", "bytes"}, ticks : Nat, bytes : Nat]

\* After a complete configuration, shaping or not, the registers hold the speeds
\* asked for as the tool converts them, the section length that of the last one.
Programmed ==
    asked \notin {None, Partial} =>
        LET speeds == Kept(asked)
        IN  /\ asked \in Cfgs /\ asked.sec < TicksPerSec
            /\ speeds # <<>> =>
                  /\ rl.speeds = [i \in 1..Len(speeds) |-> _conv_Gbs2Bscn(speeds[i], asked.sec)]
                  /\ rl.sec_len = _fix_sec_len(speeds[Len(speeds)], asked.sec)

LimiterInv == TypeOK /\ LimiterTyped /\ Programmed
=============================================================================
