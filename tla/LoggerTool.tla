------------------------------ MODULE LoggerTool ------------------------------
(* Programs that read a DATA_LOGGER: data_logger.py (register access behind   *)
(* a cache of the selection registers), mem_logger.py (the tree of statistics *)
(* of a memory logger) and logger_stats.py (histories and derived values),    *)
(* all under comp/debug/data_logger/sw, with the component they read.  Every  *)
(* register access is a step of its own: counters move between two accesses,  *)
(* and another program may drive the same selection registers.                *)
EXTENDS Integers, Sequences, FiniteSetsExt, SequencesExt

CONSTANTS CnterCnt,     \* counters in front of the one value interface
          MiWidth, CnterWidth, ValueWidth, SumExtra, BoxCnt, BoxWidth,
          None,         \* a register that is not selected, not cached
          MaxEvents     \* bound: samples, counts and accesses of other programs

\* _ID_* of the registers the model uses; _REG_VALUE reads what they select.
ID_CNTER_CNT   == 0
ID_CNTER_WIDTH == 5
ID_VALUE_WIDTH == 6
ID_VALUE_EN    == 7
ID_SUM_EXTRA   == 8
ID_BOX_CNT     == 9
ID_BOX_WIDTH   == 10
ID_CTRLO       == 11
ID_CNTER       == 13
ID_MIN         == 14
ID_MAX         == 15
ID_SUM         == 16
ID_HIST        == 17

VARIABLES hw,       \* the component: selection registers, counters, value statistics
          me,       \* the program: its object and the operation that runs
          alone,    \* ghost: no other program has interfered since it was opened
          events,   \* bound counter
          seen      \* ghost: the counters when the running load started
vars == <<hw, me, alone, events, seen>>

(* ---------------------------------------------------- component (external) -- *)
CnterMax == 2^CnterWidth - 1
NoneSelected == [stat |-> 0, index |-> 0, slice |-> 0, hist |-> 0]
ZeroStats ==
    [cnter |-> [i \in 0..CnterCnt |-> 0],
     min |-> 2^ValueWidth - 1, max |-> 0, sum |-> 0,
     box |-> [b \in 0..(BoxCnt - 1) |-> 0]]
ResetHw == [reg |-> NoneSelected, st |-> ZeroStats, ctrlo |-> 0]

Slice(v, i) == (v \div 2^(i * MiWidth)) % 2^MiWidth

\* What _REG_VALUE returns; an index or slice out of range selects the first.
HwRead(r) ==
    LET cnterIdx == IF r.index <= CnterCnt THEN r.index ELSE 0
        whole == CASE r.stat = ID_CNTER_WIDTH -> CnterWidth
                   [] r.stat = ID_VALUE_WIDTH -> ValueWidth
                   [] r.stat = ID_SUM_EXTRA   -> SumExtra
                   [] r.stat = ID_BOX_CNT     -> BoxCnt
                   [] r.stat = ID_BOX_WIDTH   -> BoxWidth
                   [] OTHER                   -> CnterCnt
        wide == CASE r.stat = ID_CNTER -> hw.st.cnter[cnterIdx]
                  [] r.stat = ID_CTRLO -> hw.ctrlo
                  [] r.stat = ID_MIN   -> hw.st.min
                  [] r.stat = ID_MAX   -> hw.st.max
                  [] r.stat = ID_SUM   -> hw.st.sum
                  [] r.stat = ID_HIST  -> hw.st.box[IF r.hist < BoxCnt THEN r.hist ELSE 0]
        words == Max({CnterWidth, ValueWidth + SumExtra, BoxWidth}) \div MiWidth
    IN  IF r.stat < ID_CTRLO THEN whole
        ELSE Slice(wide, IF r.slice < words THEN r.slice ELSE 0)

\* Counters stop at their maximum, the sum wraps around.
Saturate(n) == Min({n, CnterMax})

Count(i) ==
    /\ events < MaxEvents
    /\ events' = events + 1
    /\ hw' = [hw EXCEPT !.st.cnter[i] = Saturate(@ + 1)]
    /\ UNCHANGED <<me, alone, seen>>

Sample(v) ==
    LET b == (v * BoxCnt) \div 2^ValueWidth
        s == hw.st
    IN  /\ events < MaxEvents
        /\ events' = events + 1
        /\ hw' = [hw EXCEPT !.st = [cnter |-> [s.cnter EXCEPT ![CnterCnt] = Saturate(@ + 1)],
                                    min |-> Min({v, s.min}), max |-> Max({v, s.max}),
                                    sum |-> (s.sum + v) % 2^(ValueWidth + SumExtra),
                                    box |-> [s.box EXCEPT ![b] = @ + 1]]]
        /\ UNCHANGED <<me, alone, seen>>

(* -------------------------------------------------------- plans of accesses -- *)
\* One read of a statistic (wr = None) or one write of a value.
Access(stat, index, hist, wr) == [stat |-> stat, index |-> index, hist |-> hist, wr |-> wr]
Get(stat, index) == Access(stat, index, None, None)

load_config_plan ==
    <<Get(ID_CNTER_CNT, 0), Get(ID_CNTER_WIDTH, 0), Get(ID_VALUE_EN, 0), Get(ID_VALUE_WIDTH, 0),
      Get(ID_SUM_EXTRA, 0), Get(ID_BOX_CNT, 0), Get(ID_BOX_WIDTH, 0)>>

\* The configuration from the values the plan returned.
Config(v) == [cnters |-> v[1], cnter |-> v[2], value |-> v[4], sum |-> v[4] + v[5],
              boxes |-> v[6], box |-> v[7]]

load_value(conf) ==
    <<Get(ID_CNTER, conf.cnters), Get(ID_MIN, 0), Get(ID_MAX, 0), Get(ID_SUM, 0)>>
        \o [b \in 1..conf.boxes |-> Access(ID_HIST, 0, b - 1, None)]

\* The leaves of the statistics tree in the order in which load visits them:
\* a flow (words, ticks), a counter, a value, and the custom bit read back.
load_plan(conf) ==
    <<Get(ID_CNTER, 0), Get(ID_CNTER, 1)>> \o load_value(conf) \o <<Get(ID_CTRLO, 0)>>

\* Number of bus words of a statistic (stat_read); configuration reads take one.
Words(conf, stat) ==
    LET Ceil(w) == (w + MiWidth - 1) \div MiWidth
    IN  CASE stat = ID_CNTER -> Ceil(conf.cnter)
          [] stat \in {ID_MIN, ID_MAX} -> Ceil(conf.value)
          [] stat = ID_SUM -> Ceil(conf.sum)
          [] stat = ID_HIST -> Ceil(conf.box)
          [] OTHER -> 1

(* ----------------------------------------------------------- other programs -- *)
\* Another program with the component open moves a selection register or resets.
Foreign ==
    /\ events < MaxEvents
    /\ events' = events + 1
    /\ \/ \E r \in DOMAIN hw.reg, v \in {1, ID_CNTER} : hw' = [hw EXCEPT !.reg[r] = v]
       \/ hw' = ResetHw
    /\ alone' = FALSE
    /\ UNCHANGED <<me, seen>>

(* -------------------------------------------------------------- the program -- *)
NoCache == [stat |-> None, index |-> None, slice |-> None, hist |-> None]
Closed  == [op |-> "closed", todo |-> <<>>, slice |-> 0, acc |-> 0, got |-> <<>>,
            cache |-> NoCache, conf |-> None, data |-> <<>>]

Run(op, plan, cache) ==
    [me EXCEPT !.op = op, !.todo = plan, !.slice = 0, !.acc = 0, !.got = <<>>, !.cache = cache]

\* __init__: the configuration is read with an empty cache.
Open ==
    /\ me.op = "closed"
    /\ me' = Run("config", load_config_plan, NoCache)
    /\ alone' = TRUE
    /\ UNCHANGED <<hw, events, seen>>

\* LoggerStats.load.
load ==
    /\ me.op = "idle"
    /\ me' = Run("load", load_plan(me.conf), me.cache)
    /\ seen' = hw.st.cnter
    /\ UNCHANGED <<hw, alone, events>>

\* MemLogger.set_config and set_ctrlo.
set_ctrlo(v) ==
    /\ me.op = "idle"
    /\ me' = Run("set", <<Access(ID_CTRLO, 0, None, v)>>, me.cache)
    /\ UNCHANGED <<hw, alone, events, seen>>

\* The reset clears the selection registers too: the cache is dropped and the
\* configuration read again.
rst ==
    /\ me.op = "idle"
    /\ hw' = ResetHw
    /\ me' = Run("config", load_config_plan, NoCache)
    /\ UNCHANGED <<alone, events, seen>>

\* The program ends; the registers stay as it left them.
Exit ==
    /\ me.op = "idle"
    /\ me' = Closed
    /\ UNCHANGED <<hw, alone, events, seen>>

\* Registers _select has to write before the next word of an access, in order.
Wanted(a, s) == [stat |-> a.stat, index |-> a.index, hist |-> a.hist, slice |-> s]
\* Mutant: `if index:` in place of `if index is not None:`.
PendingTruthy ==
    LET w == Wanted(Head(me.todo), me.slice)
    IN  SelectSeq(<<"stat", "index", "hist", "slice">>,
                  LAMBDA r : w[r] \notin {None, 0} /\ me.cache[r] # w[r])
Pending ==
    LET w == Wanted(Head(me.todo), me.slice)
    IN  SelectSeq(<<"stat", "index", "hist", "slice">>,
                  LAMBDA r : w[r] # None /\ me.cache[r] # w[r])

_select ==
    /\ me.todo # <<>>
    /\ Pending # <<>>
    /\ LET r == Head(Pending)
           v == Wanted(Head(me.todo), me.slice)[r]
       IN  /\ hw' = [hw EXCEPT !.reg[r] = v]
           /\ me' = [me EXCEPT !.cache[r] = v]
    /\ UNCHANGED <<alone, events, seen>>

\* Shift of a word of a statistic: the lowest word comes first.
Weight(i) == 2^(i * MiWidth)

\* _load_slices, one word.
ReadWord ==
    LET a == Head(me.todo)
        v == me.acc + HwRead(hw.reg) * Weight(me.slice)
    IN  /\ me.todo # <<>> /\ Pending = <<>> /\ a.wr = None
        /\ me' = IF me.slice + 1 < Words(me.conf, a.stat)
                 THEN [me EXCEPT !.slice = @ + 1, !.acc = v]
                 ELSE [me EXCEPT !.slice = 0, !.acc = 0, !.todo = Tail(@), !.got = Append(@, v)]
        /\ UNCHANGED <<hw, alone, events, seen>>

WriteWord ==
    LET a == Head(me.todo)
    IN  /\ me.todo # <<>> /\ Pending = <<>> /\ a.wr # None
        /\ hw' = IF hw.reg.stat = ID_CTRLO THEN [hw EXCEPT !.ctrlo = a.wr] ELSE hw
        /\ me' = [me EXCEPT !.todo = Tail(@)]
        /\ UNCHANGED <<alone, events, seen>>

\* The whole plan is done: load_config keeps the configuration, load appends
\* to the histories and lets calc_stats derive the flow from words and ticks.
Finish ==
    /\ me.op \notin {"idle", "closed"}
    /\ me.todo = <<>>
    /\ me' = [me EXCEPT !.op = "idle", !.got = <<>>,
                        !.conf = IF me.op = "config" THEN Config(me.got) ELSE @,
                        !.data = IF me.op = "load" THEN me.got ELSE <<>>]
    /\ UNCHANGED <<hw, alone, events, seen>>

(* ------------------------------------------------------------ specification -- *)
Init ==
    /\ hw = ResetHw
    /\ me = Closed
    /\ alone = TRUE
    /\ events = 0
    /\ seen = ZeroStats.cnter

Next ==
    \/ Open \/ load \/ rst \/ Exit \/ _select \/ ReadWord \/ WriteWord \/ Finish
    \/ \E v \in {0, 1} : set_ctrlo(v)
    \/ \E i \in 0..(CnterCnt - 1) : Count(i)
    \/ \E v \in 0..(2^ValueWidth - 1) : Sample(v)
    \/ Foreign

Spec == Init /\ [][Next]_vars

(* --------------------------------------------------------------- properties -- *)
TypeOK ==
    /\ hw.st.cnter \in [0..CnterCnt -> 0..CnterMax]
    /\ me.slice \in 0..(2 * ID_HIST)
    /\ me.op \in {"closed", "idle", "config", "load", "set"}
    /\ alone \in BOOLEAN

\* A program nobody interfered with since it was opened records, for every
\* counter, no less than the counter was when the load started and less than one
\* bus word's worth more than it is when the load ends: exactly the counter when
\* it did not move.  (Reading a moving counter word by word is not atomic.)
\* The control word it reads back is the one that was set.
ReadsBounded ==
    me.op = "load" /\ me'.op = "idle" /\ alone =>
        LET d == me'.data
            Bounded(v, i) == /\ seen[i] <= v
                             /\ v < hw.st.cnter[i] + 2^MiWidth
                             /\ seen[i] = hw.st.cnter[i] => v = seen[i]
        IN  Bounded(d[1], 0) /\ Bounded(d[2], 1) /\ Bounded(d[3], CnterCnt)
            /\ Last(d) = hw.ctrlo
=============================================================================
