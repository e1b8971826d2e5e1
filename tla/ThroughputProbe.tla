-------------------------- MODULE ThroughputProbe --------------------------
(* The throughput probes of the cocotb test benches: base/probe.py keeps     *)
(* the intervals in which a probe logs and the period of its logs, and       *)
(* utils/throughput_probe.py counts, clock by clock, the items the bus could *)
(* have moved and logs the items that it did move in every period.           *)
(*                                                                           *)
(* Time is counted in clocks and the units of an interval are not modelled.  *)
(* The probes share one list of intervals: the default of the constructor's  *)
(* log_intervals is a single list object.  `logs` is history: it holds what  *)
(* every message said.                                                       *)
EXTENDS Integers, Sequences, TLC

CONSTANTS
    Items,          \* items a bus word holds
    Probes,         \* number of probes on the bus
    Periods,        \* periods a test sets; 0 logs at the end of an interval
    MaxTime,        \* bound: the clocks of a simulation
    MaxOps,         \* bound: calls the test makes
    None            \* the end of an interval that lasts until the simulation ends

VARIABLES
    now,            \* get_sim_time
    turn,           \* probe that still has to handle the last edge; 0: none
    intervals,      \* _log_intervals: [start, stop, ended]
    period,         \* _period of every probe
    item_cnt,       \* items the monitor has seen
    probe,          \* counters of every probe
    logs,           \* what every probe has logged
    failed,         \* a call of the test has raised
    ops

vars == <<now, turn, intervals, period, item_cnt, probe, logs, failed, ops>>

Cleared == [cleared |-> TRUE, start |-> 0, total_at |-> 0, items_at |-> 0]

Init ==
    /\ now = 0 /\ turn = 0 /\ item_cnt = 0 /\ ops = 0 /\ failed = FALSE
    /\ intervals = <<>>
    /\ period = [p \in 1 .. Probes |-> 0]
    /\ probe = [p \in 1 .. Probes |-> [total |-> 0, vals |-> Cleared]]
    /\ logs = [p \in 1 .. Probes |-> <<>>]

Over(i) == i.stop # None /\ now > i.stop

(* Intervals that are over are dropped from the front, each one only after   *)
(* it has been reported a last time.                                         *)
Live(ivs) ==
    LET done(k) == \A j \in 1 .. k : Over(ivs[j]) /\ ivs[j].ended
        gone    == CHOOSE k \in 0 .. Len(ivs) :
                       done(k) /\ (k < Len(ivs) => ~done(k + 1))
    IN  SubSeq(ivs, gone + 1, Len(ivs))

Reported(ivs) ==
    IF ivs # <<>> /\ Over(ivs[1]) THEN [ivs EXCEPT ![1].ended = TRUE] ELSE ivs

_simtime_is_in_log_interval(ivs) ==
    /\ ivs # <<>>
    /\ Over(ivs[1]) \/ now >= ivs[1].start

(* The end points of the new interval are looked for in the existing one: an *)
(* interval that encloses an existing one, or an endless one that begins     *)
(* before it, is accepted.                                                   *)
_interval_overlaps_log_intervals(ivs, new) ==
    \E k \in 1 .. Len(ivs) :
        LET old == ivs[k] IN
        IF old.stop = None
        THEN new.stop = None \/ new.start >= old.start \/ new.stop > old.start
        ELSE \/ new.start >= old.start /\ new.start < old.stop
             \/ new.stop # None /\ new.stop > old.start /\ new.stop <= old.stop

(* list.sort compares the starts and, where they are equal, the stops: None  *)
(* does not compare with a number.                                           *)
Sortable(ivs) ==
    \A j, k \in 1 .. Len(ivs) :
        ivs[j].start = ivs[k].start => (ivs[j].stop = None <=> ivs[k].stop = None)

Sorted(ivs) ==
    SortSeq(ivs, LAMBDA a, b : \/ a.start < b.start
                               \/ a.start = b.start /\ a.stop # None /\ a.stop < b.stop)

add_log_interval(ivs, new) ==
    IF _interval_overlaps_log_intervals(ivs, new) \/ ~Sortable(Append(ivs, new))
    THEN failed' = TRUE /\ intervals' = ivs
    ELSE intervals' = Sorted(Append(ivs, new)) /\ UNCHANGED failed

Interval(start, stop) == [start |-> start, stop |-> stop, ended |-> FALSE]

\* ---- calls of the test, between two edges of the clock

AddInterval ==
    \E start \in 0 .. MaxTime, stop \in (1 .. MaxTime) \cup {None} :
        /\ stop # None => stop > start
        /\ add_log_interval(intervals, Interval(start, stop))
        /\ UNCHANGED <<period, probe>>

(* The check consumes the last report of an interval that is over.           *)
start_log ==
    LET live == Live(intervals)
    IN  /\ IF _simtime_is_in_log_interval(live)
           THEN failed' = TRUE /\ intervals' = Reported(live)
           ELSE add_log_interval(live, Interval(now, None))
        /\ UNCHANGED <<period, probe>>

stop_log ==
    /\ IF intervals = <<>>
       THEN failed' = TRUE /\ UNCHANGED intervals
       ELSE intervals' = [intervals EXCEPT ![1].stop = now + 1] /\ UNCHANGED failed
    /\ UNCHANGED <<period, probe>>

clear_log_intervals ==
    intervals' = <<>> /\ UNCHANGED <<period, probe, failed>>

set_log_period ==
    \E p \in 1 .. Probes, n \in Periods :
        period' = [period EXCEPT ![p] = n] /\ UNCHANGED <<intervals, probe, failed>>

Call ==
    /\ turn = 0 /\ ~failed /\ ops < MaxOps
    /\ ops' = ops + 1
    /\ AddInterval \/ start_log \/ stop_log \/ clear_log_intervals \/ set_log_period
    /\ UNCHANGED <<now, turn, item_cnt, logs>>

\* ---- a clock: the monitor counts, then the probes handle the edge in turn

Edge ==
    /\ turn = 0 /\ now < MaxTime
    /\ now' = now + 1 /\ turn' = 1
    /\ \E n \in 0 .. Items : item_cnt' = item_cnt + n
    /\ UNCHANGED <<intervals, period, probe, logs, failed, ops>>

(* While the bench holds the bus in reset neither of them counts.            *)
ResetEdge ==
    /\ turn = 0 /\ now < MaxTime
    /\ now' = now + 1
    /\ UNCHANGED <<turn, intervals, period, item_cnt, probe, logs, failed, ops>>

_get_log_period(p) ==
    IF period[p] # 0 THEN period[p]
    ELSE IF intervals = <<>> THEN 0
    ELSE LET i == intervals[1] IN
         IF i.stop = None \/ now < i.start THEN 0 ELSE i.stop - i.start

(* The message of probe p: the items that passed, of those that could have,  *)
(* since the counters were last kept.                                        *)
Message(p, total) ==
    [from |-> probe[p].vals.items_at, to |-> item_cnt,
     possible |-> total - probe[p].vals.total_at, at |-> now]

Kept(start, total) ==
    [cleared |-> FALSE, start |-> start, total_at |-> total, items_at |-> item_cnt]

_log_immediate_throughput(p, total, length) ==
    LET live == Live(intervals)
        vals == probe[p].vals
    IN  IF intervals = <<>> \/ ~_simtime_is_in_log_interval(live)
        THEN /\ probe' = [probe EXCEPT ![p] = [total |-> total, vals |-> Cleared]]
             /\ intervals' = live /\ UNCHANGED logs
        ELSE /\ intervals' = Reported(live)
             /\ IF vals.cleared
                THEN /\ probe' = [probe EXCEPT ![p] =
                            [total |-> total, vals |-> Kept(live[1].start, total)]]
                     /\ UNCHANGED logs
                ELSE IF length = 0 \/ now - vals.start < length
                THEN /\ probe' = [probe EXCEPT ![p].total = total]
                     /\ UNCHANGED logs
                ELSE /\ probe' = [probe EXCEPT ![p] =
                            [total |-> total, vals |-> Kept(now, total)]]
                     /\ logs' = [logs EXCEPT ![p] = Append(@, Message(p, total))]

_start_probe ==
    /\ turn # 0
    /\ _log_immediate_throughput(turn, probe[turn].total + Items, _get_log_period(turn))
    /\ turn' = (turn + 1) % (Probes + 1)
    /\ UNCHANGED <<now, period, item_cnt, failed, ops>>

Next == Call \/ Edge \/ ResetEdge \/ _start_probe

Spec == Init /\ [][Next]_vars

-----------------------------------------------------------------------------

TypeOK ==
    /\ now \in 0 .. MaxTime /\ turn \in 0 .. Probes
    /\ \A k \in 1 .. Len(intervals) :
           /\ intervals[k].start \in 0 .. MaxTime
           /\ intervals[k].stop \in (1 .. MaxTime + 1) \cup {None}
    /\ \A k \in 2 .. Len(intervals) : intervals[k - 1].start <= intervals[k].start
    /\ period \in [1 .. Probes -> Periods \cup {0}]
    /\ failed \in BOOLEAN

(* No item is counted by two messages of a probe, however the test adds,     *)
(* ends and clears the intervals, and no message claims more items than the  *)
(* bus could have moved meanwhile: an efficiency is never above one.         *)
ItemsLoggedOnce ==
    \A p \in 1 .. Probes :
        \A k \in 1 .. Len(logs[p]) :
            LET message == logs[p][k] IN
            /\ message.to - message.from \in 0 .. message.possible
            /\ k > 1 => logs[p][k - 1].to <= message.from

=============================================================================
