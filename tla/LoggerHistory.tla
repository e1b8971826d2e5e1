---------------------------- MODULE LoggerHistory ----------------------------
(* The histories behind the statistics of a data logger (logger_stats.py):    *)
(* a LoggerStats node with its statistics, load, calc_stats, set_data, save   *)
(* and load_file, and what the kinds of statistics append on a load.  The     *)
(* value a load samples is the number of that load, so that an entry tells    *)
(* which load it comes from.  A read may fail, which ends the load it is in.  *)
EXTENDS Integers, Sequences, FiniteSetsExt, SequencesExt

CONSTANTS Tree,      \* sequence of [name, kind]: the statistics of the program
          Derived,   \* name calc_stats adds
          LogTime,   \* the key 'Log time'
          HandFiles, \* key sequences of files other programs saved
          NoFile,
          MaxOps     \* bound: operations on the node

VARIABLES stats,   \* self.stats: [name, kind, data], data in `nest` lists of one item
          time,    \* self.time
          file,    \* the .npz file: sequence of [name, data], NoFile when there is none
          ops,     \* bound counter, and the value sampled by a load
          hist,    \* ghost: the loads the histories should hold
          fhist,   \* ghost: the loads the file should hold
          sane     \* ghost: no load failed, no foreign file was loaded
vars == <<stats, time, file, ops, hist, fhist, sane>>

(* ------------------------------------------------------- kinds of statistics -- *)
List(seq) == [nest |-> 0, list |-> seq]
Appended(data, v) == [data EXCEPT !.list = Append(@, v)]

Constant(v) == List(<<v>>)                 \* keeps the last sample only
Counter(data, v)     == Appended(data, v)
TimeCounter(data, v) == Appended(data, v)

\* Words per tick; no flow before the first tick.
FlowCounter(data, words, ticks) == Appended(data, IF ticks = 0 THEN 0 ELSE words \div ticks)

\* Minimum, average, maximum and histogram of the metrics that are enabled.
ValueStat(data, enabled, v) == IF enabled THEN Appended(data, v) ELSE data

\* The same for each command, from its share of the histogram boxes.
ValueCMD(data, enabled, v) == IF enabled THEN Appended(data, v) ELSE data

Sampled(s, v) ==
    CASE s.kind = "constant"  -> Constant(v)
      [] s.kind = "counter"   -> Counter(s.data, v)
      [] s.kind = "time"      -> TimeCounter(s.data, v)
      [] s.kind = "flow"      -> FlowCounter(s.data, v, 1)
      [] s.kind = "value"     -> ValueStat(s.data, TRUE, v)
      [] s.kind = "cmd"       -> ValueCMD(s.data, TRUE, v)
      [] s.kind = "disabled"  -> ValueStat(s.data, FALSE, v)
      [] s.kind = "custom"    -> s.data        \* changes only when it is given data

(* ------------------------------------------------------------------ the node -- *)
NewStat(name, kind, data) == [name |-> name, kind |-> kind, data |-> data]
Item(name, data) == [name |-> name, data |-> data]

\* A Python dict in insertion order: a repeated key keeps its place.
Put(dict, name, data) ==
    IF \E i \in DOMAIN dict : dict[i].name = name
    THEN [i \in DOMAIN dict |-> IF dict[i].name = name THEN Item(name, data) ELSE dict[i]]
    ELSE Append(dict, Item(name, data))
Has(dict, name)   == \E i \in DOMAIN dict : dict[i].name = name
Value(dict, name) == dict[CHOOSE i \in DOMAIN dict : dict[i].name = name].data

data(sts, tms) ==
    LET d == FoldLeft(LAMBDA dict, s : Put(dict, s.name, s.data), <<>>, sts)
    IN  IF tms # <<>> THEN Put(d, LogTime, List(tms)) ELSE d

\* The callback of the memory logger: a sum of other statistics, entry by entry.
calc_stats(dict) ==
    LET flows == Value(dict, Tree[1].name) IN Put(dict, Derived, flows)

\* Position of the first statistic after p with that name, 0 when there is none.
Find(sts, p, name) ==
    LET hits == {i \in DOMAIN sts : i > p /\ sts[i].name = name}
    IN  IF hits = {} THEN 0 ELSE Min(hits)

\* Mutant: one look-up is spent before the loop.
AddNewSkipsFirst(sts, dict) ==
    LET Look(acc, item) ==
            LET at == IF acc.pos = -1 THEN 0 ELSE Find(acc.sts, acc.pos, item.name)
            IN  IF at # 0 THEN [acc EXCEPT !.pos = at]
                ELSE [pos |-> -1,
                      sts |-> Append(acc.sts, NewStat(item.name, "custom", [item.data EXCEPT !.nest = @ + 1]))]
    IN  FoldLeft(Look, [pos |-> 1, sts |-> sts], dict).sts

\* Keys without a statistic become custom ones.  The names are taken from a map
\* iterator: a look-up consumes it up to its hit, a miss exhausts it.
AddNew(sts, dict) ==
    LET Look(acc, item) ==
            LET at == IF acc.pos = -1 THEN 0 ELSE Find(acc.sts, acc.pos, item.name)
            IN  IF at # 0 THEN [acc EXCEPT !.pos = at]
                ELSE [pos |-> -1,
                      sts |-> Append(acc.sts, NewStat(item.name, "custom", [item.data EXCEPT !.nest = @ + 1]))]
    IN  FoldLeft(Look, [pos |-> 0, sts |-> sts], dict).sts

\* The statistics set in order; a missing key raises an exception.
Missing(sts, dict) == {i \in DOMAIN sts : ~Has(dict, sts[i].name)}
Assigned(sts, dict) ==
    LET good == Min(Missing(sts, dict) \cup {Len(sts) + 1}) - 1
    IN  [i \in DOMAIN sts |-> IF i <= good THEN [sts[i] EXCEPT !.data = Value(dict, sts[i].name)]
                              ELSE sts[i]]

set_data(sts, dict) ==
    IF Missing(sts, dict) # {} THEN Assigned(sts, dict) ELSE AddNew(Assigned(sts, dict), dict)

SetTime(tms, sts, dict) ==
    IF Missing(sts, dict) = {} /\ Has(dict, LogTime) THEN Value(dict, LogTime).list ELSE tms

(* ----------------------------------------------------------------- operations -- *)
Op == ops < MaxOps /\ ops' = ops + 1

\* load(time): every statistic samples in order, the callback and set_data
\* follow; the read of statistic `fails` raises an exception (0: none does).
load(timed, fails) ==
    /\ Op
    /\ LET tms   == IF timed THEN Append(time, ops) ELSE time
           upTo  == IF fails = 0 THEN Len(stats) ELSE fails - 1
           sts   == [i \in DOMAIN stats |->
                        IF i <= upTo THEN [stats[i] EXCEPT !.data = Sampled(stats[i], ops)]
                        ELSE stats[i]]
           dict  == calc_stats(data(sts, tms))
       IN  IF fails = 0
           THEN stats' = set_data(sts, dict) /\ time' = SetTime(tms, sts, dict)
           ELSE stats' = sts /\ time' = tms
    /\ hist' = Append(hist, ops)
    /\ sane' = (sane /\ fails = 0 /\ (timed <=> Len(time) = Len(hist)))
    /\ UNCHANGED <<file, fhist>>

save ==
    /\ Op
    /\ file' = data(stats, time)
    /\ fhist' = hist
    /\ UNCHANGED <<stats, time, hist, sane>>

load_file(f, mine) ==
    /\ Op
    /\ f # NoFile
    /\ stats' = set_data(stats, f)
    /\ time'  = SetTime(time, stats, f)
    /\ hist'  = fhist
    /\ sane'  = (sane /\ mine /\ Missing(stats, f) = {} /\ (time = <<>> \/ Has(f, LogTime)))
    /\ UNCHANGED <<file, fhist>>

(* -------------------------------------------------------------- specification -- *)
Init ==
    /\ stats = [i \in DOMAIN Tree |-> NewStat(Tree[i].name, Tree[i].kind, List(<<>>))]
    /\ time = <<>> /\ file = NoFile /\ ops = 0
    /\ hist = <<>> /\ fhist = <<>> /\ sane = TRUE

Next ==
    \/ \E timed \in BOOLEAN, fails \in 0..Len(stats) : load(timed, fails)
    \/ save
    \/ load_file(file, TRUE)
    \/ \E f \in HandFiles : load_file(f, FALSE)

Spec == Init /\ [][Next]_vars

(* ----------------------------------------------------------------- properties -- *)
Sampling == {"counter", "time", "value", "cmd", "flow"}

TypeOK ==
    /\ \A i \in DOMAIN Tree : stats[i].name = Tree[i].name /\ stats[i].kind = Tree[i].kind
    /\ \A i \in DOMAIN stats : Len(stats[i].data.list) <= MaxOps + 1

\* As long as no read failed and only files saved by this program were loaded,
\* every statistic is in the tree once, every sampled history has exactly one
\* entry for each load it should hold, in the order of the loads, the derived
\* statistic keeps up with them (wrapped in a list after its first load), and the logged times are either all there or
\* not asked for.
HistoriesKept ==
    sane =>
        /\ \A i, j \in DOMAIN stats : i # j => stats[i].name # stats[j].name
        /\ \A i \in DOMAIN stats :
              /\ stats[i].kind \in Sampling => stats[i].data = List(hist)
              /\ stats[i].name = Derived => stats[i].data.list = hist /\ stats[i].data.nest <= 1
        /\ time \in {<<>>, hist}
=============================================================================
