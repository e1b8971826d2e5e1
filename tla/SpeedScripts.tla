----------------------------- MODULE SpeedScripts -----------------------------
(* The two scripts of the speed meter (comp/mfb_tools/logic/speed_meter/      *)
(* scripts): test_script.py measures both streams of a loop switch for every  *)
(* frame length and writes a table, sm_get_speed.py measures one stream some  *)
(* number of times.  The streams run meanwhile and a script may be killed     *)
(* between any two of its register accesses.                                  *)
EXTENDS Integers, Sequences

CONSTANTS Lengths,      \* fr_lengths
          MaxTicks,     \* length of a measurement
          MaxChecks,    \* polls of sm_done (10)
          MaxRuns,      \* bound: scripts started
          Other,        \* frames of the application
          None          \* no result

Streams == {0, 1}

VARIABLES meter,  \* [Streams -> [ticks, lens: frames counted, clears]]
          gen,    \* [Streams -> [run, len]]
          mux,    \* the streams whose frames come from the generator
          prog,   \* the script that runs, where it is and its loop counters
          rows,   \* the table of test_script
          speeds, \* results of sm_get_speed
          runs    \* bound counter
vars == <<meter, gen, mux, prog, rows, speeds, runs>>

(* ------------------------------------------------------- the streams (external) -- *)
Cleared(m) == [m EXCEPT !.ticks = 0, !.lens = {}, !.clears = @ + 1]
Done(i) == meter[i].ticks = MaxTicks

\* A frame starts the counting; without frames the time goes on.
HwFrame(i) ==
    /\ ~Done(i)
    /\ i \in mux => gen[i].run
    /\ meter' = [meter EXCEPT ![i].ticks = @ + 1,
                              ![i].lens = @ \cup {IF i \in mux THEN gen[i].len ELSE Other}]
    /\ UNCHANGED <<gen, mux, prog, rows, speeds, runs>>

HwTime(i) ==
    /\ ~Done(i) /\ meter[i].ticks > 0
    /\ meter' = [meter EXCEPT ![i].ticks = @ + 1]
    /\ UNCHANGED <<gen, mux, prog, rows, speeds, runs>>

(* ------------------------------------------------------------------ test_script -- *)
\* Each step is done for stream 0 and then for stream 1.
Setup == <<"reset gen", "reset", "mux">>
Loop  == <<"reset", "length", "start", "wait", "stop", "read">>
Steps == Setup \o Loop
Step == Steps[prog.at \div 2 + 1]
I == prog.at % 2

\* Where the script goes on: at the next length after the last step of the loop.
Onward ==
    prog' = CASE prog.at + 1 < 2 * Len(Steps)  -> [prog EXCEPT !.at = @ + 1]
              [] prog.n < Len(Lengths)         -> [prog EXCEPT !.at = 2 * Len(Setup), !.n = @ + 1]
              [] OTHER                         -> [prog EXCEPT !.name = "none"]

Configure ==
    /\ prog.name = "test_script" /\ Step \in {"reset gen", "reset", "mux", "length", "start", "stop"}
    /\ gen' = CASE Step = "reset gen" -> [gen EXCEPT ![I].run = FALSE]
                [] Step = "length"    -> [gen EXCEPT ![I].len = Lengths[prog.n]]
                [] Step = "start"     -> [gen EXCEPT ![I].run = TRUE]
                [] Step = "stop"      -> [gen EXCEPT ![I].run = FALSE]
                [] OTHER              -> gen
    /\ meter' = IF Step = "reset" THEN [meter EXCEPT ![I] = Cleared(@)] ELSE meter
    /\ mux' = IF Step = "mux" THEN mux \cup {I} ELSE mux
    /\ Onward
    /\ UNCHANGED <<rows, speeds, runs>>

\* Polls without a limit.
WaitDone ==
    /\ prog.name = "test_script" /\ Step = "wait" /\ Done(I)
    /\ Onward
    /\ UNCHANGED <<meter, gen, mux, rows, speeds, runs>>

\* A row is written when both meters were read.
ReadMeter ==
    /\ prog.name = "test_script" /\ Step = "read"
    /\ rows' = IF I = 0 THEN Append(rows, <<Lengths[prog.n], meter[0]>>)
               ELSE [rows EXCEPT ![Len(rows)] = Append(@, meter[1])]
    /\ Onward
    /\ UNCHANGED <<meter, gen, mux, speeds, runs>>

(* ----------------------------------------------------------------- sm_get_speed -- *)
\* One measurement after another: reset, at most MaxChecks polls, read.
sm_reset ==
    /\ prog.name = "sm_get_speed" /\ prog.at = 0
    /\ meter' = [meter EXCEPT ![0] = Cleared(@)]
    /\ prog' = [prog EXCEPT !.at = 1]
    /\ UNCHANGED <<gen, mux, rows, speeds, runs>>

Result(r) ==
    /\ speeds' = Append(speeds, r)
    /\ prog' = IF Len(speeds) + 1 = prog.n THEN [prog EXCEPT !.name = "none"]
               ELSE [prog EXCEPT !.at = 0]

sm_done ==
    /\ prog.name = "sm_get_speed" /\ prog.at \in 1..MaxChecks
    /\ IF Done(0) THEN prog' = [prog EXCEPT !.at = MaxChecks + 1] /\ UNCHANGED speeds
       ELSE IF prog.at = MaxChecks THEN Result(None)
       ELSE prog' = [prog EXCEPT !.at = @ + 1] /\ UNCHANGED speeds
    /\ UNCHANGED <<meter, gen, mux, rows, runs>>

sm_measure ==
    /\ prog.name = "sm_get_speed" /\ prog.at = MaxChecks + 1
    /\ Result(meter[0])
    /\ UNCHANGED <<meter, gen, mux, rows, runs>>

(* ------------------------------------------------------------------------- runs -- *)
Start(name, n) ==
    /\ prog.name = "none" /\ runs < MaxRuns
    /\ prog' = [name |-> name, at |-> 0, n |-> n]
    /\ rows' = <<>> /\ speeds' = <<>>
    /\ runs' = runs + 1
    /\ UNCHANGED <<meter, gen, mux>>

Kill ==
    /\ prog.name # "none"
    /\ prog' = [prog EXCEPT !.name = "none"]
    /\ UNCHANGED <<meter, gen, mux, rows, speeds, runs>>

Init ==
    /\ meter = [i \in Streams |-> [ticks |-> 0, lens |-> {}, clears |-> 0]]
    /\ gen = [i \in Streams |-> [run |-> FALSE, len |-> Lengths[1]]]
    /\ mux = {} /\ prog = [name |-> "none", at |-> 0, n |-> 0]
    /\ rows = <<>> /\ speeds = <<>> /\ runs = 0

Next ==
    \/ \E i \in Streams : HwFrame(i) \/ HwTime(i)
    \/ Configure \/ WaitDone \/ ReadMeter \/ sm_reset \/ sm_done \/ sm_measure
    \/ Start("test_script", 1) \/ Start("sm_get_speed", 2) \/ Kill

Spec == Init /\ [][Next]_vars

(* --------------------------------------------------------------------- properties -- *)
TypeOK ==
    /\ \A i \in Streams : meter[i].ticks \in 0..MaxTicks /\ gen[i].run \in BOOLEAN
    /\ mux \subseteq Streams /\ prog.at \in 0..(2 * Len(Steps)) /\ Len(rows) <= Len(Lengths)

\* A row of the table holds whole measurements of frames of its length and of no
\* others, whatever was sent before and whichever run was killed where; what
\* sm_get_speed prints are whole measurements, each started by a reset of its own.
SpeedsAsAsked ==
    /\ \A k \in DOMAIN rows : \A i \in 2..Len(rows[k]) :
          rows[k][i].ticks = MaxTicks /\ rows[k][i].lens = {rows[k][1]}
    /\ \A k \in DOMAIN speeds : speeds[k] # None =>
          /\ speeds[k].ticks = MaxTicks
          /\ \A j \in 1..(k - 1) : speeds[j] # None => speeds[j].clears < speeds[k].clears
=============================================================================
