---------------------------- MODULE MemTesterTool ----------------------------
(* The programs that run a MEM_TESTER: mem_tester.py (one test from the       *)
(* command line), report_gen.py (a series of tests on every interface) and    *)
(* test_mem_tester.py (a short series that stops at the first failure), under *)
(* comp/debug/mem_tester/sw, with the tester and its logger.  A test is       *)
(* configured, started, waited for with a time limit and evaluated;           *)
(* the tester runs meanwhile, may hang, read wrong words or lose responses.   *)
EXTENDS Integers, Sequences, FiniteSetsExt, SequencesExt

CONSTANTS Interfaces,   \* memory interfaces 0..n
          BurstSeq,     \* get_burst_seq: burst counts the report goes through
          CliBursts,    \* burst counts asked for on the command line
          MaxBurst,     \* 2 ** MEM_BURST_WIDTH - 1
          None,         \* no configuration yet
          MaxRuns       \* bound: command line runs

VARIABLES hw,      \* [Interfaces -> tester and logger]
          todo,    \* tests the running program still has to do
          pc,      \* idle, config, execute, wait, result
          last,    \* self.last_test_config of the open tester
          report,  \* latest result: what was asked, what was measured, which errors
          runs     \* bound counter
vars == <<hw, todo, pc, last, report, runs>>

(* ------------------------------------------------------------- configurations -- *)
Conf(burst, whole, rand, simult) ==
    [burst |-> burst, whole |-> whole, rand |-> rand, simult |-> simult]
Test(key, index, conf) == [key |-> key, index |-> index, conf |-> conf]

\* ReportGen.test: one measurement for each value of the tested parameter.
OverRand(key, index, burst, whole, simult) ==
    <<Test(key, index, Conf(burst, whole, FALSE, simult)),
      Test(key, index, Conf(burst, whole, TRUE, simult))>>
OverBurst(key, index, rand, simult) ==
    [i \in DOMAIN BurstSeq |-> Test(key, index, Conf(BurstSeq[i], FALSE, rand, simult))]

\* The main loop, one interface.  The first test takes the parameters the last
\* test of the interface before left in test_params.
ReportTests(index) ==
    (IF index = 0 THEN OverRand("indexing", index, BurstSeq[1], TRUE, FALSE)
     ELSE OverRand("indexing", index, Last(BurstSeq), FALSE, TRUE))
    \o OverBurst("seq-burst", index, FALSE, FALSE)
    \o OverBurst("rand-burst", index, TRUE, FALSE)
    \o OverBurst("seq-burst-one-simult", index, FALSE, TRUE)
    \o OverBurst("rand-burst-one-simult", index, TRUE, TRUE)

ReportPlan == FlattenSeq([i \in 1..Cardinality(Interfaces) |-> ReportTests(i - 1)])

\* test_seq: the shortest and the longest burst on every interface.
test_seq == FlattenSeq([i \in 1..Cardinality(Interfaces) |->
                <<Test("test_seq", i - 1, Conf(1, TRUE, FALSE, FALSE)),
                  Test("test_seq", i - 1, Conf(MaxBurst, TRUE, FALSE, FALSE))>>])

(* ----------------------------------------------------- the tester (external) -- *)
NoStat == [wr |-> 0, rd |-> 0, resp |-> 0]
Reset(h) == [h EXCEPT !.phase = "init", !.done = FALSE, !.err = 0]

\* One pass: all words are written, all are read, responses come or get lost.
HwWrite(i) ==
    /\ hw[i].phase = "write"
    /\ hw' = [hw EXCEPT ![i].phase = "read", ![i].stat.wr = @ + 1]
    /\ UNCHANGED <<todo, pc, last, report, runs>>

HwRead(i) ==
    /\ hw[i].phase = "read"
    /\ \E bad, lost \in {0, 1} :
          hw' = [hw EXCEPT ![i].phase = IF lost = 1 THEN "hang" ELSE "init",
                           ![i].done = @ \/ lost = 0,
                           ![i].err = @ + (IF lost = 1 THEN 0 ELSE bad),
                           ![i].stat.rd = @ + 1, ![i].stat.resp = @ + 1 - lost]
    /\ UNCHANGED <<todo, pc, last, report, runs>>

\* The memory stops taking requests.
HwHang(i) ==
    /\ hw[i].phase = "write"
    /\ hw' = [hw EXCEPT ![i].phase = "hang"]
    /\ UNCHANGED <<todo, pc, last, report, runs>>

(* -------------------------------------------------------------------- a test -- *)
Now  == Head(todo)
Here == hw[Now.index]

\* rst(False), the logger's reset and the registers; a burst that is too large
\* leaves everything as it is, and the test is run all the same.
config_test ==
    /\ pc = "config"
    /\ IF Now.conf.burst > MaxBurst THEN UNCHANGED <<hw, last>>
       ELSE /\ hw' = [hw EXCEPT ![Now.index] =
                         [Reset(@) EXCEPT !.conf = Now.conf, !.stat = NoStat]]
            /\ last' = Now.conf
    /\ pc' = "execute"
    /\ UNCHANGED <<todo, report, runs>>

\* RUN_TEST is only seen in the initial state; TEST_DONE stays until a reset.
execute_test ==
    /\ pc = "execute"
    /\ hw' = IF Here.phase = "init" THEN [hw EXCEPT ![Now.index].phase = "write",
                                                   ![Now.index].err = 0] ELSE hw
    /\ pc' = "wait"
    /\ UNCHANGED <<todo, last, report, runs>>

\* wait_for_bit returns on TEST_DONE or at its time limit, which may come at any
\* moment of a test and only prints a message.
WaitDone ==
    /\ pc = "wait"
    /\ pc' = "result"
    /\ UNCHANGED <<hw, todo, last, report, runs>>

\* TEST_SUCCESS says that no wrong word was seen so far, not that the test ended.
check_test_result(conf, h) ==
    LET wrong == h.err # 0 /\ ~conf.rand
        lost  == h.stat.rd # h.stat.resp
    IN  (IF wrong THEN {"wrong"} ELSE {}) \cup (IF lost THEN {"lost"} ELSE {})

\* An evaluation that meets an exception ends the program: words that were lost
\* are subtracted as lists, and a tester that was never configured has no
\* configuration to look the addressing up in.
Raises(h) == h.stat.rd # h.stat.resp \/ (last = None /\ h.err # 0)

Entry(t, h) ==
    [key |-> t.key, index |-> t.index, asked |-> t.conf, ran |-> h.conf,
     stat |-> h.stat, err |-> h.err, done |-> h.done,
     errs |-> IF last = None THEN {} ELSE check_test_result(last, h)]

\* The asserts of test_seq.
Passed(e) == e.errs = {} /\ e.stat.wr > 0 /\ e.stat.rd > 0

get_test_result ==
    /\ pc = "result"
    /\ report' = IF Raises(Here) THEN report ELSE Entry(Now, Here)
    /\ todo' = IF Raises(Here) \/ (Now.key = "test_seq" /\ ~Passed(report')) THEN <<>> ELSE Tail(todo)
    /\ pc' = IF todo' = <<>> THEN "idle" ELSE "config"
    /\ UNCHANGED <<hw, last, runs>>

(* ------------------------------------------------------------------ programs -- *)
\* A program starts with a tester object of its own.
Start(plan) ==
    /\ pc = "idle" /\ runs < MaxRuns
    /\ todo' = plan
    /\ pc' = "config"
    /\ last' = None
    /\ report' = None
    /\ runs' = runs + 1

RunTest(index, conf) == Start(<<Test("cli", index, conf)>>) /\ UNCHANGED hw
RunReport == Start(ReportPlan) /\ UNCHANGED hw
RunPytest == Start(test_seq) /\ UNCHANGED hw

\* --rst and --rst-tester reset the tester, --rst-logger the logger.
rst(i) ==
    /\ pc = "idle"
    /\ hw' = [hw EXCEPT ![i] = Reset(@)]
    /\ UNCHANGED <<todo, pc, last, report, runs>>

rst_logger(i) ==
    /\ pc = "idle"
    /\ hw' = [hw EXCEPT ![i].stat = NoStat]
    /\ UNCHANGED <<todo, pc, last, report, runs>>

(* -------------------------------------------------------------- specification -- *)
Init ==
    /\ hw = [i \in Interfaces |-> [phase |-> "init", done |-> FALSE, err |-> 0, stat |-> NoStat,
                                  conf |-> Conf(BurstSeq[1], TRUE, FALSE, FALSE)]]
    /\ todo = <<>> /\ pc = "idle" /\ last = None /\ report = None /\ runs = 0

Next ==
    \/ \E i \in Interfaces : HwWrite(i) \/ HwRead(i) \/ HwHang(i) \/ rst(i) \/ rst_logger(i)
    \/ config_test \/ execute_test \/ WaitDone \/ get_test_result
    \/ \E i \in Interfaces, b \in CliBursts, r \in BOOLEAN : RunTest(i, Conf(b, TRUE, r, FALSE))
    \/ RunReport \/ RunPytest

Spec == Init /\ [][Next]_vars

(* ---------------------------------------------------------------- properties -- *)
TypeOK ==
    /\ \A i \in Interfaces : /\ hw[i].phase \in {"init", "write", "read", "hang"}
                             /\ hw[i].done \in BOOLEAN /\ hw[i].err \in Nat
    /\ pc \in {"idle", "config", "execute", "wait", "result"}
    /\ (pc = "idle") = (todo = <<>>)

\* What the report says of a finished test with an acceptable burst is true of that
\* test alone: it ran with the parameters that were asked for, its statistics
\* hold one pass and nothing of an earlier test, and no errors listed means that
\* every word came back right, when addresses were not random.
MeasuredAsLabelled ==
    LET e == report
    IN  e # None /\ e.done /\ e.asked.burst <= MaxBurst =>
            /\ e.ran = e.asked
            /\ e.stat = [wr |-> 1, rd |-> 1, resp |-> 1]
            /\ e.errs = {} /\ ~e.asked.rand => e.err = 0
            /\ e.key = "indexing" /\ e.index = 0 => e.asked.whole /\ e.asked.burst = BurstSeq[1]
=============================================================================
