------------------------------ MODULE AmmGenTool ------------------------------
(* Manual access to the memory through the AMM_GEN of a MEM_TESTER            *)
(* (mem_tester.py: --set-buff, --get-buff, --gen-burst, --gen-wr, --gen-rd):  *)
(* a buffer of words is filled slice by slice, a burst of it is written to    *)
(* the memory or read from it.  Each call is a program of its own; what it    *)
(* set up stays in the component for the next one.                            *)
EXTENDS Integers, Sequences, FiniteSets, Folds, SequencesExt

CONSTANTS Slices,     \* MEM_DATA_WIDTH / MI_DATA_WIDTH, rounded up
          SliceValues,\* 2 ** MI_DATA_WIDTH
          MaxBurst,   \* words of the buffer; the burst register counts modulo this
          FirstBurst, \* INIT_BURST_CNT of the component
          MemWords,   \* words of the memory
          Data,       \* words given on the command line
          MaxCalls,   \* bound
          None        \* nothing printed

VARIABLES addr,   \* AMM_GEN_ADDR
          burst,  \* AMM_GEN_BURST
          buff,   \* words of the buffer, each a sequence of slices
          mem,
          cut,    \* AMM_GEN_EN was once cleared before the burst was over
          wanted, \* buffer and memory as the calls so far should have left them
          got,    \* what --get-buff printed last, when nothing was called since
          calls   \* bound counter
vars == <<addr, burst, buff, mem, cut, wanted, got, calls>>

Call == calls < MaxCalls /\ calls' = calls + 1

(* ------------------------------------------------------- the component (external) -- *)
\* Word i of a burst is at the address a + i; past the last comes the first.
At(a, i) == (a + i) % MemWords

\* n words of a buffer go to the memory, or come from it.
Stored(m, b, a, n) ==
    FoldLeft(LAMBDA x, i : [x EXCEPT ![At(a, i)] = b[i]], m, [i \in 1..n |-> i - 1])
Fetched(m, b, a, n) == [i \in DOMAIN b |-> IF i < n THEN m[At(a, i)] ELSE b[i]]

\* The words that a transfer moves while AMM_GEN_EN is set: usually all of them.
\* A burst of 0 and a burst after one that was cut may move any number.
Moves == IF cut \/ burst = 0 THEN 0..MaxBurst ELSE 0..burst

(* ------------------------------------------------------------------------- slices -- *)
get_bits(data, s) == (data \div (SliceValues ^ s)) % SliceValues

SumOfSlices(word) ==
    FoldLeft(LAMBDA val, s : val + word[s + 1] * (SliceValues ^ s), 0, [s \in 1..Slices |-> s - 1])

(* -------------------------------------------------------------------------- calls -- *)
\* The slices of one word; ADDR selects it and gets its old value back.  The call
\* may be killed after some slices, with ADDR at the word.
amm_gen_set_buff(b, data, slices) ==
    /\ Call
    /\ LET word == b % MaxBurst
           new(old) == [s \in 1..Slices |-> IF s <= slices THEN get_bits(data, s - 1) ELSE old[s]]
       IN  /\ buff' = [buff EXCEPT ![word] = new(@)]
           /\ wanted' = [wanted EXCEPT !.buff[word] =
                            IF slices = Slices THEN data % (SliceValues ^ Slices) ELSE None]
    /\ addr' = IF slices = Slices THEN addr ELSE b
    /\ got' = None
    /\ UNCHANGED <<burst, mem, cut>>

amm_gen_get_buff ==
    /\ Call
    /\ got' = [i \in 0..(burst - 1) |-> SumOfSlices(buff[i])]
    /\ UNCHANGED <<addr, burst, buff, mem, cut, wanted>>

amm_gen_set_burst(n) ==
    /\ Call
    /\ burst' = n % MaxBurst
    /\ got' = None
    /\ UNCHANGED <<addr, buff, mem, cut, wanted>>

\* ADDR, AMM_GEN_EN, the edge of MEM_WR or MEM_RD, and AMM_GEN_EN is cleared.
amm_gen_write(a) ==
    /\ Call
    /\ addr' = a
    /\ \E n \in Moves : mem' = Stored(mem, buff, a, n) /\ cut' = (cut \/ burst = 0 \/ n < burst)
    /\ wanted' = [wanted EXCEPT !.mem = Stored(@, wanted.buff, a, burst)]
    /\ got' = None
    /\ UNCHANGED <<burst, buff>>

amm_gen_read(a) ==
    /\ Call
    /\ addr' = a
    /\ \E n \in Moves : buff' = Fetched(mem, buff, a, n) /\ cut' = (cut \/ burst = 0 \/ n < burst)
    /\ wanted' = [wanted EXCEPT !.buff = Fetched(wanted.mem, @, a, burst)]
    /\ got' = None
    /\ UNCHANGED <<burst, mem>>

(* ------------------------------------------------------------------ specification -- *)
Init ==
    /\ addr = 0 /\ burst = FirstBurst /\ cut = FALSE /\ got = None /\ calls = 0
    /\ buff = [i \in 0..(MaxBurst - 1) |-> [s \in 1..Slices |-> 0]]
    /\ mem = [a \in 0..(MemWords - 1) |-> [s \in 1..Slices |-> 0]]
    /\ wanted = [buff |-> [i \in 0..(MaxBurst - 1) |-> 0], mem |-> [a \in 0..(MemWords - 1) |-> 0]]

Next ==
    \/ \E b \in 0..MaxBurst, d \in Data, s \in 1..Slices : amm_gen_set_buff(b, d, s)
    \/ amm_gen_get_buff
    \/ \E n \in 1..MaxBurst : amm_gen_set_burst(n)
    \/ \E a \in 0..(MemWords - 1) : amm_gen_write(a) \/ amm_gen_read(a)

Spec == Init /\ [][Next]_vars

(* ---------------------------------------------------------------------- properties -- *)
TypeOK ==
    /\ addr \in Nat /\ burst \in 0..(MaxBurst - 1) /\ cut \in BOOLEAN
    /\ \A i \in DOMAIN buff, s \in 1..Slices : buff[i][s] \in 0..(SliceValues - 1)

\* As long as every burst was over before the access to the memory was taken away
\* again, the words that --get-buff prints are those that were set or that an
\* earlier call had written to the address they were read from, without what did
\* not fit the width of the memory; words of a killed --set-buff are excepted.
WordsAsSet ==
    got # None /\ ~cut => \A i \in DOMAIN got : wanted.buff[i] # None => got[i] = wanted.buff[i]
=============================================================================
